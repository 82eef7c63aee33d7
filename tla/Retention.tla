------------------------------ MODULE Retention ------------------------------
(***************************************************************************)
(* How long the price snapshots of one URL are kept:                       *)
(* specter-api/services/retention.py, and the changes of plan and of       *)
(* trackings around it in routers/billing.py and routers/skus.py.  The     *)
(* daily purge deletes in batches that commit one by one, and a downgrade  *)
(* commits the new plan before a second transaction marks the history for  *)
(* deletion, so that plans change under a purge and a purge runs between   *)
(* the two.                                                                *)
(*                                                                         *)
(* An age counts days; a purge or a downgrade takes minutes, and the day   *)
(* does not end during one.                                                *)
(***************************************************************************)
EXTENDS Integers, FiniteSets

CONSTANTS
    Merchants,  \* merchants that may track the URL
    Snapshots,  \* ids of price_snapshots of the URL
    SHORT,      \* RETENTION_DAYS_SHORT
    LONG,       \* RETENTION_DAYS_LONG
    GRACE,      \* DOWNGRADE_GRACE_DAYS
    BATCH       \* PURGE_BATCH_SIZE

ASSUME RetentionAssumption ==
    /\ SHORT \in Nat /\ LONG \in Nat /\ GRACE \in Nat /\ SHORT < LONG
    /\ BATCH \in Nat \ {0}

VARIABLES
    stored,     \* the snapshots in the table
    age,        \* days since scraped_at, up to the first that is beyond LONG
    marked,     \* the snapshots whose delete_at is set
    left,       \* days until delete_at
    long,       \* merchants on a plan that retains for LONG days
    tracks,     \* merchants with a competitor_tracking of the URL, enabled or not
    leaving,    \* merchants whose downgrade has committed and not yet marked
    pass,       \* the pass the purge is in, "idle" when none runs
    covered,    \* ghost: snapshots a LONG plan has tracked ever since they passed SHORT
    promised    \* ghost: days a snapshot is still to be kept after a downgrade

table         == <<stored, age, marked, left>>
retentionVars == <<table, long, tracks, leaving, pass, covered, promised>>

\* _urls_tracked_by_90d_plans: the URL is among them.  A disabled tracking counts.
Shared == tracks \cap long # {}

Aged(s) == age[s] > SHORT

\* The ghosts.  A snapshot stays covered while it is young or the URL is shared.
Cover == covered' = {s \in covered : Aged(s) => Shared'}

\* A promise that has not been written as delete_at is void once a LONG plan
\* tracks the URL again, or when whoever was to write it is gone.
OnlyWritten == promised' = [s \in Snapshots |-> IF s \in marked THEN promised[s] ELSE 0]
-----------------------------------------------------------------------------
(***************************************************************************)
(* Plans and trackings.                                                    *)
(***************************************************************************)
\* routers/competitors.py: the URL is added; deleting it later only disables.
Track(m) ==
    /\ tracks' = tracks \cup {m}
    /\ UNCHANGED <<table, long, leaving, pass>>
    /\ Cover /\ OnlyWritten

\* _delete_sku_cascade: the product goes, and its trackings with it.
Untrack(m) ==
    /\ tracks' = tracks \ {m}
    /\ UNCHANGED <<table, long, leaving, pass>>
    /\ Cover /\ OnlyWritten

\* _apply_activation: a charge applies the plan that was paid, also a lower one,
\* and touches no delete_at.
Charged(m) ==
    /\ long' \in {long \cup {m}, long \ {m}}
    /\ UNCHANGED <<table, tracks, leaving, pass>>
    /\ Cover /\ OnlyWritten

\* apply_downgrade up to its commit.
DowngradeCommit(m) ==
    /\ m \in long
    /\ long' = long \ {m}
    /\ leaving' = leaving \cup {m}
    /\ UNCHANGED <<table, tracks, pass>>
    /\ Cover
    /\ promised' = [s \in Snapshots |->
                       IF s \in covered \ covered' /\ age[s] <= LONG THEN GRACE ELSE promised[s]]

\* Fault: it runs before the commit, and the merchant still counts.
ExcessBeforeCommit(m) ==
    {s \in stored \ marked : Aged(s) /\ m \in tracks /\ tracks \cap (long \cup {m}) = {}}

\* The rows schedule_downgrade_deletion marks.
Excess(m) ==
    {s \in stored \ marked : Aged(s) /\ m \in tracks /\ ~Shared}

\* schedule_downgrade_deletion, a transaction of its own.
Schedule(m) ==
    /\ m \in leaving
    /\ leaving' = leaving \ {m}
    /\ marked' = marked \cup Excess(m)
    /\ left' = [s \in Snapshots |-> IF s \in Excess(m) THEN GRACE ELSE left[s]]
    /\ UNCHANGED <<stored, age, long, tracks, pass, covered, promised>>

\* The process dies between the two; nothing resumes the second.
DowngradeDies(m) ==
    /\ m \in leaving
    /\ leaving' = leaving \ {m}
    /\ OnlyWritten
    /\ UNCHANGED <<table, long, tracks, pass, covered>>
-----------------------------------------------------------------------------
(***************************************************************************)
(* Snapshots, the purge, and time.                                         *)
(***************************************************************************)
Scrape(s) ==
    /\ s \notin stored
    /\ stored' = stored \cup {s}
    /\ covered' = covered \cup {s}
    /\ UNCHANGED <<age, marked, left, long, tracks, leaving, pass, promised>>

\* Fault: the last pass does not ask who tracks the URL.
ExpiredForAll == [
    a |-> {s \in stored \cap marked : left[s] = 0},
    b |-> {s \in stored \ marked : age[s] > LONG},
    c |-> {s \in stored \ marked : Aged(s) /\ age[s] <= LONG}]

\* The where clauses of the three passes of purge_expired_snapshots.
Expired == [
    a |-> {s \in stored \cap marked : left[s] = 0},
    b |-> {s \in stored \ marked : age[s] > LONG},
    c |-> {s \in stored \ marked : Aged(s) /\ age[s] <= LONG /\ ~Shared}]

After(p) == [a |-> "b", b |-> "c", c |-> "idle"][p]

PurgeStart ==
    /\ pass = "idle"
    /\ pass' = "a"
    /\ UNCHANGED <<table, long, tracks, leaving, covered, promised>>

\* One turn of _delete_snapshots_batched: a batch that is not full is the last.
PurgeBatch(batch) ==
    /\ pass # "idle"
    /\ batch \subseteq Expired[pass]
    /\ \/ Cardinality(batch) = BATCH /\ pass' = pass
       \/ batch = Expired[pass] /\ Cardinality(batch) < BATCH /\ pass' = After(pass)
    /\ stored' = stored \ batch
    /\ marked' = marked \ batch
    /\ age' = [s \in Snapshots |-> IF s \in batch THEN 0 ELSE age[s]]
    /\ left' = [s \in Snapshots |-> IF s \in batch THEN 0 ELSE left[s]]
    /\ covered' = covered \ batch
    /\ promised' = [s \in Snapshots |-> IF s \in batch THEN 0 ELSE promised[s]]
    /\ UNCHANGED <<long, tracks, leaving>>

\* The purge dies; the batches it committed are gone.
PurgeDies ==
    /\ pass # "idle"
    /\ pass' = "idle"
    /\ UNCHANGED <<table, long, tracks, leaving, covered, promised>>

Less(n) == IF n = 0 THEN 0 ELSE n - 1

\* A day passes.
NextDay ==
    /\ pass = "idle" /\ leaving = {}
    /\ age' = [s \in Snapshots |->
                  IF s \in stored /\ age[s] <= LONG THEN age[s] + 1 ELSE age[s]]
    /\ left' = [s \in Snapshots |-> Less(left[s])]
    /\ promised' = [s \in Snapshots |-> Less(promised[s])]
    /\ covered' = {s \in covered : age'[s] > SHORT => Shared}
    /\ UNCHANGED <<stored, marked, long, tracks, leaving, pass>>
-----------------------------------------------------------------------------
RetentionInit ==
    /\ stored = {} /\ marked = {} /\ covered = {}
    /\ age = [s \in Snapshots |-> 0]
    /\ left = [s \in Snapshots |-> 0]
    /\ promised = [s \in Snapshots |-> 0]
    /\ long = {} /\ tracks = {} /\ leaving = {}
    /\ pass = "idle"

RetentionNext ==
    \/ \E m \in Merchants : Track(m) \/ Untrack(m)
    \/ \E m \in Merchants : Charged(m) \/ DowngradeCommit(m) \/ Schedule(m) \/ DowngradeDies(m)
    \/ \E s \in Snapshots : Scrape(s)
    \/ PurgeStart \/ PurgeDies \/ NextDay
    \/ \E batch \in SUBSET stored : PurgeBatch(batch)

RetentionSpec == RetentionInit /\ [][RetentionNext]_retentionVars
-----------------------------------------------------------------------------
RetentionTypeOK ==
    /\ stored \subseteq Snapshots /\ marked \subseteq stored /\ covered \subseteq stored
    /\ age \in [Snapshots -> 0..(LONG + 1)]
    /\ left \in [Snapshots -> 0..GRACE]
    /\ promised \in [Snapshots -> 0..GRACE]
    /\ long \subseteq Merchants /\ tracks \subseteq Merchants /\ leaving \subseteq Merchants
    /\ pass \in {"idle", "a", "b", "c"}

\* retention.py:6-9, "a snapshot's effective retention is the max of the tiers
\* tracking it": a snapshot that some LONG plan or other has tracked at every
\* moment since it passed SHORT days is not deleted before LONG days, whatever the
\* others downgrade, delete or pay while the purge runs; and none before SHORT.
HistoryKept ==
    [][\A s \in stored \ stored' :
          \/ age[s] > LONG
          \/ Aged(s) /\ s \notin covered]_retentionVars

\* retention.py:11-12, "history beyond 30 days isn't deleted instantly": when the
\* last LONG plan downgrades, what it kept until then stays for GRACE more days,
\* unless a purge falls between the two transactions of the downgrade.
GraceKept ==
    [][\A s \in stored \ stored' :
          promised[s] > 0 => s \notin marked /\ leaving # {}]_retentionVars
=============================================================================
