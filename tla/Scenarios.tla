----------------------------- MODULE Scenarios -----------------------------
(***************************************************************************)
(* Saved calculator scenarios of one browser and their move into the       *)
(* user's account: specter-web/lib/tools/scenarios.ts over localStorage,   *)
(* which all tabs share, and lib/use-migrate-scenarios.ts in every tab     *)
(* that shows the workspace.  A step runs to the next await of its tab.    *)
(***************************************************************************)
EXTENDS Naturals, SequencesExt

CONSTANTS
    Tools,          \* tool pages, each with a bucket of its own
    MaxSaves,       \* bound on the scenarios the user saves
    NoTool,
    Tabs,           \* visits of the workspace
    MAX_SCENARIOS   \* the length a bucket is cut to

ASSUME ScenariosAssumption ==
    MAX_SCENARIOS \in Nat \ {0} /\ MaxSaves \in Nat /\ NoTool \notin Tools

\* A scenario is the number of its save.
ScenarioIds == 1..MaxSaves

VARIABLES
    storage,    \* localStorage: the scenarios of each tool, newest first
    account,    \* the scenarios the API has stored
    tab,        \* the migration of each tab
    saves,      \* the number of scenarios saved so far
    dropped,    \* history: those the user deleted or pushed out of a full bucket
    raced       \* history: those saved into a bucket that a migration held

scenarioVars == <<storage, account, tab, saves, dropped, raced>>

\* A migration: the buckets it has read, the groups it has not come to, what is
\* left of the current group, and the groups that went through.
Away == [tool |-> NoTool, got |-> [t \in Tools |-> <<>>], todo |-> {},
         left |-> <<>>, allOk |-> TRUE, imported |-> {}]

Migrating == {w \in Tabs : tab[w].tool # NoTool}

ScenarioInit ==
    /\ storage = [t \in Tools |-> <<>>]
    /\ account = {}
    /\ tab = [w \in Tabs |-> Away]
    /\ saves = 0
    /\ dropped = {}
    /\ raced = {}

\* The tools whose scenarios a running migration has read.
Held == {t \in Tools : \E w \in Migrating : tab[w].got[t] # <<>>}
-----------------------------------------------------------------------------
(***************************************************************************)
(* The tool pages: each call reads, changes and writes a bucket at once.   *)
(***************************************************************************)
\* Fault: the bucket is not cut.
SaveScenarioUncut(t) ==
    /\ saves < MaxSaves
    /\ saves' = saves + 1
    /\ storage' = [storage EXCEPT ![t] = <<saves + 1>> \o @]
    /\ raced' = IF t \in Held THEN raced \cup {saves + 1} ELSE raced
    /\ UNCHANGED <<account, tab, dropped>>

\* The newest first; what does not fit is cut off.
SaveScenario(t) ==
    LET new     == saves + 1
        updated == <<new>> \o storage[t]
        kept    == SubSeq(updated, 1, Min({Len(updated), MAX_SCENARIOS}))
    IN  /\ saves < MaxSaves
        /\ saves' = new
        /\ storage' = [storage EXCEPT ![t] = kept]
        /\ dropped' = dropped \cup (ToSet(updated) \ ToSet(kept))
        /\ raced' = IF t \in Held THEN raced \cup {new} ELSE raced
        /\ UNCHANGED <<account, tab>>

\* A scenario is saved under one id and into one bucket, so it is where it is found.
DeleteScenario(t, i) ==
    /\ i \in DOMAIN storage[t]
    /\ storage' = [storage EXCEPT ![t] = RemoveAt(@, i)]
    /\ dropped' = dropped \cup {storage[t][i]}
    /\ UNCHANGED <<account, tab, saves, raced>>

(***************************************************************************)
(* useMigrateScenarios.                                                    *)
(***************************************************************************)
Group(m, t) == [m EXCEPT !.tool = t, !.left = m.got[t], !.allOk = TRUE, !.todo = m.todo \ {t}]

\* The workspace opens, collects the buckets that are not empty and sends the
\* first scenario; localStorage hands out its keys in any order.
Collect(w) ==
    LET filled == {t \in Tools : storage[t] # <<>>}
    IN  /\ w \notin Migrating
        /\ \E t \in filled :
              tab' = [tab EXCEPT ![w] = Group([Away EXCEPT !.got = storage, !.todo = filled], t)]
        /\ UNCHANGED <<storage, account, saves, dropped, raced>>

\* Fault: a failed save is skipped like one that went through.
OutcomeIgnored(ok, answered) == TRUE

\* Whether every save of a group so far has gone through.
Outcome(ok, answered) == ok /\ answered

\* The answer for the scenario on its way: stored, or refused, or stored with
\* the answer lost.  The next one is sent at once; after the last one the
\* buckets of the groups that went through are removed.
Answer(w) ==
    LET m == tab[w]
    IN  /\ w \in Migrating
        /\ \E stored, answered \in BOOLEAN :
              LET ok   == Outcome(m.allOk, answered)
                  done == IF ok THEN m.imported \cup {m.tool} ELSE m.imported
              IN  /\ answered => stored
                  /\ account' = IF stored THEN account \cup {Head(m.left)} ELSE account
                  /\ \/ /\ Len(m.left) > 1
                        /\ tab' = [tab EXCEPT ![w] = [m EXCEPT !.left = Tail(m.left), !.allOk = ok]]
                        /\ UNCHANGED storage
                     \/ /\ Len(m.left) = 1 /\ m.todo # {}
                        /\ \E t \in m.todo :
                              tab' = [tab EXCEPT ![w] = Group([m EXCEPT !.imported = done], t)]
                        /\ UNCHANGED storage
                     \/ /\ Len(m.left) = 1 /\ m.todo = {}
                        /\ storage' = [t \in Tools |-> IF t \in done THEN <<>> ELSE storage[t]]
                        /\ tab' = [tab EXCEPT ![w] = Away]
        /\ UNCHANGED <<saves, dropped, raced>>

\* The tab is closed or reloaded, and its migration with it; the request on its
\* way may still be served.
Leave(w) ==
    /\ w \in Migrating
    /\ account' \in {account, account \cup {Head(tab[w].left)}}
    /\ tab' = [tab EXCEPT ![w] = Away]
    /\ UNCHANGED <<storage, saves, dropped, raced>>

ScenarioNext ==
    \/ \E t \in Tools : SaveScenario(t) \/ \E i \in 1..MAX_SCENARIOS : DeleteScenario(t, i)
    \/ \E w \in Tabs : Collect(w) \/ Answer(w) \/ Leave(w)

ScenarioSpec == ScenarioInit /\ [][ScenarioNext]_scenarioVars
-----------------------------------------------------------------------------
ScenarioTypeOK ==
    /\ storage \in [Tools -> Seq(ScenarioIds)]
    /\ \A t \in Tools : Len(storage[t]) <= MAX_SCENARIOS
    /\ saves \in 0..MaxSaves
    /\ account \cup dropped \cup raced \subseteq ScenarioIds
    /\ \A w \in Tabs :
          /\ tab[w].tool \in Tools \cup {NoTool}
          /\ w \in Migrating => tab[w].left # <<>>
          /\ tab[w].todo \cup tab[w].imported \subseteq Tools
          /\ tab[w].got \in [Tools -> Seq(ScenarioIds)]
          /\ tab[w].left \in Seq(ScenarioIds)
          /\ tab[w].allOk \in BOOLEAN

\* use-migrate-scenarios.ts:12-13: whatever fails, whichever tabs migrate at
\* once and are closed half way, a scenario that the user did not delete or
\* push out is in its bucket or in the account.  The exception is real: one
\* saved while a migration holds its bucket is removed with the bucket.
NothingLost ==
    \A s \in (1..saves) \ (dropped \cup raced) :
        s \in account \/ \E t \in Tools : s \in ToSet(storage[t])
=============================================================================
