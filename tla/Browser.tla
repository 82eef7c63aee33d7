------------------------------ MODULE Browser ------------------------------
(* The Chromium of one playwright worker process, shared by its concurrent     *)
(* jobs and relaunched every CONTEXT_REFRESH_EVERY of them                     *)
(* (scraper/workers/playwright.ts, getBrowser; browser-farm.ts). The awaits of *)
(* getBrowser let other jobs run in between, and the 'disconnected' listener   *)
(* of ANY browser, crashed or closed, clears the variables they all share.     *)
EXTENDS Integers, FiniteSets

CONSTANTS
    Slots,           \* concurrent jobs of the worker
    Browsers,        \* bound: browsers open or in use at once
    NoBrowser,
    RefreshEvery,    \* CONTEXT_REFRESH_EVERY
    Mode             \* "local" or "cdp"

ASSUME RefreshAssumption == RefreshEvery \in Nat \ {0} /\ Mode \in {"local", "cdp"} /\ NoBrowser \notin Browsers

VARIABLES
    browser,         \* the module's variable
    jobsOnBrowser,
    open,            \* browsers that are running and connected
    slot,            \* slot[s]: "idle", "closing", "launching" or "page"
    uses,            \* uses[s]: the browser slot s closes, or renders its page in
    served,          \* history: served[b]: jobs that have been given browser b
    overlapped       \* history: two slots have replaced the browser at the same time

browserVars == <<browser, jobsOnBrowser, open, slot, uses, served, overlapped>>

Replacing == {s \in Slots : slot[s] \in {"closing", "launching"}}

BrowserInit ==
    /\ browser = NoBrowser /\ jobsOnBrowser = 0 /\ open = {}
    /\ slot = [s \in Slots |-> "idle"]
    /\ uses = [s \in Slots |-> NoBrowser]
    /\ served = [b \in Browsers |-> 0]
    /\ overlapped = FALSE

NeedsNewBrowser == browser \notin open \/ (Mode = "local" /\ jobsOnBrowser >= RefreshEvery)

(* Fault: the old browser is left to itself. *)
GetBrowserKeepsOld(s) ==
    /\ slot[s] = "idle"
    /\ NeedsNewBrowser
    /\ overlapped' = (overlapped \/ Replacing # {})
    /\ slot' = [slot EXCEPT ![s] = "launching"]
    /\ browser' = NoBrowser
    /\ UNCHANGED <<jobsOnBrowser, open, uses, served>>

(* getBrowser, up to its first await: close the old browser, which other jobs  *)
(* may be using, or launch one.                                                *)
GetBrowser(s) ==
    /\ slot[s] = "idle"
    /\ NeedsNewBrowser
    /\ overlapped' = (overlapped \/ Replacing # {})
    /\ slot' = [slot EXCEPT ![s] = IF browser = NoBrowser THEN "launching" ELSE "closing"]
    /\ uses' = [uses EXCEPT ![s] = browser]
    /\ UNCHANGED <<browser, jobsOnBrowser, open, served>>

(* getBrowser with a browser at hand. *)
ReuseBrowser(s) ==
    /\ slot[s] = "idle"
    /\ ~NeedsNewBrowser
    /\ slot' = [slot EXCEPT ![s] = "page"]
    /\ uses' = [uses EXCEPT ![s] = browser]
    /\ jobsOnBrowser' = jobsOnBrowser + 1
    /\ served' = [served EXCEPT ![browser] = @ + 1]
    /\ UNCHANGED <<browser, open, overlapped>>

(* Fault: the listener forgets the jobs and leaves the variable, in the belief *)
(* that isConnected() will tell.                                               *)
DisconnectedCountOnly(b) ==
    /\ b \in open
    /\ open' = open \ {b}
    /\ jobsOnBrowser' = 0
    /\ UNCHANGED <<browser, slot, uses, served, overlapped>>

(* A browser has crashed, its link has dropped, or close() takes effect. *)
Disconnected(b) ==
    /\ b \in open
    /\ open' = open \ {b}
    /\ browser' = NoBrowser
    /\ jobsOnBrowser' = 0
    /\ UNCHANGED <<slot, uses, served, overlapped>>

(* The await of close() returns. *)
Closed(s) ==
    /\ slot[s] = "closing" /\ uses[s] \notin open
    /\ browser' = NoBrowser
    /\ slot' = [slot EXCEPT ![s] = "launching"]
    /\ uses' = [uses EXCEPT ![s] = NoBrowser]
    /\ UNCHANGED <<jobsOnBrowser, open, served, overlapped>>

(* The await of launch() returns a new browser. *)
Launched(s) ==
    /\ slot[s] = "launching"
    /\ \E b \in Browsers \ (open \cup {uses[t] : t \in Slots} \cup {browser}) :
         /\ browser' = b
         /\ open' = open \cup {b}
         /\ uses' = [uses EXCEPT ![s] = b]
         /\ served' = [served EXCEPT ![b] = 1]
    /\ jobsOnBrowser' = 1
    /\ slot' = [slot EXCEPT ![s] = "page"]
    /\ UNCHANGED overlapped

(* launch() throws, or the job ends: its page is parsed, it has failed, or its *)
(* browser was closed under it. The finally block closes the context.          *)
JobEnds(s) ==
    /\ slot[s] \in {"launching", "page"}
    /\ slot' = [slot EXCEPT ![s] = "idle"]
    /\ uses' = [uses EXCEPT ![s] = NoBrowser]
    /\ UNCHANGED <<browser, jobsOnBrowser, open, served, overlapped>>

BrowserNext ==
    \/ \E s \in Slots : GetBrowser(s) \/ ReuseBrowser(s) \/ Closed(s) \/ Launched(s) \/ JobEnds(s)
    \/ \E b \in Browsers : Disconnected(b)

BrowserSpec == BrowserInit /\ [][BrowserNext]_browserVars

----------------------------------------------------------------------------
BrowserTypeOK ==
    /\ browser \in Browsers \cup {NoBrowser}
    /\ jobsOnBrowser \in Nat /\ (Mode = "local" => jobsOnBrowser <= RefreshEvery)
    /\ open \subseteq Browsers
    /\ slot \in [Slots -> {"idle", "closing", "launching", "page"}]
    /\ uses \in [Slots -> Browsers \cup {NoBrowser}]
    /\ served \in [Browsers -> Nat] /\ overlapped \in BOOLEAN

(* "One Chromium instance per worker process": it holds until two jobs replace *)
(* the browser at the same time, through any crash and whatever the listeners  *)
(* of old browsers clear; after that a browser that nothing points to may run  *)
(* on for ever (getBrowser).                                                   *)
OneBrowser == overlapped \/ Cardinality(open) <= 1

(* No local browser renders more than CONTEXT_REFRESH_EVERY jobs, although the *)
(* listener of one browser resets the count of another, and replacements may   *)
(* overlap (getBrowser, the 'disconnected' listener).                          *)
RefreshBound == Mode = "local" => \A b \in open : served[b] <= RefreshEvery
=============================================================================
