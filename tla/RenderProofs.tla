---------------------------- MODULE RenderProofs -----------------------------
(***************************************************************************)
(* The shared Chromium and the CAPTCHA offload of the playwright worker.   *)
(***************************************************************************)
EXTENDS MCRender, FiniteSetTheorems, TLAPS

----------------------------------------------------------------------------
(* The shared Chromium is refreshed in time and is one, for any number of jobs*)
(* and browsers: the count always belongs to the browser that the module's *)
(* variable points to, and as long as no two replacements overlap nothing but*)
(* that browser is open.                                                   *)

\* The count of the module is the number of jobs the current browser was given,
\* although the listener of any other browser resets it.
CountInv ==
    /\ browser \in open => served[browser] = jobsOnBrowser
    /\ RefreshBound

\* Without an overlap one slot at a time replaces the browser: while it closes
\* nothing but the browser it closes is open, and while it launches nothing.
ReplaceInv ==
    overlapped \/
        /\ open \subseteq {browser}
        /\ \A s, t \in Replacing : s = t
        /\ \A s \in Slots : /\ slot[s] = "closing" => open \subseteq {uses[s]}
                            /\ slot[s] = "launching" => open = {}

BrowserInv == BrowserTypeOK /\ CountInv /\ ReplaceInv

-----------------------------------------------------------------------------
\* The types of the state.
LEMMA BrowserTypeStep ==
    ASSUME BrowserTypeOK, [BrowserNext]_browserVars
    PROVE  BrowserTypeOK'
<1> USE RefreshAssumption
<1>1. ASSUME NEW s \in Slots, GetBrowser(s)
      PROVE  BrowserTypeOK'
  <2>1. slot' \in [Slots -> {"idle", "closing", "launching", "page"}]
    BY <1>1 DEF BrowserTypeOK, GetBrowser
  <2>2. uses' \in [Slots -> Browsers \cup {NoBrowser}]
    BY <1>1 DEF BrowserTypeOK, GetBrowser
  <2>3. overlapped' \in BOOLEAN
    BY <1>1, Zenon DEF BrowserTypeOK, GetBrowser
  <2> QED
    BY <1>1, <2>1, <2>2, <2>3 DEF BrowserTypeOK, GetBrowser
<1>2. ASSUME NEW s \in Slots, ReuseBrowser(s)
      PROVE  BrowserTypeOK'
  <2>1. jobsOnBrowser' \in Nat /\ (Mode = "local" => jobsOnBrowser' <= RefreshEvery)
    BY <1>2 DEF BrowserTypeOK, ReuseBrowser, NeedsNewBrowser
  <2>2. served' \in [Browsers -> Nat]
    <3>1. browser \in Browsers /\ served \in [Browsers -> Nat]
          /\ served' = [served EXCEPT ![browser] = served[browser] + 1]
      BY <1>2 DEF BrowserTypeOK, ReuseBrowser, NeedsNewBrowser
    <3>2. served[browser] + 1 \in Nat
      BY <3>1
    <3> QED
      BY <3>1, <3>2
  <2>3. slot' \in [Slots -> {"idle", "closing", "launching", "page"}]
        /\ uses' \in [Slots -> Browsers \cup {NoBrowser}]
    BY <1>2 DEF BrowserTypeOK, ReuseBrowser
  <2> QED
    BY <1>2, <2>1, <2>2, <2>3 DEF BrowserTypeOK, ReuseBrowser
<1>3. ASSUME NEW s \in Slots, Closed(s)
      PROVE  BrowserTypeOK'
  BY <1>3 DEF BrowserTypeOK, Closed
<1>4. ASSUME NEW s \in Slots, Launched(s)
      PROVE  BrowserTypeOK'
  <2>1. PICK b \in Browsers : browser' = b /\ open' = open \cup {b}
                              /\ uses' = [uses EXCEPT ![s] = b]
                              /\ served' = [served EXCEPT ![b] = 1]
    BY <1>4 DEF Launched
  <2>2. served' \in [Browsers -> Nat]
    BY <2>1 DEF BrowserTypeOK
  <2>3. slot' \in [Slots -> {"idle", "closing", "launching", "page"}]
        /\ uses' \in [Slots -> Browsers \cup {NoBrowser}]
    BY <1>4, <2>1 DEF BrowserTypeOK, Launched
  <2> QED
    BY <1>4, <2>1, <2>2, <2>3 DEF BrowserTypeOK, Launched
<1>5. ASSUME NEW s \in Slots, JobEnds(s)
      PROVE  BrowserTypeOK'
  BY <1>5 DEF BrowserTypeOK, JobEnds
<1>6. ASSUME NEW b \in Browsers, Disconnected(b)
      PROVE  BrowserTypeOK'
  BY <1>6 DEF BrowserTypeOK, Disconnected
<1>7. CASE UNCHANGED browserVars
  BY <1>7 DEF BrowserTypeOK, browserVars
<1> QED
  BY <1>1, <1>2, <1>3, <1>4, <1>5, <1>6, <1>7 DEF BrowserNext

-----------------------------------------------------------------------------
\* A step that opens nothing, serves nothing and leaves the count to the same
\* browser or to none.
LEMMA CountKept ==
    ASSUME BrowserTypeOK, CountInv, UNCHANGED served, open' \subseteq open,
           browser' = NoBrowser \/ (browser' = browser /\ jobsOnBrowser' = jobsOnBrowser)
    PROVE  CountInv'
BY RefreshAssumption DEF BrowserTypeOK, CountInv, RefreshBound

LEMMA CountStep ==
    ASSUME BrowserTypeOK, CountInv, [BrowserNext]_browserVars
    PROVE  CountInv'
<1>1. ASSUME NEW s \in Slots, GetBrowser(s) \/ Closed(s) \/ JobEnds(s)
      PROVE  CountInv'
  BY <1>1, CountKept DEF GetBrowser, Closed, JobEnds
<1>2. ASSUME NEW b \in Browsers, Disconnected(b)
      PROVE  CountInv'
  BY <1>2, CountKept DEF Disconnected
<1>3. ASSUME NEW s \in Slots, ReuseBrowser(s)
      PROVE  CountInv'
  <2>1. /\ browser \in open /\ open' = open /\ browser' = browser
        /\ jobsOnBrowser' = jobsOnBrowser + 1
        /\ served' = [served EXCEPT ![browser] = @ + 1]
        /\ Mode = "local" => jobsOnBrowser < RefreshEvery
    BY <1>3, RefreshAssumption DEF ReuseBrowser, NeedsNewBrowser, BrowserTypeOK
  <2>2. served \in [Browsers -> Nat] /\ browser \in Browsers /\ open \subseteq Browsers
        /\ jobsOnBrowser \in Nat /\ RefreshEvery \in Nat
    BY <2>1, RefreshAssumption DEF BrowserTypeOK
  <2>3. served[browser] = jobsOnBrowser
    BY <2>1 DEF CountInv
  <2>4. served'[browser'] = jobsOnBrowser'
    BY <2>1, <2>2, <2>3
  <2>5. ASSUME Mode = "local", NEW b \in open
        PROVE  served'[b] <= RefreshEvery
    <3>1. CASE b = browser
      BY <2>1, <2>2, <2>4, <2>5, <3>1
    <3>2. CASE b # browser
      BY <2>1, <2>2, <2>5, <3>2 DEF CountInv, RefreshBound
    <3> QED
      BY <3>1, <3>2
  <2> QED
    BY <2>1, <2>4, <2>5 DEF CountInv, RefreshBound
<1>4. ASSUME NEW s \in Slots, Launched(s)
      PROVE  CountInv'
  <2>1. PICK b \in Browsers : /\ browser' = b /\ open' = open \cup {b}
                              /\ served' = [served EXCEPT ![b] = 1]
    BY <1>4 DEF Launched
  <2>2. /\ jobsOnBrowser' = 1 /\ served \in [Browsers -> Nat] /\ open \subseteq Browsers
        /\ RefreshEvery \in Nat /\ RefreshEvery >= 1
    BY <1>4, RefreshAssumption DEF Launched, BrowserTypeOK
  <2>3. served'[browser'] = jobsOnBrowser'
    BY <2>1, <2>2
  <2>4. ASSUME Mode = "local", NEW c \in open'
        PROVE  served'[c] <= RefreshEvery
    <3>1. CASE c = b
      BY <2>1, <2>2, <3>1
    <3>2. CASE c # b
      BY <2>1, <2>2, <2>4, <3>2 DEF CountInv, RefreshBound
    <3> QED
      BY <3>1, <3>2
  <2> QED
    BY <2>3, <2>4 DEF CountInv, RefreshBound
<1>5. CASE UNCHANGED browserVars
  BY <1>5 DEF CountInv, RefreshBound, browserVars
<1> QED
  BY <1>1, <1>2, <1>3, <1>4, <1>5 DEF BrowserNext

-----------------------------------------------------------------------------
LEMMA ReplaceStep ==
    ASSUME BrowserTypeOK, ReplaceInv, [BrowserNext]_browserVars
    PROVE  ReplaceInv'
<1> SUFFICES ASSUME ~overlapped'
             PROVE  ReplaceInv'
  BY DEF ReplaceInv
<1>1. ASSUME NEW s \in Slots, GetBrowser(s)
      PROVE  ReplaceInv'
  <2>1. ~overlapped /\ Replacing = {}
    BY <1>1 DEF GetBrowser
  <2>2. open \subseteq {browser} /\ UNCHANGED <<browser, open>>
    BY <1>1, <2>1 DEF GetBrowser, ReplaceInv
  <2>3. ASSUME NEW t \in Slots, t # s
        PROVE  slot'[t] = slot[t] /\ slot[t] \notin {"closing", "launching"}
    BY <1>1, <2>1, <2>3 DEF GetBrowser, BrowserTypeOK, Replacing
  <2>4. slot'[s] = IF browser = NoBrowser THEN "launching" ELSE "closing"
    BY <1>1 DEF GetBrowser, BrowserTypeOK
  <2>5. uses'[s] = browser
    BY <1>1 DEF GetBrowser, BrowserTypeOK
  <2>6. browser = NoBrowser => open = {}
    BY <2>2, RefreshAssumption DEF BrowserTypeOK
  <2>7. \A t, u \in Replacing' : t = u
    BY <2>3 DEF Replacing
  <2>8. ASSUME NEW t \in Slots
        PROVE  /\ slot'[t] = "closing" => open' \subseteq {uses'[t]}
               /\ slot'[t] = "launching" => open' = {}
    <3>1. CASE t = s
      BY <2>2, <2>4, <2>5, <2>6, <3>1
    <3>2. CASE t # s
      BY <2>3, <3>2
    <3> QED
      BY <3>1, <3>2
  <2> QED
    BY <2>2, <2>7, <2>8 DEF ReplaceInv
<1>2. ASSUME NEW s \in Slots, ReuseBrowser(s)
      PROVE  ReplaceInv'
  <2>1. ~overlapped /\ UNCHANGED <<browser, open>> /\ slot[s] = "idle"
    BY <1>2 DEF ReuseBrowser
  <2>2. ASSUME NEW t \in Slots
        PROVE  \/ slot'[t] = "page"
               \/ slot'[t] = slot[t] /\ uses'[t] = uses[t]
    BY <1>2 DEF ReuseBrowser, BrowserTypeOK
  <2> QED
    BY <2>1, <2>2 DEF ReplaceInv, Replacing
<1>3. ASSUME NEW s \in Slots, Closed(s)
      PROVE  ReplaceInv'
  <2>1. ~overlapped /\ open' = open /\ slot[s] = "closing" /\ s \in Replacing
    BY <1>3 DEF Closed, Replacing
  <2>2. open = {}
    BY <1>3, <2>1 DEF Closed, ReplaceInv
  <2>3. Replacing' = Replacing
    BY <1>3, <2>1 DEF Closed, Replacing, BrowserTypeOK
  <2> QED
    BY <2>1, <2>2, <2>3 DEF ReplaceInv
<1>4. ASSUME NEW s \in Slots, Launched(s)
      PROVE  ReplaceInv'
  <2>1. ~overlapped /\ slot[s] = "launching" /\ slot' = [slot EXCEPT ![s] = "page"]
    BY <1>4 DEF Launched
  <2>2. open = {} /\ \A t \in Replacing : t = s
    BY <2>1 DEF ReplaceInv, Replacing
  <2>3. open' = {browser'}
    BY <1>4, <2>2 DEF Launched
  <2>4. ASSUME NEW t \in Slots
        PROVE  slot'[t] \notin {"closing", "launching"}
    BY <2>1, <2>2 DEF Replacing, BrowserTypeOK
  <2> QED
    BY <2>3, <2>4 DEF ReplaceInv, Replacing
<1>5. ASSUME NEW s \in Slots, JobEnds(s)
      PROVE  ReplaceInv'
  <2>1. ~overlapped /\ UNCHANGED <<browser, open>>
    BY <1>5 DEF JobEnds
  <2>2. ASSUME NEW t \in Slots
        PROVE  \/ slot'[t] = "idle"
               \/ slot'[t] = slot[t] /\ uses'[t] = uses[t]
    BY <1>5 DEF JobEnds, BrowserTypeOK
  <2> QED
    BY <2>1, <2>2 DEF ReplaceInv, Replacing
<1>6. ASSUME NEW b \in Browsers, Disconnected(b)
      PROVE  ReplaceInv'
  <2>1. ~overlapped /\ UNCHANGED <<slot, uses>> /\ b \in open /\ open' = open \ {b}
    BY <1>6 DEF Disconnected
  <2>2. open' = {}
    BY <2>1 DEF ReplaceInv
  <2> QED
    BY <2>1, <2>2 DEF ReplaceInv, Replacing
<1>7. CASE UNCHANGED browserVars
  BY <1>7 DEF ReplaceInv, Replacing, browserVars
<1> QED
  BY <1>1, <1>2, <1>3, <1>4, <1>5, <1>6, <1>7 DEF BrowserNext

-----------------------------------------------------------------------------
LEMMA BrowserInvInit ==
    ASSUME BrowserInit
    PROVE  BrowserInv
<1>1. BrowserTypeOK
  <2>1. overlapped \in BOOLEAN
    BY Zenon DEF BrowserInit
  <2> QED
    BY <2>1, RefreshAssumption DEF BrowserInit, BrowserTypeOK
<1>2. CountInv
  BY DEF BrowserInit, CountInv, RefreshBound
<1>3. ReplaceInv
  BY DEF BrowserInit, ReplaceInv, Replacing
<1> QED
  BY <1>1, <1>2, <1>3 DEF BrowserInv

LEMMA BrowserInvariant == BrowserSpec => []BrowserInv
<1>1. BrowserInv /\ [BrowserNext]_browserVars => BrowserInv'
  BY BrowserTypeStep, CountStep, ReplaceStep DEF BrowserInv
<1> QED
  BY <1>1, BrowserInvInit, PTL DEF BrowserSpec

\* Every variable of the browser has its type, in both modes.
THEOREM BrowserTypeCorrect == BrowserSpec => []BrowserTypeOK
<1>1. BrowserInv => BrowserTypeOK
  BY DEF BrowserInv
<1> QED
  BY <1>1, BrowserInvariant, PTL

\* No local browser renders more than CONTEXT_REFRESH_EVERY jobs.
THEOREM RefreshedInTime == BrowserSpec => []RefreshBound
<1>1. BrowserInv => RefreshBound
  BY DEF BrowserInv, CountInv
<1> QED
  BY <1>1, BrowserInvariant, PTL

\* One Chromium, as long as no two jobs have replaced it at the same time.
THEOREM OneChromium == BrowserSpec => []OneBrowser
<1>1. BrowserInv => OneBrowser
  <2> SUFFICES ASSUME BrowserInv, ~overlapped
               PROVE  Cardinality(open) <= 1
    BY DEF OneBrowser
  <2>1. open = {} \/ open = {browser}
    BY DEF BrowserInv, ReplaceInv
  <2>2. Cardinality({}) = 0 /\ Cardinality({browser}) = 1
    BY FS_EmptySet, FS_Singleton
  <2> QED
    BY <2>1, <2>2
<1> QED
  BY <1>1, BrowserInvariant, PTL

----------------------------------------------------------------------------
(* Paid solves are spaced, for any numbers of jobs and solves and any times:*)
(* what is left of the pending key and the time since the last solve make up*)
(* the key's TTL but for the lateness, and one job at a time that is not   *)
(* late holds the claim.                                                   *)

SolveState == [at : {"none", "queued", "polling"}, left : Int, made : Nat]
Stages == Working \cup {"delayed", "done", "dead"}

OnTime(j) == stage[j] = "enqueue" /\ wait[j] >= -MaxLate

ClaimInv ==
    /\ stage \in [Jobs -> Stages] /\ wait \in [Jobs -> Int]
    /\ \A j \in Jobs : stage[j] \in Working => wait[j] <= 0
    /\ pending \in 0..PendingTtl /\ sinceSolve \in 0..PendingTtl
    /\ pending + sinceSolve + MaxLate >= PendingTtl
    /\ \A j \in Jobs : OnTime(j) => /\ pending >= PendingTtl + wait[j]
                                    /\ sinceSolve >= PendingTtl - MaxLate
    /\ \A j, k \in Jobs : OnTime(j) /\ OnTime(k) => j = k \/ MaxLate >= PendingTtl

\* The steps of a job but the claim and the enqueue: nobody comes to hold the claim.
LEMMA NotClaimed ==
    ASSUME ClaimInv, NEW j \in Jobs, NEW at \in Stages \ {"enqueue"}, NEW time \in Int,
           at \in Working => time <= 0,
           stage' = [stage EXCEPT ![j] = at], wait' = [wait EXCEPT ![j] = time],
           UNCHANGED <<pending, sinceSolve>>
    PROVE  ClaimInv'
<1>1. stage' \in [Jobs -> Stages] /\ wait' \in [Jobs -> Int]
  BY DEF ClaimInv
<1>2. \A k \in Jobs : stage'[k] \in Working => wait'[k] <= 0
  BY DEF ClaimInv
<1>3. \A k \in Jobs : OnTime(k)' => OnTime(k) /\ wait'[k] = wait[k]
  BY DEF ClaimInv, OnTime
<1> QED
  BY <1>1, <1>2, <1>3 DEF ClaimInv

LEMMA GoesOn ==
    ASSUME ClaimInv, NEW j \in Jobs, NEW at \in Stages \ {"enqueue"}, Goes(j, at),
           stage[j] \in Working \/ at \notin Working \/ wait[j] <= 0,
           UNCHANGED <<pending, sinceSolve>>
    PROVE  ClaimInv'
<1> DEFINE time == IF at \in Ended THEN 0 ELSE wait[j]
<1>1. time \in Int /\ (at \in Working => time <= 0)
  BY DEF ClaimInv
<1>2. stage' = [stage EXCEPT ![j] = at] /\ wait' = [wait EXCEPT ![j] = time]
  BY DEF Goes, ClaimInv
<1> QED
  BY <1>1, <1>2, NotClaimed

LEMMA IsDelayed ==
    ASSUME ClaimInv, NEW j \in Jobs, NEW time \in Int, DelayJob(j, time),
           UNCHANGED <<pending, sinceSolve>>
    PROVE  ClaimInv'
<1>1. "delayed" \in Stages \ {"enqueue"} /\ "delayed" \notin Working
  BY DEF Stages, Working
<1> QED
  BY <1>1, NotClaimed DEF DelayJob

LEMMA ClaimStepOf ==
    ASSUME ClaimInv, NEW j \in Jobs, Claim(j)
    PROVE  ClaimInv'
<1> USE CaptchaTimes
<1>1. CASE pending > 0
  <2>1. Goes(j, "offload") /\ UNCHANGED <<pending, sinceSolve>> /\ stage[j] \in Working
    BY <1>1 DEF Claim, solveVars, Working
  <2>2. "offload" \in Stages \ {"enqueue"}
    BY DEF Stages, Working
  <2> QED
    BY <2>1, <2>2, GoesOn
<1>2. CASE pending = 0
  <2>1. /\ pending' = PendingTtl /\ sinceSolve' = sinceSolve /\ wait' = wait
        /\ stage' = [stage EXCEPT ![j] = "enqueue"]
    BY <1>2 DEF Claim, Goes, Ended, solveVars
  <2>2. /\ MaxLate \in Nat /\ PendingTtl \in Nat /\ sinceSolve \in 0..PendingTtl
        /\ sinceSolve >= PendingTtl - MaxLate
    BY <1>2 DEF ClaimInv
  <2>3. stage[j] \in Working /\ wait[j] \in Int /\ wait[j] <= 0
    BY DEF Claim, Working, ClaimInv
  <2>4. /\ stage' \in [Jobs -> Stages] /\ wait' \in [Jobs -> Int]
        /\ \A k \in Jobs : stage'[k] \in Working => wait'[k] <= 0
    BY <2>1, <2>3 DEF ClaimInv, Stages, Working
  <2>5. ASSUME NEW k \in Jobs, k # j, OnTime(k)'
        PROVE  OnTime(k) /\ MaxLate >= PendingTtl
    <3>1. OnTime(k) /\ wait[k] \in Int /\ wait[k] >= -MaxLate
      BY <2>1, <2>5 DEF OnTime, ClaimInv
    <3>2. 0 >= PendingTtl + wait[k]
      BY <1>2, <3>1 DEF ClaimInv
    <3> QED
      BY <2>2, <3>1, <3>2
  <2>6. ASSUME NEW k \in Jobs, OnTime(k)'
        PROVE  pending' >= PendingTtl + wait'[k] /\ sinceSolve' >= PendingTtl - MaxLate
    <3>1. wait[k] \in Int /\ wait[k] <= 0
      BY <2>1, <2>3, <2>6 DEF ClaimInv, OnTime, Working
    <3> QED
      BY <2>1, <2>2, <3>1
  <2>7. \A k, l \in Jobs : OnTime(k)' /\ OnTime(l)' => k = l \/ MaxLate' >= PendingTtl'
    BY <2>5
  <2>8. pending' \in 0..PendingTtl /\ pending' + sinceSolve' + MaxLate >= PendingTtl
    BY <2>1, <2>2
  <2> QED
    BY <2>1, <2>2, <2>4, <2>6, <2>7, <2>8 DEF ClaimInv
<1> QED
  BY <1>1, <1>2 DEF Claim

LEMMA EnqueueStepOf ==
    ASSUME ClaimInv, NEW j \in Jobs, Enqueue(j)
    PROVE  ClaimInv'
<1> USE CaptchaTimes
<1>1. /\ stage[j] = "enqueue" /\ stage' = [stage EXCEPT ![j] = "offload"]
      /\ wait' = wait /\ pending' = pending
      /\ sinceSolve' = IF Late(j) THEN sinceSolve ELSE 0
  BY DEF Enqueue, Goes, Ended
<1>2. /\ MaxLate \in Nat /\ PendingTtl \in Nat /\ pending \in 0..PendingTtl
      /\ sinceSolve \in 0..PendingTtl /\ pending + sinceSolve + MaxLate >= PendingTtl
      /\ wait[j] \in Int
  BY DEF ClaimInv
<1>3. /\ stage' \in [Jobs -> Stages] /\ wait' \in [Jobs -> Int]
      /\ \A k \in Jobs : stage'[k] \in Working => wait'[k] <= 0
  BY <1>1 DEF ClaimInv, Stages, Working
<1>4. \A k \in Jobs : OnTime(k)' => OnTime(k) /\ k # j
  BY <1>1 DEF OnTime, ClaimInv
<1>5. CASE Late(j)
  BY <1>1, <1>2, <1>3, <1>4, <1>5 DEF ClaimInv
<1>6. CASE ~Late(j)
  <2>1. OnTime(j) /\ wait[j] >= -MaxLate
    BY <1>1, <1>2, <1>6 DEF Late, OnTime, Ended
  <2>2. pending >= PendingTtl + wait[j]
    BY <2>1 DEF ClaimInv
  <2>3. sinceSolve' = 0 /\ pending' + sinceSolve' + MaxLate >= PendingTtl
    BY <1>1, <1>2, <1>6, <2>1, <2>2
  <2>4. ASSUME NEW k \in Jobs, OnTime(k)'
        PROVE  /\ pending' >= PendingTtl + wait'[k] /\ sinceSolve' >= PendingTtl - MaxLate
               /\ MaxLate >= PendingTtl
    <3>1. OnTime(k) /\ k # j
      BY <1>4, <2>4
    <3>2. MaxLate >= PendingTtl /\ pending >= PendingTtl + wait[k]
      BY <2>1, <3>1 DEF ClaimInv
    <3> QED
      BY <1>1, <1>2, <2>3, <3>2
  <2> QED
    BY <1>1, <1>2, <1>3, <2>3, <2>4 DEF ClaimInv
<1> QED
  BY <1>5, <1>6

LEMMA CaptchaTickOf ==
    ASSUME ClaimInv, CaptchaTick
    PROVE  ClaimInv'
<1> USE CaptchaTimes
<1>1. /\ pending \in 0..PendingTtl /\ sinceSolve \in 0..PendingTtl /\ PendingTtl \in Nat
      /\ MaxLate \in Nat /\ pending + sinceSolve + MaxLate >= PendingTtl
  BY DEF ClaimInv
<1>2. /\ stage' = stage /\ pending' = IF pending > 0 THEN pending - 1 ELSE 0
      /\ sinceSolve' = IF sinceSolve < PendingTtl THEN sinceSolve + 1 ELSE sinceSolve
      /\ wait' = [j \in Jobs |-> IF stage[j] \in Ended THEN wait[j] ELSE wait[j] - 1]
  BY DEF CaptchaTick, Down
<1>3. /\ pending' \in 0..PendingTtl /\ sinceSolve' \in 0..PendingTtl /\ sinceSolve' >= sinceSolve
      /\ pending' + sinceSolve' + MaxLate >= PendingTtl
  BY <1>1, <1>2
<1>4. /\ wait' \in [Jobs -> Int]
      /\ \A j \in Jobs : stage'[j] \in Working => wait'[j] <= 0
  BY <1>2 DEF ClaimInv
<1>5. ASSUME NEW j \in Jobs, OnTime(j)'
      PROVE  /\ OnTime(j) /\ pending' >= PendingTtl + wait'[j]
             /\ sinceSolve' >= PendingTtl - MaxLate
  <2>1. stage[j] = "enqueue" /\ wait'[j] = wait[j] - 1 /\ wait[j] \in Int /\ wait'[j] >= -MaxLate
    BY <1>2, <1>5 DEF OnTime, Ended, ClaimInv
  <2>2. OnTime(j)
    BY <1>1, <2>1 DEF OnTime
  <2>3. pending >= PendingTtl + wait[j] /\ sinceSolve >= PendingTtl - MaxLate
    BY <2>2 DEF ClaimInv
  <2>4. wait[j] <= 0
    BY <2>1 DEF ClaimInv, Working
  <2> QED
    BY <1>1, <1>2, <1>3, <2>1, <2>2, <2>3, <2>4
<1> QED
  BY <1>2, <1>3, <1>4, <1>5 DEF ClaimInv

LEMMA JobStepsOf ==
    ASSUME ClaimInv, NEW j \in Jobs,
           Render(j) \/ ReadToken(j) \/ Offload(j) \/ JobThrows(j) \/ CaptchaCrash(j),
           attempts \in [Jobs -> Nat]
    PROVE  ClaimInv'
<1> USE DEF solveVars
<1>1. CASE Render(j)
  <2>1. PICK at \in {"done", "read"} : Goes(j, at)
    BY <1>1 DEF Render
  <2>2. at \in Stages \ {"enqueue"}
    BY <2>1 DEF Stages, Working
  <2> QED
    BY <1>1, <2>1, <2>2, GoesOn DEF Render
<1>2. CASE ReadToken(j)
  <2>1. PICK at \in {"done", "claim"} : Goes(j, at)
    BY <1>2 DEF ReadToken
  <2>2. at \in Stages \ {"enqueue"} /\ stage[j] \in Working
    BY <1>2, <2>1 DEF Stages, Working, ReadToken
  <2> QED
    BY <1>2, <2>1, <2>2, GoesOn DEF ReadToken
<1>3. CASE Offload(j)
  BY <1>3, IsDelayed, CaptchaTimes DEF Offload
<1>4. CASE JobThrows(j)
  <2>1. CASE Goes(j, "dead")
    <3>1. "dead" \in Stages \ {"enqueue"} /\ "dead" \notin Working
      BY DEF Stages, Working
    <3> QED
      BY <1>4, <2>1, <3>1, GoesOn DEF JobThrows
  <2>2. CASE attempts'[j] < JobAttempts /\ DelayJob(j, Backoff[attempts'[j]])
    <3>1. attempts'[j] \in Nat \ {0}
      BY <1>4 DEF JobThrows
    <3>2. Backoff[attempts'[j]] \in Int
      BY <2>2, <3>1, CaptchaTimes
    <3> QED
      BY <1>4, <2>2, <3>2, IsDelayed DEF JobThrows
  <2> QED
    BY <1>4, <2>1, <2>2 DEF JobThrows
<1>5. CASE CaptchaCrash(j)
  BY <1>5, IsDelayed, CaptchaTimes DEF CaptchaCrash
<1> QED
  BY <1>1, <1>2, <1>3, <1>4, <1>5

----------------------------------------------------------------------------
\* The types of what ClaimInv does not speak of.
OtherTypes ==
    /\ attempts \in [Jobs -> Nat] /\ faults \in 0..MaxFaults
    /\ token \in [left : 0..TokenTtl, valid : 0..Validity, used : BOOLEAN]
    /\ solve \in [Solves -> SolveState]
    /\ \A s \in Solves : solve[s].at = "polling" => solve[s].made > 0

LEMMA ClaimStep ==
    ASSUME ClaimInv, OtherTypes, [CaptchaNext]_captchaVars
    PROVE  ClaimInv'
<1>1. CASE CaptchaTick
  BY <1>1, CaptchaTickOf
<1>2. ASSUME NEW j \in Jobs,
             Render(j) \/ ReadToken(j) \/ Offload(j) \/ JobThrows(j) \/ CaptchaCrash(j)
      PROVE  ClaimInv'
  BY <1>2, JobStepsOf DEF OtherTypes
<1>3. ASSUME NEW j \in Jobs, Claim(j) \/ Enqueue(j)
      PROVE  ClaimInv'
  BY <1>3, ClaimStepOf, EnqueueStepOf
<1>4. ASSUME NEW s \in Solves, StartSolve(s) \/ Solved(s) \/ SolveFailed(s)
      PROVE  ClaimInv'
  <2>1. UNCHANGED <<stage, wait, pending, sinceSolve>>
    BY <1>4 DEF StartSolve, Solved, SolveFailed, jobVars
  <2> QED
    BY <2>1 DEF ClaimInv, OnTime
<1>5. CASE UNCHANGED captchaVars
  BY <1>5 DEF captchaVars, jobVars, solveVars, ClaimInv, OnTime
<1> QED
  BY <1>1, <1>2, <1>3, <1>4, <1>5 DEF CaptchaNext

LEMMA FaultTypes ==
    ASSUME OtherTypes, Fault
    PROVE  faults' \in 0..MaxFaults
BY CaptchaTimes DEF OtherTypes, Fault

LEMMA SolvingTypes ==
    ASSUME OtherTypes, NEW s \in Solves, NEW r \in SolveState, r.at = "polling" => r.made > 0,
           Solving(s, r)
    PROVE  /\ solve' \in [Solves -> SolveState]
           /\ \A t \in Solves : solve'[t].at = "polling" => solve'[t].made > 0
<1>1. solve' \in [Solves -> SolveState] /\ solve' = [solve EXCEPT ![s] = r]
  BY DEF OtherTypes, Solving
<1>2. \A t \in Solves : solve'[t] = IF t = s THEN r ELSE solve[t]
  BY <1>1 DEF OtherTypes
<1> QED
  BY <1>1, <1>2 DEF OtherTypes

LEMMA TokenTypes ==
    /\ NoToken \in [left : 0..TokenTtl, valid : 0..Validity, used : BOOLEAN]
    /\ [left |-> TokenTtl, valid |-> Validity, used |-> FALSE]
         \in [left : 0..TokenTtl, valid : 0..Validity, used : BOOLEAN]
BY CaptchaTimes DEF NoToken

LEMMA TickTypes ==
    ASSUME OtherTypes, CaptchaTick
    PROVE  OtherTypes'
<1>1. token' \in [left : 0..TokenTtl, valid : 0..Validity, used : BOOLEAN]
  <2>1. CASE token.left > 1
    <3>1. /\ token.left - 1 \in 0..TokenTtl /\ Down(token.valid) \in 0..Validity
          /\ token.used \in BOOLEAN
      BY <2>1, CaptchaTimes DEF OtherTypes, Down
    <3>2. token' = [token EXCEPT !.left = token.left - 1, !.valid = Down(token.valid)]
      BY <2>1 DEF CaptchaTick
    <3> QED
      BY <3>1, <3>2 DEF OtherTypes
  <2>2. CASE ~(token.left > 1)
    BY <2>2, TokenTypes DEF CaptchaTick
  <2> QED
    BY <2>1, <2>2
<1>2. ASSUME NEW s \in Solves
      PROVE  /\ [solve[s] EXCEPT !.left = solve[s].left - 1] \in SolveState
             /\ [solve[s] EXCEPT !.left = solve[s].left - 1].at = solve[s].at
             /\ [solve[s] EXCEPT !.left = solve[s].left - 1].made = solve[s].made
  <2>1. solve[s] \in SolveState
    BY DEF OtherTypes
  <2> QED
    BY <2>1 DEF SolveState
<1>3. NoSolve \in SolveState /\ NoSolve.at = "none"
  BY DEF NoSolve, SolveState
<1>4. solve' = [s \in Solves |-> IF solve[s].at = "none" THEN NoSolve
                                 ELSE [solve[s] EXCEPT !.left = solve[s].left - 1]]
  BY DEF CaptchaTick
<1>5. /\ solve' \in [Solves -> SolveState]
      /\ \A s \in Solves : solve'[s].at = "polling" => solve'[s].made > 0
  BY <1>2, <1>3, <1>4 DEF OtherTypes
<1>6. attempts' = attempts /\ (Fault \/ faults' = faults)
  BY DEF CaptchaTick
<1> QED
  BY <1>1, <1>5, <1>6, FaultTypes DEF OtherTypes

LEMMA JobTypes ==
    ASSUME OtherTypes, NEW j \in Jobs,
           \/ Render(j) \/ ReadToken(j) \/ Claim(j) \/ Enqueue(j) \/ Offload(j)
           \/ JobThrows(j) \/ CaptchaCrash(j)
    PROVE  OtherTypes'
<1> USE DEF solveVars
<1>1. CASE Render(j) \/ Claim(j) \/ Offload(j)
  BY <1>1 DEF Render, Claim, Offload, OtherTypes
<1>2. CASE ReadToken(j)
  <2>1. token' = token \/ token' = [token EXCEPT !.used = TRUE]
    BY <1>2 DEF ReadToken
  <2>2. token' \in [left : 0..TokenTtl, valid : 0..Validity, used : BOOLEAN]
    BY <2>1 DEF OtherTypes
  <2> QED
    BY <1>2, <2>2 DEF ReadToken, OtherTypes
<1>3. CASE Enqueue(j)
  <2>1. [at |-> "queued", left |-> 0, made |-> 0] \in SolveState
    BY DEF SolveState
  <2>2. PICK s \in Solves : Solving(s, [at |-> "queued", left |-> 0, made |-> 0])
    BY <1>3 DEF Enqueue
  <2>3. /\ solve' \in [Solves -> SolveState]
        /\ \A t \in Solves : solve'[t].at = "polling" => solve'[t].made > 0
    BY <2>1, <2>2, SolvingTypes
  <2>4. UNCHANGED <<attempts, token, faults>>
    BY <1>3 DEF Enqueue
  <2> QED
    BY <2>3, <2>4 DEF OtherTypes
<1>4. CASE JobThrows(j)
  <2>1. attempts' \in [Jobs -> Nat] /\ faults' \in 0..MaxFaults
    BY <1>4, FaultTypes DEF JobThrows, OtherTypes
  <2> QED
    BY <1>4, <2>1 DEF JobThrows, OtherTypes
<1>5. CASE CaptchaCrash(j)
  <2>1. faults' \in 0..MaxFaults
    BY <1>5, FaultTypes DEF CaptchaCrash
  <2> QED
    BY <1>5, <2>1 DEF CaptchaCrash, OtherTypes
<1> QED
  BY <1>1, <1>2, <1>3, <1>4, <1>5

LEMMA SolveTypes ==
    ASSUME OtherTypes, NEW s \in Solves, StartSolve(s) \/ Solved(s) \/ SolveFailed(s)
    PROVE  OtherTypes'
<1> USE DEF jobVars
<1>1. solve[s] \in SolveState /\ solve[s].made \in Nat
  BY DEF OtherTypes, SolveState
<1>2. NoSolve \in SolveState /\ NoSolve.at = "none"
  BY DEF NoSolve, SolveState
<1>3. CASE StartSolve(s)
  <2>1. [at |-> "polling", left |-> PollTime, made |-> solve[s].made + 1] \in SolveState
    BY <1>1, CaptchaTimes DEF SolveState
  <2>2. /\ solve' \in [Solves -> SolveState]
        /\ \A t \in Solves : solve'[t].at = "polling" => solve'[t].made > 0
    BY <1>1, <1>3, <2>1, SolvingTypes DEF StartSolve
  <2> QED
    BY <1>3, <2>2 DEF StartSolve, OtherTypes
<1>4. CASE Solved(s)
  <2>1. /\ solve' \in [Solves -> SolveState]
        /\ \A t \in Solves : solve'[t].at = "polling" => solve'[t].made > 0
    BY <1>2, <1>4, SolvingTypes DEF Solved
  <2> QED
    BY <1>4, <2>1, TokenTypes DEF Solved, OtherTypes
<1>5. CASE SolveFailed(s)
  <2>1. CASE Solving(s, NoSolve)
    BY <1>2, <2>1, <1>5, SolvingTypes, FaultTypes DEF SolveFailed, OtherTypes
  <2>2. CASE /\ solve[s].made < SolveAttempts
             /\ Solving(s, [at |-> "queued", left |-> Backoff[solve[s].made], made |-> solve[s].made])
    <3>1. Backoff[solve[s].made] \in Nat
      BY <1>1, <1>5, <2>2, CaptchaTimes DEF SolveFailed, OtherTypes
    <3>2. [at |-> "queued", left |-> Backoff[solve[s].made], made |-> solve[s].made] \in SolveState
      BY <1>1, <3>1 DEF SolveState
    <3>3. /\ solve' \in [Solves -> SolveState]
          /\ \A t \in Solves : solve'[t].at = "polling" => solve'[t].made > 0
      BY <2>2, <3>2, SolvingTypes
    <3> QED
      BY <1>5, <3>3, FaultTypes DEF SolveFailed, OtherTypes
  <2> QED
    BY <1>5, <2>1, <2>2 DEF SolveFailed
<1> QED
  BY <1>3, <1>4, <1>5

LEMMA OtherTypesStep ==
    ASSUME OtherTypes, [CaptchaNext]_captchaVars
    PROVE  OtherTypes'
<1>1. CASE UNCHANGED captchaVars
  BY <1>1 DEF captchaVars, jobVars, solveVars, OtherTypes
<1> QED
  BY <1>1, TickTypes, JobTypes, SolveTypes DEF CaptchaNext

LEMMA CaptchaInvariant == CaptchaSpec => [](ClaimInv /\ OtherTypes)
<1>1. CaptchaInit => ClaimInv
  BY CaptchaTimes DEF CaptchaInit, ClaimInv, OnTime, Stages, Working
<1>2. CaptchaInit => OtherTypes
  <2>1. NoSolve \in SolveState /\ NoSolve.at = "none"
    BY DEF NoSolve, SolveState
  <2> QED
    BY <2>1, TokenTypes, CaptchaTimes DEF CaptchaInit, OtherTypes
<1>3. ClaimInv /\ OtherTypes /\ [CaptchaNext]_captchaVars => ClaimInv' /\ OtherTypes'
  BY ClaimStep, OtherTypesStep
<1> QED
  BY <1>1, <1>2, <1>3, PTL DEF CaptchaSpec

\* Two paid solves of a page are enqueued the pending TTL apart, but for the lateness
\* that is allowed to the jobs that ask for them.
THEOREM PaidSolvesSpaced == CaptchaSpec => PaidSpaced
<1>1. ASSUME ClaimInv, NEW j \in Jobs, stage[j] = "enqueue", ~Late(j)
      PROVE  sinceSolve >= PendingTtl - MaxLate
  <2>1. wait[j] \in Int /\ MaxLate \in Nat
    BY <1>1, CaptchaTimes DEF ClaimInv
  <2>2. OnTime(j)
    BY <1>1, <2>1 DEF OnTime, Late, Ended
  <2> QED
    BY <1>1, <2>2 DEF ClaimInv
<1>2. ClaimInv => \A j \in Jobs : stage[j] = "enqueue" /\ stage'[j] = "offload" /\ ~Late(j)
                                    => sinceSolve >= PendingTtl - MaxLate
  BY <1>1
<1> QED
  BY <1>2, CaptchaInvariant, PTL DEF PaidSpaced

\* What is left of keys and tokens never leaves the bounds that the code sets them to.
THEOREM CaptchaTypeCorrect == CaptchaSpec => []CaptchaTypeOK
<1>1. ClaimInv /\ OtherTypes => CaptchaTypeOK
  BY DEF ClaimInv, OtherTypes, CaptchaTypeOK, SolveState, Stages
<1> QED
  BY <1>1, CaptchaInvariant, PTL
=============================================================================
