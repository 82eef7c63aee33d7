------------------------------ MODULE Captcha ------------------------------
(* A CAPTCHA on one page: the playwright jobs that meet it hand the solve to a *)
(* queue, give up their browser and come back for the token                    *)
(* (scraper/workers/playwright.ts, handleCaptcha; captcha.ts;                  *)
(* captcha-solver.ts). Keys and delays are modelled by the time they have      *)
(* left, which every tick lowers. Time passes at every await: between two      *)
(* commands of a job, before a due job is picked up, before a solve is.        *)
EXTENDS Integers, FiniteSets

CONSTANTS
    Jobs,            \* playwright jobs of this page
    Solves,          \* bound: solve jobs at once
    RetryDelay,      \* CAPTCHA_RETRY_DELAY_MS
    PendingTtl,      \* CAPTCHA_PENDING_TTL_SECONDS
    TokenTtl,        \* CAPTCHA_TOKEN_TTL_SECONDS
    Validity,        \* time the site honours a token, from its issue
    PollTime,        \* longest poll of 2captcha
    LockDuration,    \* of WORKER_RELIABILITY: a job of a dead worker is run again after it
    Backoff,         \* the retry ladder: Backoff[n] follows the n-th failure
    JobAttempts,     \* attempts of a playwright job
    SolveAttempts,   \* attempts of a solve job
    MaxLate,         \* who is overdue for longer is late
    MaxFaults        \* bound: solves that fail, jobs that throw, workers that die, ticks
                     \*        at which a job or a solve is late

ASSUME CaptchaTimes ==
    /\ {RetryDelay, PendingTtl, TokenTtl, Validity, PollTime, LockDuration, JobAttempts,
        SolveAttempts, MaxLate, MaxFaults} \subseteq Nat
    /\ PendingTtl > 0 /\ \A n \in 1..JobAttempts \cup 1..SolveAttempts : Backoff[n] \in Nat

VARIABLES
    stage,           \* stage[j]: "delayed", "read", "claim", "enqueue", "offload", "done", "dead"
    wait,            \* wait[j]: time until the job is due, negative once it is
    attempts,        \* attempts[j]: failures of the job
    pending,         \* captcha:pending: time left, 0 when absent
    token,           \* captcha:token: time left in Redis, time left at the site, used before
    solve,           \* solve[s]: state, time left in it (of "queued" as wait), attempts made
    sinceSolve,      \* history: time since a job that was not late enqueued a solve, up to PendingTtl
    faults           \* how many of the bound have been

jobVars == <<stage, wait, attempts>>
solveVars == <<solve, sinceSolve>>
captchaVars == <<jobVars, pending, token, solveVars, faults>>

NoToken == [left |-> 0, valid |-> 0, used |-> FALSE]
NoSolve == [at |-> "none", left |-> 0, made |-> 0]
Down(n) == IF n > 0 THEN n - 1 ELSE 0

Working == {"read", "claim", "enqueue", "offload"}
Ended == {"done", "dead"}

(* A due job has not been picked up and offloaded again, if it must be, within *)
(* MaxLate; a queued solve has not been taken up.                              *)
Late(j) == stage[j] \notin Ended /\ wait[j] < -MaxLate
Unsolved(s) == solve[s].at = "queued" /\ solve[s].left < -MaxLate

----------------------------------------------------------------------------
CaptchaInit ==
    /\ stage = [j \in Jobs |-> "delayed"] /\ wait = [j \in Jobs |-> 0]
    /\ attempts = [j \in Jobs |-> 0]
    /\ pending = 0 /\ token = NoToken
    /\ solve = [s \in Solves |-> NoSolve] /\ sinceSolve = PendingTtl
    /\ faults = 0

Fault == faults < MaxFaults /\ faults' = faults + 1
Goes(j, next) ==
    /\ stage' = [stage EXCEPT ![j] = next]
    /\ wait' = IF next \in Ended THEN [wait EXCEPT ![j] = 0] ELSE wait
Solving(s, state) == solve' = [solve EXCEPT ![s] = state]

(* The page is rendered. It shows no challenge, or one that has no token       *)
(* solve: the job goes on to the parse; or it shows one.                       *)
Render(j) ==
    /\ stage[j] = "delayed" /\ wait[j] <= 0
    /\ Goes(j, "done") \/ Goes(j, "read")
    /\ UNCHANGED <<attempts, pending, token, solveVars, faults>>

(* readCachedToken, injectCaptchaToken and the second detectCaptcha. The site  *)
(* takes a token that is valid and new; it may refuse one used before.         *)
ReadToken(j) ==
    /\ stage[j] = "read"
    /\ \/ /\ token.left > 0 /\ token.valid > 0
          /\ Goes(j, "done")
          /\ token' = [token EXCEPT !.used = TRUE]
       \/ /\ token.left = 0 \/ token.valid = 0 \/ token.used
          /\ Goes(j, "claim")
          /\ UNCHANGED token
    /\ UNCHANGED <<attempts, pending, solveVars, faults>>

(* Fault: the claim is read and set, and not conditional. *)
ClaimAlways(j) ==
    /\ stage[j] = "claim"
    /\ pending' = PendingTtl /\ Goes(j, "enqueue")
    /\ UNCHANGED <<attempts, token, solveVars, faults>>

(* SET NX EX of the pending key; the loser is delayed at once. *)
Claim(j) ==
    /\ stage[j] = "claim"
    /\ \/ pending = 0 /\ pending' = PendingTtl /\ Goes(j, "enqueue")
       \/ pending > 0 /\ Goes(j, "offload") /\ UNCHANGED pending
    /\ UNCHANGED <<attempts, token, solveVars, faults>>

(* captchaSolveQueue.add. *)
Enqueue(j) ==
    /\ stage[j] = "enqueue" /\ Goes(j, "offload")
    /\ \E s \in Solves : solve[s] = NoSolve
    /\ Solving(CHOOSE s \in Solves : solve[s] = NoSolve, [at |-> "queued", left |-> 0, made |-> 0])
    /\ sinceSolve' = IF Late(j) THEN sinceSolve ELSE 0
    /\ UNCHANGED <<attempts, pending, token, faults>>

DelayJob(j, time) ==
    /\ stage' = [stage EXCEPT ![j] = "delayed"]
    /\ wait' = [wait EXCEPT ![j] = time]

(* moveToDelayed, which costs no attempt. *)
Offload(j) ==
    /\ stage[j] = "offload" /\ DelayJob(j, RetryDelay)
    /\ UNCHANGED <<attempts, pending, token, solveVars, faults>>

(* The navigation or a command throws, the last one with or without effect:    *)
(* the job is retried, or goes to the dead letter.                             *)
JobThrows(j) ==
    /\ stage[j] \in Working \/ (stage[j] = "delayed" /\ wait[j] <= 0)
    /\ Fault
    /\ attempts' = [attempts EXCEPT ![j] = @ + 1]
    /\ \/ attempts'[j] < JobAttempts /\ DelayJob(j, Backoff[attempts'[j]])
       \/ attempts'[j] >= JobAttempts /\ Goes(j, "dead")
    /\ UNCHANGED <<pending, token, solveVars>>

(* The worker dies; the stalled job is run again. *)
CaptchaCrash(j) ==
    /\ stage[j] \in Working /\ Fault /\ DelayJob(j, LockDuration)
    /\ UNCHANGED <<attempts, pending, token, solveVars>>

----------------------------------------------------------------------------
(* captcha-solver: submit to 2captcha. *)
StartSolve(s) ==
    /\ solve[s].at = "queued" /\ solve[s].left <= 0
    /\ Solving(s, [at |-> "polling", left |-> PollTime, made |-> solve[s].made + 1])
    /\ UNCHANGED <<jobVars, pending, token, sinceSolve, faults>>

(* Fault: the token is kept for the rest of the poll. *)
SolvedShortTtl(s) ==
    /\ solve[s].at = "polling" /\ solve[s].left < PollTime
    /\ token' = [left |-> solve[s].left + 1, valid |-> Validity, used |-> FALSE]
    /\ Solving(s, NoSolve)
    /\ UNCHANGED <<jobVars, pending, sinceSolve, faults>>

(* A poll answers: the token is cached; the pending key is left alone. *)
Solved(s) ==
    /\ solve[s].at = "polling" /\ solve[s].left < PollTime
    /\ token' = [left |-> TokenTtl, valid |-> Validity, used |-> FALSE]
    /\ Solving(s, NoSolve)
    /\ UNCHANGED <<jobVars, pending, sinceSolve, faults>>

(* An error of 2captcha, or its last poll: retried once, then given up. *)
SolveFailed(s) ==
    /\ solve[s].at = "polling" /\ Fault
    /\ \/ /\ solve[s].made < SolveAttempts
          /\ Solving(s, [at |-> "queued", left |-> Backoff[solve[s].made], made |-> solve[s].made])
       \/ solve[s].made >= SolveAttempts /\ Solving(s, NoSolve)
    /\ UNCHANGED <<jobVars, pending, token, sinceSolve>>

----------------------------------------------------------------------------
(* Time passes at any moment of a job; only the poll of 2captcha ends in time. *)
CaptchaTick ==
    /\ \A s \in Solves : solve[s].at = "polling" => solve[s].left > 0
    /\ wait' = [j \in Jobs |-> IF stage[j] \in Ended THEN wait[j] ELSE wait[j] - 1]
    /\ pending' = Down(pending)
    /\ token' = IF token.left > 1 THEN [token EXCEPT !.left = @ - 1, !.valid = Down(@)] ELSE NoToken
    /\ solve' = [s \in Solves |-> IF solve[s].at = "none" THEN NoSolve ELSE [solve[s] EXCEPT !.left = @ - 1]]
    /\ sinceSolve' = IF sinceSolve < PendingTtl THEN sinceSolve + 1 ELSE sinceSolve
    /\ UNCHANGED <<stage, attempts>>
    /\ IF (\E j \in Jobs : Late(j)') \/ (\E s \in Solves : Unsolved(s)') THEN Fault ELSE UNCHANGED faults

JobStep(j) == Render(j) \/ ReadToken(j) \/ Claim(j) \/ Enqueue(j) \/ Offload(j)
SolveStep(s) == StartSolve(s) \/ Solved(s) \/ SolveFailed(s)
CaptchaStep == (\E j \in Jobs : JobStep(j)) \/ (\E s \in Solves : SolveStep(s))

CaptchaNext ==
    \/ CaptchaTick
    \/ \E j \in Jobs : \/ Render(j) \/ ReadToken(j) \/ Claim(j) \/ Enqueue(j) \/ Offload(j)
                      \/ JobThrows(j) \/ CaptchaCrash(j)
    \/ \E s \in Solves : StartSolve(s) \/ Solved(s) \/ SolveFailed(s)

(* The clock runs, and workers that are not out of service go on: within a     *)
(* tick a job and a solve take few steps, so one fairness for all of them is   *)
(* enough.                                                                     *)
CaptchaSpec ==
    /\ CaptchaInit /\ [][CaptchaNext]_captchaVars
    /\ WF_captchaVars(CaptchaTick) /\ WF_captchaVars(CaptchaStep)

----------------------------------------------------------------------------
CaptchaTypeOK ==
    /\ stage \in [Jobs -> Working \cup {"delayed", "done", "dead"}]
    /\ wait \in [Jobs -> Int]
    /\ attempts \in [Jobs -> Nat]
    /\ pending \in 0..PendingTtl /\ sinceSolve \in 0..PendingTtl
    /\ token \in [left : 0..TokenTtl, valid : 0..Validity, used : BOOLEAN]
    /\ solve \in [Solves -> [at : {"none", "queued", "polling"}, left : Int, made : Nat]]
    /\ faults \in 0..MaxFaults

(* Two solves of one page, each of which is paid, are enqueued the TTL of the  *)
(* pending key apart, less MaxLate, when the jobs that enqueue them do so      *)
(* within MaxLate of being due; whatever jobs meet the challenge, come back    *)
(* too early, throw or crash in between (handleCaptcha, "only the winner       *)
(* enqueues a (paid) solve").                                                  *)
PaidSpaced ==
    [][\A j \in Jobs : stage[j] = "enqueue" /\ stage'[j] = "offload" /\ ~Late(j)
           => sinceSolve >= PendingTtl - MaxLate]_captchaVars

(* The offloaded solve and the delayed jobs meet: once a job has met a         *)
(* challenge, all jobs pass it or go to the dead letter when faults have       *)
(* ceased, lateness among them, and at a site that takes every token once;     *)
(* also when the solve was given up, its worker died before enqueueing it, a   *)
(* job threw, came too late for its token, or another job used the token.      *)
(* Nothing in the code keeps the workers from being late: a job that is late   *)
(* at every return may find every token expired and is delayed for ever.       *)
Rendezvous == (\E j \in Jobs : stage[j] = "read") ~> (\A j \in Jobs : stage[j] \in Ended)
=============================================================================
