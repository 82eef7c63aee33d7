------------------------ MODULE ScrapePipelineProofs ------------------------
(***************************************************************************)
(* Proofs about one scrape from the dispatcher to the cycle barrier, for   *)
(* any URLs, merchants, values and limits: a cycle does not fire before    *)
(* its slots have landed, stored rows have been counted, and a slot that   *)
(* never lands has an explanation.                                         *)
(***************************************************************************)
EXTENDS ScrapePipeline, FiniteSetTheorems, WellFoundedInduction, TLAPS

Slots == [open : BOOLEAN, enqueued : BOOLEAN, merchants : SUBSET Merchants]
JobTypes == [st : JobStates, queue : Queues, id : Nat, url : Urls \cup {"none"},
             slot : SlotIds \cup {NoSlot}, attempts : 0..MaxAttempts,
             stalls : 0..MaxStalls, out : Outcomes]

\* A job that will run again has an attempt left; one that failed has none, or
\* its worker died too often.
Jobs == {x \in JobTypes :
            /\ x.st # "free" => x.url \in Urls
            /\ x.st \in {"wait", "delayed", "posting", "returning"} => x.attempts < MaxAttempts
            /\ x.st = "failed" => x.attempts >= MaxAttempts \/ x.out = "stalled"}

RequestOK(r) ==
    /\ r.kind = "snapshot" => r.val \in Values
    /\ r.kind = "failed" => jobs[r.job].st = "dead"

TypeInv ==
    /\ TypeOK
    /\ jobs \in [JobIds -> Jobs]
    /\ \A r \in net : RequestOK(r)

\* A row belongs to a job, and the slot of that job has landed.
RowsInv == \A row \in rows :
              /\ jobs[row.job].st # "free"
              /\ jobs[row.job].slot # NoSlot => landings[jobs[row.job].slot] > 0

\* The router accepted the snapshot of job j and dropped it.
Dropped(j) ==
    \/ DomainOf[jobs[j].url] \in excluded
    \/ \E row \in rows : row.uuid = JobUuid(j) /\ row.job # j

\* Job j answers for its slot: it will run, or land it, or it ends silently.
Carries(j) ==
    \/ jobs[j].st \in {"wait", "delayed", "posting", "failed"}
    \/ /\ jobs[j].st \in {"returning", "completed"}
       /\ \/ jobs[j].out \in {"unusable", "blocked"}
          \/ jobs[j].out = "error" /\ jobs[j].st = "returning"
          \/ jobs[j].out = "written" /\ Dropped(j)
    \/ /\ jobs[j].st = "dead"
       /\ \/ jobs[j].out \in {"stalled", "unreported"}
          \/ \E r \in net : r.kind = "failed" /\ r.job = j

SlotsInv ==
    \A s \in SlotIds :
        slots[s].open /\ slots[s].enqueued /\ landings[s] = 0 =>
            \E j \in JobIds : jobs[j].slot = s /\ Carries(j)
-----------------------------------------------------------------------------
(***************************************************************************)
(* The queues.                                                             *)
(***************************************************************************)
\* The first free job exists: the job numbers are well-ordered.
LEMMA NextJobIsFree ==
    ASSUME RoomForJob
    PROVE  NextJob \in JobIds /\ jobs[NextJob].st = "free"
<1> DEFINE Free == {j \in JobIds : jobs[j].st = "free"}
           R == OpToRel(<, Nat)
<1>1. JobIds \subseteq Nat
  BY PipelineAssumption DEF JobIds
<1>2. Free \subseteq Nat /\ Free # {}
  BY <1>1 DEF RoomForJob
<1>3. \E j \in Free : \A k \in Free : ~(<<k, j>> \in R)
  <2>1. IsWellFoundedOn(R, Nat)
    BY NatLessThanWellFounded
  <2> HIDE DEF R, Free
  <2>2. QED
    BY <1>2, <2>1, WFMin
<1>4. \A j, k \in Nat : k < j => <<k, j>> \in R
  BY DEF OpToRel
<1>5. PICK j \in Free : \A k \in Free : ~(k < j)
  <2> HIDE DEF R
  <2>1. QED
    BY <1>2, <1>3, <1>4
<1>6. \A k \in 1..(j - 1) : k \in JobIds /\ k < j
  BY <1>1, PipelineAssumption DEF JobIds
<1>7. jobs[j].st = "free" /\ \A k \in 1..(j - 1) : jobs[k].st # "free"
  BY <1>5, <1>6
<1>8. QED
  BY <1>7 DEF NextJob

\* A job just added waits, for the slot it was added for.
LEMMA AddedJob ==
    ASSUME TypeInv, NEW q \in Queues, NEW u \in Urls, NEW s \in SlotIds \cup {NoSlot}
    PROVE  \E x \in Jobs : /\ x.st = "wait" /\ x.slot = s /\ x.url = u
                           /\ Added(jobs, q, u, s) = [jobs EXCEPT ![NextJob] = x]
<1>1. PICK x : x = [FreeJob EXCEPT !.st = "wait", !.queue = q,
                                   !.id = ids[q] + 1, !.url = u, !.slot = s]
  OBVIOUS
<1>2. /\ x.st = "wait" /\ x.queue = q /\ x.id = ids[q] + 1 /\ x.url = u /\ x.slot = s
      /\ x.attempts = 0 /\ x.stalls = 0 /\ x.out = "none"
  BY <1>1 DEF FreeJob
<1>3. ids[q] + 1 \in Nat /\ 0 \in 0..MaxAttempts /\ 0 \in 0..MaxStalls /\ 0 < MaxAttempts
  BY PipelineAssumption DEF TypeInv, TypeOK
<1>4. x \in JobTypes
  BY <1>1, <1>3 DEF FreeJob, JobTypes, JobStates, Outcomes
<1>5. x \in Jobs
  BY <1>2, <1>3, <1>4 DEF Jobs
<1>6. QED
  BY <1>1, <1>2, <1>5 DEF Added

\* What may become of a job: it keeps its number, its URL and its slot.
SameJob(x, y) == /\ y.st # "free"
                 /\ y.slot = x.slot /\ y.url = x.url /\ y.id = x.id /\ y.queue = x.queue
                 /\ x.st = "dead" => y.st = "dead"

\* A handler that ends.
LEMMA ReturnedJob ==
    ASSUME NEW x \in Jobs, x.st \in {"wait", "posting"}, NEW out \in Outcomes
    PROVE  [x EXCEPT !.st = "returning", !.out = out] \in Jobs
<1>1. PICK y : y = [x EXCEPT !.st = "returning", !.out = out]
  OBVIOUS
<1>2. y \in JobTypes /\ y.st = "returning" /\ y.url = x.url /\ y.attempts = x.attempts
  BY <1>1 DEF Jobs, JobTypes, JobStates
<1>3. QED
  BY <1>1, <1>2 DEF Jobs
JobsMove ==
    /\ jobs' \in [JobIds -> Jobs]
    /\ \A j \in JobIds : jobs[j].st # "free" => SameJob(jobs[j], jobs'[j])

\* One job changes, if any.
LEMMA OneJobMoves ==
    ASSUME TypeInv, NEW j \in JobIds, NEW y \in Jobs, jobs' = [jobs EXCEPT ![j] = y],
           jobs[j].st # "free" => SameJob(jobs[j], y)
    PROVE  JobsMove
<1>1. jobs \in [JobIds -> Jobs]
  BY DEF TypeInv
<1>2. \A k \in JobIds \ {j} : SameJob(jobs[k], jobs'[k]) \/ jobs[k].st = "free"
  BY <1>1 DEF SameJob
<1>3. QED
  BY <1>1, <1>2 DEF JobsMove

\* A handler that adds a follow-up job and ends.
LEMMA FollowUpMoves ==
    ASSUME TypeInv, RoomForJob, NEW j \in JobIds, jobs[j].st = "wait", NEW q \in Queues,
           NEW out \in Outcomes,
           jobs' = Returning(Added(jobs, q, jobs[j].url, jobs[j].slot), j, out)
    PROVE  /\ JobsMove
           /\ \E k \in JobIds : jobs'[k].slot = jobs[j].slot /\ jobs'[k].st = "wait"
           /\ jobs'[j].st = "returning" /\ jobs'[j].out = out
           /\ \A k \in JobIds \ {j} : jobs[k].st # "free" => jobs'[k] = jobs[k]
<1>1. /\ jobs \in [JobIds -> Jobs] /\ jobs[j] \in Jobs
      /\ jobs[j].url \in Urls /\ jobs[j].slot \in SlotIds \cup {NoSlot}
  BY DEF TypeInv, Jobs, JobTypes
<1>0. PICK u \in Urls, sl \in SlotIds \cup {NoSlot} : u = jobs[j].url /\ sl = jobs[j].slot
  BY <1>1
<1>2. PICK x \in Jobs : /\ x.st = "wait" /\ x.slot = sl /\ x.url = u
                        /\ Added(jobs, q, u, sl) = [jobs EXCEPT ![NextJob] = x]
  BY AddedJob
<1>3. NextJob \in JobIds /\ NextJob # j /\ jobs[NextJob].st = "free"
  BY NextJobIsFree
<1>4. PICK y : y = [jobs[j] EXCEPT !.st = "returning", !.out = out]
  OBVIOUS
<1>5. y \in Jobs /\ y.st = "returning" /\ y.out = out /\ SameJob(jobs[j], y)
  BY <1>1, <1>4, ReturnedJob DEF SameJob, Jobs, JobTypes
<1>6. jobs' = [[jobs EXCEPT ![NextJob] = x] EXCEPT ![j] = y]
  BY <1>0, <1>1, <1>2, <1>3, <1>4 DEF Returning, Jobs, JobTypes
<1>7. jobs' \in [JobIds -> Jobs] /\ jobs'[NextJob] = x /\ jobs'[j] = y
  BY <1>1, <1>3, <1>5, <1>6
<1>8. \A k \in JobIds \ {j} : jobs[k].st # "free" => jobs'[k] = jobs[k]
  BY <1>1, <1>3, <1>6
<1>9. \E k \in JobIds : jobs'[k].slot = jobs[j].slot /\ jobs'[k].st = "wait"
  BY <1>0, <1>2, <1>3, <1>7
<1>10. ASSUME NEW k \in JobIds, jobs[k].st # "free" PROVE SameJob(jobs[k], jobs'[k])
  BY <1>5, <1>7, <1>8, <1>10 DEF SameJob
<1>11. QED
  BY <1>5, <1>7, <1>8, <1>9, <1>10 DEF JobsMove

LEMMA EndMoves ==
    ASSUME TypeInv, NEW j \in JobIds, jobs[j].st \in {"wait", "posting"}, NEW out \in Outcomes,
           jobs' = Returning(jobs, j, out)
    PROVE  /\ JobsMove
           /\ jobs'[j].st = "returning" /\ jobs'[j].out = out
           /\ \A k \in JobIds \ {j} : jobs'[k] = jobs[k]
<1>1. jobs \in [JobIds -> Jobs] /\ jobs[j] \in Jobs
  BY DEF TypeInv
<1>2. PICK y : y = [jobs[j] EXCEPT !.st = "returning", !.out = out]
  OBVIOUS
<1>3. y \in Jobs /\ y.st = "returning" /\ y.out = out /\ SameJob(jobs[j], y)
  BY <1>1, <1>2, ReturnedJob DEF SameJob, Jobs, JobTypes
<1>4. jobs' = [jobs EXCEPT ![j] = y]
  BY <1>1, <1>2 DEF Returning, Jobs, JobTypes
<1>5. QED
  BY <1>1, <1>3, <1>4, OneJobMoves

\* What a worker does to the jobs.
LEMMA WorkerMoves ==
    ASSUME TypeInv, NEW j \in JobIds, WorkerStep(j)
    PROVE  /\ JobsMove /\ jobs[j].st = "wait" /\ UNCHANGED <<rows, excluded, landings, slots>>
           /\ \A k \in JobIds \ {j} : jobs[k].st # "free" => jobs'[k] = jobs[k]
           /\ \/ jobs'[j].st = "posting"
              \/ jobs'[j].st = "returning" /\ jobs'[j].out \in {"error", "unusable", "blocked"}
              \/ \E k \in JobIds : jobs'[k].slot = jobs[j].slot /\ jobs'[k].st = "wait"
<1>1. jobs \in [JobIds -> Jobs] /\ jobs[j] \in Jobs
  BY DEF TypeInv
<1>2. jobs[j].st = "wait" /\ UNCHANGED <<rows, excluded, landings, slots>>
  <2>1. jobs[j].st = "wait"
    BY DEF WorkerStep, ProbeFollowUp, ProbeBlocked, ProbeThrows, HttpNoPrice,
         HttpInvalid, HttpThrows, HttpPost,
         PlaywrightNoResult, PlaywrightPost
  <2>2. UNCHANGED <<excluded, slots>>
    BY DEF WorkerStep, ProbeFollowUp, ProbeBlocked, ProbeThrows, HttpNoPrice,
         HttpInvalid, HttpThrows, HttpPost,
         PlaywrightNoResult, PlaywrightPost, domain
  <2>3. UNCHANGED <<stored, barrier>>
    BY DEF WorkerStep, ProbeFollowUp, ProbeBlocked, ProbeThrows, HttpNoPrice,
         HttpInvalid, HttpThrows, HttpPost,
         PlaywrightNoResult, PlaywrightPost
  <2>4. QED
    BY <2>1, <2>2, <2>3 DEF stored, barrier
<1>3. CASE \E q \in Queues, out \in {"classified", "error", "unusable"} :
              /\ RoomForJob
              /\ jobs' = Returning(Added(jobs, q, jobs[j].url, jobs[j].slot), j, out)
  BY <1>2, <1>3, FollowUpMoves DEF Outcomes
<1>4. CASE \E out \in {"error", "unusable", "blocked"} : jobs' = Returning(jobs, j, out)
  BY <1>2, <1>4, EndMoves DEF Outcomes
<1>5. CASE jobs' = [jobs EXCEPT ![j].st = "posting"]
  <2>1. PICK y : y = [jobs[j] EXCEPT !.st = "posting"]
    OBVIOUS
  <2>2. y \in Jobs /\ y.st = "posting" /\ SameJob(jobs[j], y)
    BY <1>1, <1>2, <2>1 DEF SameJob, Jobs, JobTypes, JobStates
  <2>3. jobs' = [jobs EXCEPT ![j] = y]
    BY <1>1, <1>5, <2>1 DEF Jobs, JobTypes
  <2>4. QED
    BY <1>1, <1>2, <2>2, <2>3, OneJobMoves
<1>6. ASSUME NEW class \in {"http_ok", "js_required"}, NEW out \in {"classified", "error"},
             ProbeFollowUp(j, class, out)
      PROVE  \E q \in Queues :
              /\ RoomForJob
              /\ jobs' = Returning(Added(jobs, q, jobs[j].url, jobs[j].slot), j, out)
  <2>1. queue_for_class(class) \in Queues
    BY DEF queue_for_class, Queues
  <2>2. QED
    BY <1>6, <2>1 DEF ProbeFollowUp
<1>7. ASSUME NEW out \in {"error", "unusable"}, HttpNoPrice(j, out)
      PROVE  \/ \E q \in Queues : /\ RoomForJob
                                  /\ jobs' = Returning(Added(jobs, q, jobs[j].url, jobs[j].slot), j, out)
             \/ jobs' = Returning(jobs, j, out)
  BY <1>7 DEF HttpNoPrice, incrementHttpFailCounter, Queues
<1>8. QED
  BY <1>3, <1>4, <1>5, <1>6, <1>7 DEF WorkerStep, ProbeBlocked, ProbeThrows, HttpInvalid,
     HttpThrows, HttpPost, PlaywrightNoResult, PlaywrightPost, PostPriceSnapshot

\* A job is put off, or its delay ends.
LEMMA DelayMoves ==
    ASSUME TypeInv, NEW j \in JobIds, WorkerDelays(j) \/ DelayEnds(j)
    PROVE  /\ JobsMove /\ UNCHANGED <<rows, excluded, net>>
           /\ jobs[j].st \in {"wait", "delayed"} /\ jobs'[j].st \in {"wait", "delayed"}
           /\ \A k \in JobIds \ {j} : jobs'[k] = jobs[k]
<1>1. jobs \in [JobIds -> Jobs] /\ jobs[j] \in Jobs
  BY DEF TypeInv
<1>2. jobs[j].st \in {"wait", "delayed"} /\ UNCHANGED <<rows, excluded, net>>
  BY DEF WorkerDelays, DelayEnds, stored, domain
<1>3. PICK st \in {"wait", "delayed"} : jobs' = [jobs EXCEPT ![j].st = st]
  BY DEF WorkerDelays, DelayEnds
<1>4. PICK y : y = [jobs[j] EXCEPT !.st = st]
  OBVIOUS
<1>5. y \in Jobs /\ y.st = st /\ SameJob(jobs[j], y)
  BY <1>1, <1>2, <1>4 DEF SameJob, Jobs, JobTypes, JobStates
<1>6. jobs' = [jobs EXCEPT ![j] = y]
  BY <1>1, <1>3, <1>4 DEF Jobs, JobTypes
<1>7. QED
  BY <1>1, <1>2, <1>5, <1>6, OneJobMoves

\* What BullMQ does to a job whose handler has ended, or whose worker has died.
LEMMA ReturnMoves ==
    ASSUME TypeInv, NEW j \in JobIds, JobReturns(j)
    PROVE  /\ JobsMove /\ jobs[j].st = "returning"
           /\ IF jobs[j].out = "error" THEN jobs'[j].st \in {"wait", "failed"}
              ELSE jobs'[j].st = "completed" /\ jobs'[j].out = jobs[j].out
           /\ \A k \in JobIds \ {j} : jobs'[k] = jobs[k]
<1>1. jobs \in [JobIds -> Jobs] /\ jobs[j] \in Jobs /\ jobs[j].st = "returning"
  BY DEF TypeInv, JobReturns
<1>2. jobs[j].attempts < MaxAttempts /\ jobs[j].attempts \in 0..MaxAttempts /\ jobs[j].url \in Urls
      /\ MaxAttempts \in Nat
  BY <1>1, PipelineAssumption DEF Jobs, JobTypes
<1>3. CASE jobs[j].out # "error"
  <2>1. PICK y : y = [jobs[j] EXCEPT !.st = "completed"]
    OBVIOUS
  <2>2. y \in Jobs /\ y.st = "completed" /\ y.out = jobs[j].out /\ SameJob(jobs[j], y)
    BY <1>1, <1>2, <2>1 DEF SameJob, Jobs, JobTypes, JobStates
  <2>3. jobs' = [jobs EXCEPT ![j] = y]
    BY <1>1, <1>3, <2>1 DEF JobReturns
  <2>4. QED
    BY <1>1, <1>3, <2>2, <2>3, OneJobMoves
<1>4. CASE jobs[j].out = "error"
  <2> DEFINE made == jobs[j].attempts + 1
  <2>1. PICK y : y = [jobs[j] EXCEPT !.attempts = made,
                                     !.st = IF made < MaxAttempts THEN "wait" ELSE "failed"]
    OBVIOUS
  <2>2. made \in 0..MaxAttempts
    BY <1>2
  <2>3. /\ y \in JobTypes /\ y.url = jobs[j].url /\ y.attempts = made
        /\ y.st = IF made < MaxAttempts THEN "wait" ELSE "failed"
        /\ y.slot = jobs[j].slot /\ y.id = jobs[j].id /\ y.queue = jobs[j].queue
    BY <1>1, <2>1, <2>2 DEF Jobs, JobTypes, JobStates
  <2>4. y \in Jobs /\ y.st \in {"wait", "failed"} /\ SameJob(jobs[j], y)
    BY <1>1, <1>2, <2>3 DEF SameJob, Jobs
  <2>5. jobs' = [jobs EXCEPT ![j] = y]
    BY <1>1, <1>4, <2>1 DEF JobReturns
  <2>6. QED
    BY <1>1, <1>4, <2>4, <2>5, OneJobMoves
<1>5. QED
  BY <1>3, <1>4

LEMMA StallMoves ==
    ASSUME TypeInv, NEW j \in JobIds, JobStalls(j)
    PROVE  /\ JobsMove /\ jobs[j].st # "dead"
           /\ jobs'[j].st \in {"wait", "failed"}
           /\ \A k \in JobIds \ {j} : jobs'[k] = jobs[k]
<1>1. jobs \in [JobIds -> Jobs] /\ jobs[j] \in Jobs
      /\ jobs[j].st \in {"wait", "posting", "returning"}
  BY DEF TypeInv, JobStalls
<1>2. CASE jobs[j].stalls < MaxStalls
  <2>1. PICK y : y = [jobs[j] EXCEPT !.st = "wait", !.stalls = jobs[j].stalls + 1, !.out = "none"]
    OBVIOUS
  <2>2. jobs[j].stalls + 1 \in 0..MaxStalls
    BY <1>1, <1>2, PipelineAssumption DEF Jobs, JobTypes
  <2>3. /\ y \in JobTypes /\ y.url = jobs[j].url /\ y.attempts = jobs[j].attempts /\ y.st = "wait"
        /\ y.slot = jobs[j].slot /\ y.id = jobs[j].id /\ y.queue = jobs[j].queue
    BY <1>1, <2>1, <2>2 DEF Jobs, JobTypes, JobStates, Outcomes
  <2>4. y \in Jobs /\ SameJob(jobs[j], y)
    BY <1>1, <2>3 DEF SameJob, Jobs
  <2>5. jobs' = [jobs EXCEPT ![j] = y]
    BY <1>1, <1>2, <2>1 DEF JobStalls
  <2>6. QED
    BY <1>1, <2>3, <2>4, <2>5, OneJobMoves
<1>3. CASE ~(jobs[j].stalls < MaxStalls)
  <2>1. PICK y : y = [jobs[j] EXCEPT !.st = "failed", !.out = "stalled"]
    OBVIOUS
  <2>2. /\ y \in JobTypes /\ y.url = jobs[j].url /\ y.out = "stalled" /\ y.st = "failed"
        /\ y.slot = jobs[j].slot /\ y.id = jobs[j].id /\ y.queue = jobs[j].queue
    BY <1>1, <2>1 DEF Jobs, JobTypes, JobStates, Outcomes
  <2>3. y \in Jobs /\ SameJob(jobs[j], y)
    BY <1>1, <2>2 DEF SameJob, Jobs
  <2>4. jobs' = [jobs EXCEPT ![j] = y]
    BY <1>1, <1>3, <2>1 DEF JobStalls
  <2>5. QED
    BY <1>1, <2>2, <2>3, <2>4, OneJobMoves
<1>4. QED
  BY <1>2, <1>3

LEMMA OnFailedMoves ==
    ASSUME TypeInv, NEW j \in JobIds, OnFailed(j)
    PROVE  /\ JobsMove /\ jobs[j].st = "failed" /\ jobs'[j].st = "dead"
           /\ \/ jobs'[j].out = "stalled"
              \/ \E r \in net' : r.kind = "failed" /\ r.job = j
           /\ \A k \in JobIds \ {j} : jobs'[k] = jobs[k]
<1>1. jobs \in [JobIds -> Jobs] /\ jobs[j] \in Jobs /\ jobs[j].st = "failed"
  BY DEF TypeInv, OnFailed
<1>2. PICK y : y = [jobs[j] EXCEPT !.st = "dead"]
  OBVIOUS
<1>3. /\ y \in Jobs /\ SameJob(jobs[j], y) /\ y.st = "dead" /\ y.out = jobs[j].out
  BY <1>1, <1>2 DEF Jobs, JobTypes, JobStates, SameJob
<1>4. jobs' = [jobs EXCEPT ![j] = y]
  BY <1>1, <1>2 DEF OnFailed
<1>5. jobs[j].attempts >= MaxAttempts \/ jobs[j].out = "stalled"
  BY <1>1 DEF Jobs
<1>6. jobs[j].attempts >= MaxAttempts => \E r \in net' : r.kind = "failed" /\ r.job = j
  <2>1. PICK r : r = [kind |-> "failed", job |-> j, run |-> Run(j), val |-> NoValue]
    OBVIOUS
  <2>2. r.kind = "failed" /\ r.job = j
    BY <2>1
  <2>3. jobs[j].attempts >= MaxAttempts => net' = net \cup {r}
    BY <2>1 DEF OnFailed
  <2>4. QED
    BY <2>2, <2>3
<1>7. QED
  BY <1>1, <1>3, <1>4, <1>5, <1>6, OneJobMoves

\* What the answer to a request does to the job that sent it.
LEMMA RespondMoves ==
    ASSUME TypeInv, NEW r \in net, NEW ok \in BOOLEAN, Respond(r, ok)
    PROVE  /\ JobsMove /\ r.job \in JobIds
           /\ \/ jobs' = jobs
              \/ /\ jobs[r.job].st = "posting" /\ jobs'[r.job].st = "returning"
                 /\ jobs'[r.job].out = IF ok THEN "written" ELSE "error"
           /\ \A k \in JobIds \ {r.job} : jobs'[k] = jobs[k]
<1>1. r.job \in JobIds /\ jobs \in [JobIds -> Jobs]
  BY DEF TypeInv, TypeOK, Requests
<1>2. CASE jobs' = jobs
  <2>1. JobsMove
    BY <1>1, <1>2 DEF JobsMove, SameJob
  <2>2. QED
    BY <1>1, <1>2, <2>1
<1>3. CASE jobs[r.job].st = "posting" /\ jobs' = Returning(jobs, r.job, IF ok THEN "written" ELSE "error")
  BY <1>1, <1>3, EndMoves DEF Outcomes
<1>4. QED
  BY <1>2, <1>3 DEF Respond

\* The failure report of a dead job is lost.
LEMMA UnreportedMoves ==
    ASSUME TypeInv, NEW r \in net, r.kind = "failed",
           jobs' = [jobs EXCEPT ![r.job].out = "unreported"]
    PROVE  /\ JobsMove /\ r.job \in JobIds
           /\ jobs'[r.job].st = "dead" /\ jobs'[r.job].out = "unreported"
           /\ \A k \in JobIds \ {r.job} : jobs'[k] = jobs[k]
<1>1. /\ r.job \in JobIds /\ jobs \in [JobIds -> Jobs] /\ jobs[r.job] \in Jobs
      /\ jobs[r.job].st = "dead"
  BY DEF TypeInv, TypeOK, Requests, RequestOK
<1>2. PICK y : y = [jobs[r.job] EXCEPT !.out = "unreported"]
  OBVIOUS
<1>3. y \in Jobs /\ SameJob(jobs[r.job], y) /\ y.st = "dead" /\ y.out = "unreported"
  BY <1>1, <1>2 DEF Jobs, JobTypes, JobStates, Outcomes, SameJob
<1>4. jobs' = [jobs EXCEPT ![r.job] = y]
  BY <1>1, <1>2
<1>5. QED
  BY <1>1, <1>3, <1>4, OneJobMoves

\* A job is added for a URL that is due or has just been tracked.
LEMMA AddMoves ==
    ASSUME TypeInv, RoomForJob, NEW q \in Queues, NEW u \in Urls, NEW s \in SlotIds \cup {NoSlot},
           jobs' = Added(jobs, q, u, s)
    PROVE  /\ JobsMove
           /\ \E k \in JobIds : jobs'[k].slot = s /\ jobs'[k].st = "wait"
           /\ \A k \in JobIds : jobs[k].st # "free" => jobs'[k] = jobs[k]
<1>1. PICK x \in Jobs : /\ x.st = "wait" /\ x.slot = s /\ x.url = u
                        /\ Added(jobs, q, u, s) = [jobs EXCEPT ![NextJob] = x]
  BY AddedJob
<1>2. NextJob \in JobIds /\ jobs[NextJob].st = "free" /\ jobs \in [JobIds -> Jobs]
  BY NextJobIsFree DEF TypeInv
<1>3. /\ jobs' \in [JobIds -> Jobs] /\ jobs'[NextJob] = x
      /\ \A k \in JobIds : jobs[k].st # "free" => jobs'[k] = jobs[k]
  BY <1>1, <1>2
<1>4. JobsMove
  BY <1>3 DEF JobsMove, SameJob
<1>5. QED
  BY <1>1, <1>2, <1>3, <1>4
\* Whatever happens, a job that exists keeps its number, its URL and its slot.
LEMMA JobsStep == TypeInv /\ [Next]_vars => JobsMove
<1> SUFFICES ASSUME TypeInv, [Next]_vars PROVE JobsMove
  OBVIOUS
<1>1. ASSUME jobs' = jobs PROVE JobsMove
  BY <1>1 DEF TypeInv, JobsMove, SameJob
<1>2. CASE UNCHANGED vars
  BY <1>1, <1>2 DEF vars
<1>3. ASSUME NEW u \in Urls, NEW s \in SlotIds, Dispatch(u, s) \/ DispatchCrash(u, s)
      PROVE  JobsMove
  <2>1. CASE Dispatch(u, s)
    <3>1. queue_for_class(domainClass[DomainOf[u]]) \in Queues
      BY DEF queue_for_class, Queues
    <3>2. PICK q \in Queues : RoomForJob /\ jobs' = Added(jobs, q, u, s)
      BY <2>1, <3>1 DEF Dispatch
    <3>3. QED
      BY <3>2, AddMoves
  <2>2. CASE DispatchCrash(u, s)
    BY <1>1, <2>2 DEF DispatchCrash
  <2>3. QED
    BY <1>3, <2>1, <2>2
<1>4. ASSUME NEW u \in Urls, EnqueueProbe(u) PROVE JobsMove
  BY <1>4, AddMoves DEF EnqueueProbe, Queues
<1>5. ASSUME NEW j \in JobIds, JobStep(j) \/ JobStalls(j)
      PROVE  JobsMove
  BY <1>5, WorkerMoves, DelayMoves, ReturnMoves, StallMoves, OnFailedMoves DEF JobStep
<1>6. ASSUME NEW r \in net,
             \/ \E committed, heard \in BOOLEAN : ServeSnapshot(r, committed, heard)
             \/ \E committed \in BOOLEAN : ServeScrapeFailed(r, committed)
             \/ ServeDomainBlocked(r)
             \/ LoseRequest(r)
      PROVE  JobsMove
  <2>1. \/ \E ok \in BOOLEAN : Respond(r, ok)
        \/ r.kind = "failed" /\ jobs' = [jobs EXCEPT ![r.job].out = "unreported"]
        \/ jobs' = jobs
    BY <1>6 DEF ServeSnapshot, ServeScrapeFailed, ServeDomainBlocked, LoseRequest
  <2>2. QED
    BY <1>1, <2>1, RespondMoves, UnreportedMoves
<1>7. ASSUME NEW d \in Domains, ClassExpires(d) \/ Exclude(d) PROVE JobsMove
  BY <1>1, <1>7 DEF ClassExpires, Exclude
<1>8. ASSUME NEW m \in Merchants, CycleKeyExpires(m) PROVE JobsMove
  BY <1>1, <1>8 DEF CycleKeyExpires
<1>9. QED
  BY <1>2, <1>3, <1>4, <1>5, <1>6, <1>7, <1>8 DEF Next, RouterStep
-----------------------------------------------------------------------------
(***************************************************************************)
(* The barrier.                                                            *)
(***************************************************************************)
BarrierTypes ==
    /\ expected \in [Merchants -> Nat]
    /\ done \in [Merchants -> Nat]
    /\ fired \in [Merchants -> BOOLEAN]
    /\ generated \in [Merchants -> BOOLEAN]
    /\ landings \in [SlotIds -> Nat]

\* What is recorded lands.
LEMMA RecordStep ==
    ASSUME BarrierTypes, NEW slot, NEW committed \in BOOLEAN, RecordCycles(slot, committed)
    PROVE  /\ BarrierTypes'
           /\ \A s \in SlotIds : landings'[s] = landings[s] + (IF s = slot THEN 1 ELSE 0)
<1> DEFINE M == MerchantsOf(slot)
           F == {m \in M : expected[m] > 0 /\ done[m] + 1 >= expected[m] /\ ~fired[m]}
<1>1. /\ done' = [m \in Merchants |-> done[m] + (IF m \in M THEN 1 ELSE 0)]
      /\ fired' = [m \in Merchants |-> fired[m] \/ m \in F]
      /\ generated' = [m \in Merchants |-> generated[m] \/ (committed /\ m \in F)]
      /\ landings' = [s \in SlotIds |-> landings[s] + (IF s = slot THEN 1 ELSE 0)]
      /\ expected' = expected
  BY DEF RecordCycles
<1> HIDE DEF M, F
<1>2. expected' \in [Merchants -> Nat] /\ done' \in [Merchants -> Nat]
  BY <1>1 DEF BarrierTypes
<1>3. fired' \in [Merchants -> BOOLEAN] /\ generated' \in [Merchants -> BOOLEAN]
  BY <1>1 DEF BarrierTypes
<1>4. landings' \in [SlotIds -> Nat]
  BY <1>1 DEF BarrierTypes
<1>5. QED
  BY <1>1, <1>2, <1>3, <1>4 DEF BarrierTypes

\* A key of a cycle expires.
LEMMA ExpiryStep ==
    ASSUME BarrierTypes, NEW m \in Merchants, CycleKeyExpires(m)
    PROVE  /\ BarrierTypes' /\ UNCHANGED <<slots, landings>>
           /\ \A n \in Merchants : /\ expected'[n] \in {0, expected[n]}
                                   /\ done'[n] <= done[n]
                                   /\ fired'[n] => fired[n]
<1>1. UNCHANGED <<slots, landings, generated>>
  BY DEF CycleKeyExpires
<1>2. \/ expected' = [expected EXCEPT ![m] = 0] /\ UNCHANGED <<done, fired>>
      \/ done' = [done EXCEPT ![m] = 0] /\ UNCHANGED <<expected, fired>>
      \/ fired' = [fired EXCEPT ![m] = FALSE] /\ UNCHANGED <<expected, done>>
  BY DEF CycleKeyExpires
<1>3. /\ expected' \in [Merchants -> Nat] /\ done' \in [Merchants -> Nat]
      /\ \A n \in Merchants : expected'[n] \in {0, expected[n]} /\ done'[n] <= done[n]
  BY <1>2 DEF BarrierTypes
<1>4. fired' \in [Merchants -> BOOLEAN] /\ \A n \in Merchants : fired'[n] => fired[n]
  BY <1>2 DEF BarrierTypes
<1>5. QED
  BY <1>1, <1>3, <1>4 DEF BarrierTypes

\* The barrier changes when a dispatcher opens a slot, when the router records
\* one and when a key expires.
LEMMA BarrierMoves ==
    ASSUME [Next]_vars
    PROVE  \/ UNCHANGED barrier
           \/ \E u \in Urls, s \in SlotIds : Dispatch(u, s) \/ DispatchCrash(u, s)
           \/ /\ UNCHANGED slots
              /\ \E r \in net, committed \in BOOLEAN : RecordCycles(jobs[r.job].slot, committed)
           \/ \E m \in Merchants : CycleKeyExpires(m)
<1>1. ASSUME NEW j \in JobIds, JobStep(j) \/ JobStalls(j) PROVE UNCHANGED barrier
  BY <1>1 DEF JobStep, WorkerDelays, DelayEnds, WorkerStep, ProbeFollowUp, ProbeBlocked,
         ProbeThrows, HttpNoPrice, HttpInvalid, HttpThrows, HttpPost, PlaywrightNoResult, PlaywrightPost,
         JobReturns, JobStalls, OnFailed
<1>2. ASSUME NEW r \in net,
             \/ \E committed, heard \in BOOLEAN : ServeSnapshot(r, committed, heard)
             \/ \E committed \in BOOLEAN : ServeScrapeFailed(r, committed)
             \/ ServeDomainBlocked(r)
             \/ LoseRequest(r)
      PROVE  /\ UNCHANGED slots
             /\ \/ UNCHANGED barrier
                \/ \E committed \in BOOLEAN : RecordCycles(jobs[r.job].slot, committed)
  BY <1>2 DEF ServeSnapshot, ServeScrapeFailed, ServeDomainBlocked, LoseRequest,
         IngestDropped, IngestUnchanged, IngestNew
<1>3. QED
  BY <1>1, <1>2 DEF Next, RouterStep, vars, EnqueueProbe, ClassExpires, Exclude

LEMMA BarrierStep ==
    ASSUME BarrierTypes, [Next]_vars
    PROVE  BarrierTypes' /\ \A s \in SlotIds : landings'[s] >= landings[s]
<1>1. ASSUME UNCHANGED <<done, fired, generated, landings>>, expected' \in [Merchants -> Nat]
      PROVE  BarrierTypes' /\ \A s \in SlotIds : landings'[s] >= landings[s]
  BY <1>1 DEF BarrierTypes
<1>2. CASE UNCHANGED barrier
  BY <1>1, <1>2 DEF barrier, BarrierTypes
<1>3. ASSUME NEW u \in Urls, NEW s \in SlotIds, Dispatch(u, s) \/ DispatchCrash(u, s)
      PROVE  UNCHANGED <<done, fired, generated, landings>> /\ expected' \in [Merchants -> Nat]
  BY <1>3 DEF Dispatch, DispatchCrash, OpenSlot, BarrierTypes
<1>4. ASSUME NEW slot, NEW committed \in BOOLEAN, RecordCycles(slot, committed)
      PROVE  BarrierTypes' /\ \A s \in SlotIds : landings'[s] >= landings[s]
  BY <1>4, RecordStep DEF BarrierTypes
<1>5. ASSUME NEW m \in Merchants, CycleKeyExpires(m)
      PROVE  BarrierTypes' /\ \A s \in SlotIds : landings'[s] >= landings[s]
  BY <1>5, ExpiryStep DEF BarrierTypes
<1>6. QED
  BY <1>1, <1>2, <1>3, <1>4, <1>5, BarrierMoves
-----------------------------------------------------------------------------
(***************************************************************************)
(* Types.                                                                  *)
(***************************************************************************)
Classes == {"none", "http_ok", "js_required", "blocked"}

DomainTypes ==
    /\ ids \in [Queues -> Nat]
    /\ domainClass \in [Domains -> Classes]
    /\ httpFail \in [Domains -> 0..HTTP_FAIL_LIMIT]
    /\ robotsBlocked \in [Urls -> BOOLEAN]
    /\ excluded \subseteq Domains

LEMMA CountTypes ==
    ASSUME DomainTypes, NEW q \in Queues, CountId(q)
    PROVE  ids' \in [Queues -> Nat]
BY DEF DomainTypes, CountId

\* A step of a worker.
LEMMA WorkerDomainTypes ==
    ASSUME TypeInv, DomainTypes, NEW j \in JobIds, WorkerStep(j)
    PROVE  DomainTypes'
<1>1. /\ jobs[j].st = "wait" /\ jobs \in [JobIds -> Jobs] /\ jobs[j].url \in Urls
      /\ DomainOf[jobs[j].url] \in Domains /\ HTTP_FAIL_LIMIT \in Nat \ {0}
  BY WorkerMoves, PipelineAssumption DEF TypeInv, Jobs
<1> DEFINE d == DomainOf[jobs[j].url]
<1>2. UNCHANGED <<robotsBlocked, excluded>>
  BY DEF WorkerStep, ProbeFollowUp, ProbeBlocked, ProbeThrows, HttpNoPrice,
         HttpInvalid, HttpThrows, HttpPost,
         PlaywrightNoResult, PlaywrightPost, domain
<1>3. \/ UNCHANGED ids
      \/ \E q \in Queues : CountId(q)
  BY DEF WorkerStep, ProbeFollowUp, ProbeBlocked, ProbeThrows, HttpNoPrice,
         HttpInvalid, HttpThrows, HttpPost,
         PlaywrightNoResult, PlaywrightPost, incrementHttpFailCounter, queue_for_class, Queues
<1>4. \/ UNCHANGED domainClass
      \/ \E class \in Classes : domainClass' = [domainClass EXCEPT ![d] = class]
  <2>1. domainClass[d] \in Classes /\ {"http_ok", "js_required", "blocked"} \subseteq Classes
    BY <1>1 DEF DomainTypes, Classes
  <2>2. ASSUME NEW out, incrementHttpFailCounter(j, out)
        PROVE  \/ UNCHANGED domainClass
               \/ \E class \in Classes : domainClass' = [domainClass EXCEPT ![d] = class]
    BY <2>1, <2>2 DEF incrementHttpFailCounter
  <2>3. QED
    BY <2>1, <2>2 DEF WorkerStep, ProbeFollowUp, ProbeBlocked, ProbeThrows, HttpNoPrice,
         HttpInvalid, HttpThrows, HttpPost, PlaywrightNoResult, PlaywrightPost, domain
<1>5. \/ UNCHANGED httpFail
      \/ \E n \in 0..HTTP_FAIL_LIMIT : httpFail' = [httpFail EXCEPT ![d] = n]
  <2>0. ASSUME HttpThrows(j) PROVE \E n \in 0..HTTP_FAIL_LIMIT : httpFail' = [httpFail EXCEPT ![d] = n]
    <3>1. {0, httpFail[d]} \subseteq 0..HTTP_FAIL_LIMIT
      BY <1>1 DEF DomainTypes
    <3>2. QED
      BY <2>0, <3>1 DEF HttpThrows
  <2>1. ASSUME NEW out, incrementHttpFailCounter(j, out)
        PROVE  \E n \in 0..HTTP_FAIL_LIMIT : httpFail' = [httpFail EXCEPT ![d] = n]
    <3>1. httpFail[d] \in 0..HTTP_FAIL_LIMIT
      BY <1>1 DEF DomainTypes
    <3>2. CASE httpFail[d] + 1 < HTTP_FAIL_LIMIT /\ httpFail' = [httpFail EXCEPT ![d] = @ + 1]
      <4>1. httpFail[d] + 1 \in 0..HTTP_FAIL_LIMIT
        BY <1>1, <3>1, <3>2
      <4>2. QED
        BY <3>2, <4>1
    <3>3. CASE \E n \in {0, HTTP_FAIL_LIMIT} : httpFail' = [httpFail EXCEPT ![d] = n]
      <4>1. {0, HTTP_FAIL_LIMIT} \subseteq 0..HTTP_FAIL_LIMIT
        BY <1>1
      <4>2. QED
        BY <3>3, <4>1
    <3>4. QED
      BY <2>1, <3>2, <3>3 DEF incrementHttpFailCounter
  <2>2. 0 \in 0..HTTP_FAIL_LIMIT
    BY <1>1
  <2>3. QED
    BY <2>0, <2>1, <2>2 DEF WorkerStep, ProbeFollowUp, ProbeBlocked, ProbeThrows, HttpNoPrice,
         HttpInvalid, HttpPost, PlaywrightNoResult, PlaywrightPost, domain
<1>6. ids' \in [Queues -> Nat]
  BY <1>3, CountTypes DEF DomainTypes
<1>7. domainClass' \in [Domains -> Classes]
  BY <1>4 DEF DomainTypes
<1>8. httpFail' \in [Domains -> 0..HTTP_FAIL_LIMIT]
  BY <1>5 DEF DomainTypes
<1>9. QED
  BY <1>2, <1>6, <1>7, <1>8 DEF DomainTypes

LEMMA DomainStep ==
    ASSUME TypeInv, DomainTypes, [Next]_vars
    PROVE  DomainTypes'
<1>1. ASSUME UNCHANGED domain, UNCHANGED ids \/ \E q \in Queues : CountId(q)
      PROVE  DomainTypes'
  BY <1>1, CountTypes DEF domain, DomainTypes
<1>2. CASE UNCHANGED vars
  BY <1>1, <1>2 DEF vars
<1>3. ASSUME NEW u \in Urls, NEW s \in SlotIds, Dispatch(u, s) \/ DispatchCrash(u, s)
      PROVE  DomainTypes'
  BY <1>1, <1>3 DEF Dispatch, DispatchCrash, queue_for_class, Queues
<1>4. ASSUME NEW u \in Urls, EnqueueProbe(u) PROVE DomainTypes'
  BY <1>1, <1>4 DEF EnqueueProbe, Queues
<1>5. ASSUME NEW j \in JobIds, JobStep(j) \/ JobStalls(j)
      PROVE  DomainTypes'
  BY <1>1, <1>5, WorkerDomainTypes DEF JobStep, WorkerDelays, DelayEnds, JobReturns, JobStalls,
     OnFailed
<1>6. ASSUME NEW r \in net,
             \/ \E committed, heard \in BOOLEAN : ServeSnapshot(r, committed, heard)
             \/ \E committed \in BOOLEAN : ServeScrapeFailed(r, committed)
             \/ LoseRequest(r)
      PROVE  DomainTypes'
  BY <1>1, <1>6 DEF ServeSnapshot, ServeScrapeFailed, LoseRequest
<1>7. ASSUME NEW r \in net, ServeDomainBlocked(r) PROVE DomainTypes'
  BY <1>7 DEF ServeDomainBlocked, DomainTypes
<1>8. ASSUME NEW d \in Domains, ClassExpires(d) \/ Exclude(d) PROVE DomainTypes'
  BY <1>8 DEF ClassExpires, Exclude, DomainTypes, Classes
<1>9. ASSUME NEW m \in Merchants, CycleKeyExpires(m) PROVE DomainTypes'
  BY <1>1, <1>9 DEF CycleKeyExpires
<1>10. QED
  BY <1>2, <1>3, <1>4, <1>5, <1>6, <1>7, <1>8, <1>9 DEF Next, RouterStep

\* Slots are opened once and stay what they are.
LEMMA SlotsStep ==
    ASSUME slots \in [SlotIds -> Slots], [Next]_vars
    PROVE  /\ slots' \in [SlotIds -> Slots]
           /\ \/ slots' = slots
              \/ \E u \in Urls, s \in SlotIds :
                    /\ Dispatch(u, s) \/ DispatchCrash(u, s)
                    /\ slots'[s].enqueued => Dispatch(u, s)
                    /\ \A t \in SlotIds \ {s} : slots'[t] = slots[t]
<1>1. ASSUME UNCHANGED slots
      PROVE  slots' \in [SlotIds -> Slots]
  BY <1>1
<1>2. ASSUME NEW u \in Urls, NEW s \in SlotIds, Dispatch(u, s) \/ DispatchCrash(u, s)
      PROVE  /\ slots' \in [SlotIds -> Slots]
             /\ slots'[s].enqueued => Dispatch(u, s)
             /\ \A t \in SlotIds \ {s} : slots'[t] = slots[t]
  <2>1. Trackers[u] \subseteq Merchants
    BY PipelineAssumption
  <2>2. PICK M \in SUBSET Merchants, queued \in BOOLEAN :
           OpenSlot(s, M, queued) /\ (queued => Dispatch(u, s))
    BY <1>2, <2>1 DEF Dispatch, DispatchCrash
  <2>3. PICK x : x = [open |-> TRUE, enqueued |-> queued, merchants |-> M]
    OBVIOUS
  <2>4. x \in Slots /\ x.enqueued = queued
    BY <2>3 DEF Slots
  <2>5. slots' = [slots EXCEPT ![s] = x]
    BY <2>2, <2>3 DEF OpenSlot
  <2>6. QED
    BY <2>2, <2>4, <2>5
<1>3. \/ UNCHANGED slots
      \/ \E u \in Urls, s \in SlotIds : Dispatch(u, s) \/ DispatchCrash(u, s)
  <2>1. ASSUME NEW j \in JobIds, JobStep(j) \/ JobStalls(j)
        PROVE  UNCHANGED slots
    BY <2>1 DEF JobStep, WorkerDelays, DelayEnds, WorkerStep, ProbeFollowUp, ProbeBlocked,
         ProbeThrows, HttpNoPrice, HttpInvalid, HttpThrows, HttpPost, PlaywrightNoResult, PlaywrightPost,
         JobReturns, JobStalls, OnFailed
  <2>2. ASSUME RouterStep PROVE UNCHANGED slots
    BY <2>2 DEF RouterStep, ServeSnapshot, ServeScrapeFailed, ServeDomainBlocked, LoseRequest
  <2>3. QED
    BY <2>1, <2>2 DEF Next, vars, EnqueueProbe, ClassExpires, Exclude, CycleKeyExpires
<1>4. QED
  BY <1>1, <1>2, <1>3
\* A worker's request.
LEMMA NewRequest ==
    ASSUME TypeInv, NEW j \in JobIds, NEW kind \in {"snapshot", "failed", "blocked"},
           NEW val \in Values \cup {NoValue}
    PROVE  \E r \in Requests : /\ r = [kind |-> kind, job |-> j, run |-> Run(j), val |-> val]
                               /\ r.kind = kind /\ r.job = j /\ r.val = val
<1>1. jobs[j].attempts \in Nat /\ jobs[j].stalls \in Nat
  BY PipelineAssumption DEF TypeInv, TypeOK
<1>2. Run(j) \in Nat
  BY <1>1 DEF Run
<1>3. PICK r : r = [kind |-> kind, job |-> j, run |-> Run(j), val |-> val]
  OBVIOUS
<1>4. r \in Requests
  BY <1>2, <1>3 DEF Requests
<1>5. QED
  BY <1>3, <1>4

\* Requests under way belong to jobs that exist, and a failure report to a dead one.
LEMMA NetStep ==
    ASSUME TypeInv, JobsMove, [Next]_vars
    PROVE  /\ net' \subseteq Requests
           /\ \A r \in net' : jobs'[r.job].st # "free" /\ RequestOK(r)'
<1>1. net \subseteq Requests /\ \A r \in net : jobs[r.job].st # "free" /\ RequestOK(r)
  BY DEF TypeInv, TypeOK
<1>2. ASSUME NEW r \in net PROVE jobs'[r.job].st # "free" /\ RequestOK(r)'
  BY <1>1 DEF JobsMove, SameJob, RequestOK, Requests
<1>3. ASSUME net' \subseteq net
      PROVE  net' \subseteq Requests /\ \A r \in net' : jobs'[r.job].st # "free" /\ RequestOK(r)'
  BY <1>1, <1>2, <1>3
<1>4. ASSUME NEW r \in Requests, net' \subseteq net \cup {r}, jobs'[r.job].st # "free",
             r.kind = "snapshot" => r.val \in Values,
             r.kind = "failed" => jobs'[r.job].st = "dead"
      PROVE  net' \subseteq Requests /\ \A q \in net' : jobs'[q.job].st # "free" /\ RequestOK(q)'
  <2>1. RequestOK(r)'
    BY <1>4 DEF RequestOK
  <2>2. QED
    BY <1>1, <1>2, <1>4, <2>1
<1>5. CASE UNCHANGED vars
  BY <1>3, <1>5 DEF vars
<1>6. ASSUME NEW u \in Urls, NEW s \in SlotIds,
             Dispatch(u, s) \/ DispatchCrash(u, s) \/ EnqueueProbe(u)
      PROVE  net' \subseteq net
  BY <1>6 DEF Dispatch, DispatchCrash, EnqueueProbe
<1>7. ASSUME NEW j \in JobIds, WorkerDelays(j) \/ DelayEnds(j) \/ JobReturns(j) \/ JobStalls(j)
      PROVE  net' \subseteq net
  BY <1>7 DEF WorkerDelays, DelayEnds, JobReturns, JobStalls
<1>8. ASSUME NEW j \in JobIds, WorkerStep(j)
      PROVE  net' \subseteq Requests /\ \A r \in net' : jobs'[r.job].st # "free" /\ RequestOK(r)'
  <2>1. jobs'[j].st # "free"
    BY <1>8, WorkerMoves DEF JobsMove, SameJob
  <2>2. \/ net' = net
        \/ net' = net \cup {[kind |-> "blocked", job |-> j, run |-> Run(j), val |-> NoValue]}
        \/ \E v \in Values :
              net' = net \cup {[kind |-> "snapshot", job |-> j, run |-> Run(j), val |-> v]}
    BY <1>8 DEF WorkerStep, ProbeFollowUp, ProbeBlocked, ProbeThrows, HttpNoPrice,
         HttpInvalid, HttpThrows, HttpPost,
         PlaywrightNoResult, PlaywrightPost, PostPriceSnapshot
  <2>3. CASE net' = net \cup {[kind |-> "blocked", job |-> j, run |-> Run(j), val |-> NoValue]}
    <3>1. PICK r \in Requests :
             /\ r = [kind |-> "blocked", job |-> j, run |-> Run(j), val |-> NoValue]
             /\ r.kind = "blocked" /\ r.job = j
      BY NewRequest
    <3>2. QED
      BY <1>4, <2>1, <2>3, <3>1
  <2>4. ASSUME NEW v \in Values,
               net' = net \cup {[kind |-> "snapshot", job |-> j, run |-> Run(j), val |-> v]}
        PROVE  net' \subseteq Requests /\ \A r \in net' : jobs'[r.job].st # "free" /\ RequestOK(r)'
    <3>1. PICK r \in Requests :
             /\ r = [kind |-> "snapshot", job |-> j, run |-> Run(j), val |-> v]
             /\ r.kind = "snapshot" /\ r.job = j /\ r.val = v
      BY NewRequest
    <3>2. QED
      BY <1>4, <2>1, <2>4, <3>1
  <2>5. QED
    BY <1>3, <2>2, <2>3, <2>4
<1>9. ASSUME NEW j \in JobIds, OnFailed(j)
      PROVE  net' \subseteq Requests /\ \A r \in net' : jobs'[r.job].st # "free" /\ RequestOK(r)'
  <2>1. jobs'[j].st = "dead"
    BY <1>9, OnFailedMoves
  <2>2. PICK r \in Requests :
           /\ r = [kind |-> "failed", job |-> j, run |-> Run(j), val |-> NoValue]
           /\ r.kind = "failed" /\ r.job = j
    BY NewRequest
  <2>3. net' \subseteq net \cup {r}
    BY <1>9, <2>2 DEF OnFailed
  <2>4. QED
    BY <1>4, <2>1, <2>2, <2>3
<1>10. ASSUME RouterStep PROVE net' \subseteq net
  BY <1>10 DEF RouterStep, ServeSnapshot, ServeScrapeFailed, ServeDomainBlocked, LoseRequest
<1>11. ASSUME NEW d \in Domains, ClassExpires(d) \/ Exclude(d) PROVE net' \subseteq net
  BY <1>11 DEF ClassExpires, Exclude
<1>12. ASSUME NEW u \in Urls, EnqueueProbe(u) PROVE net' \subseteq net
  BY <1>12 DEF EnqueueProbe
<1>13. ASSUME NEW m \in Merchants, CycleKeyExpires(m) PROVE net' \subseteq net
  BY <1>13 DEF CycleKeyExpires
<1>14. QED
  BY <1>3, <1>5, <1>6, <1>7, <1>8, <1>9, <1>10, <1>11, <1>12, <1>13 DEF Next, JobStep

StoredTypes ==
    /\ rows \subseteq [uuid : Nat, job : JobIds, val : Values]
    /\ last \in [Urls -> Values \cup {NoValue}]

\* A row is stored together with the landing of its slot.
LEMMA StoredStep ==
    ASSUME TypeInv, JobsMove, BarrierTypes, StoredTypes, [Next]_vars
    PROVE  StoredTypes' /\ (RowsInv => RowsInv')
<1>1. \A s \in SlotIds : landings'[s] >= landings[s]
  BY BarrierStep
<1>2. \A row \in rows : row.job \in JobIds
  BY DEF StoredTypes
<1>3. jobs \in [JobIds -> Jobs] /\ \A j \in JobIds : jobs[j].slot \in SlotIds \cup {NoSlot}
  BY DEF TypeInv, Jobs, JobTypes
<1>4. ASSUME RowsInv, NEW row \in rows
      PROVE  /\ jobs'[row.job].st # "free"
             /\ jobs'[row.job].slot # NoSlot => landings'[jobs'[row.job].slot] > 0
  <2>1. PICK j \in JobIds : j = row.job
    BY <1>2
  <2>2. jobs[j].st # "free" /\ (jobs[j].slot # NoSlot => landings[jobs[j].slot] > 0)
    BY <1>4, <2>1 DEF RowsInv
  <2>3. jobs'[j].st # "free" /\ jobs'[j].slot = jobs[j].slot
    BY <2>2 DEF JobsMove, SameJob
  <2>4. jobs[j].slot # NoSlot => landings'[jobs[j].slot] > 0
    <3>1. ASSUME NEW s \in SlotIds, landings[s] > 0 PROVE landings'[s] > 0
      <4>1. landings[s] \in Nat /\ landings'[s] \in Nat
        BY BarrierStep DEF BarrierTypes
      <4>2. QED
        BY <1>1, <3>1, <4>1
    <3>2. QED
      BY <1>3, <2>2, <3>1
  <2>5. QED
    BY <2>1, <2>3, <2>4
<1>5. ASSUME UNCHANGED stored PROVE StoredTypes' /\ (RowsInv => RowsInv')
  <2>1. StoredTypes'
    BY <1>5 DEF stored, StoredTypes
  <2>2. RowsInv => RowsInv'
    BY <1>4, <1>5 DEF stored, RowsInv
  <2>3. QED
    BY <2>1, <2>2
<1>6. ASSUME NEW r \in net, NEW committed \in BOOLEAN, r.kind = "snapshot", IngestNew(r, committed)
      PROVE  StoredTypes' /\ (RowsInv => RowsInv')
  <2>1. CASE UNCHANGED stored
    BY <1>5, <2>1
  <2>2. CASE ~UNCHANGED stored
    <3> DEFINE u == jobs[r.job].url
    <3>1. /\ rows' = rows \cup {[uuid |-> JobUuid(r.job), job |-> r.job, val |-> r.val]}
          /\ last' = [last EXCEPT ![u] = r.val]
          /\ RecordCycles(jobs[r.job].slot, committed)
      BY <1>6, <2>2 DEF IngestNew
    <3>2. r.job \in JobIds /\ jobs[r.job].st # "free" /\ r.val \in Values
      BY <1>6 DEF TypeInv, TypeOK, RequestOK, Requests
    <3>3. JobUuid(r.job) \in Nat
      BY <3>2 DEF JobUuid, TypeInv, Jobs, JobTypes
    <3>4. PICK new : new = [uuid |-> JobUuid(r.job), job |-> r.job, val |-> r.val]
      OBVIOUS
    <3>5. new \in [uuid : Nat, job : JobIds, val : Values] /\ new.job = r.job
      BY <3>2, <3>3, <3>4
    <3>6. StoredTypes'
      BY <3>1, <3>2, <3>4, <3>5 DEF StoredTypes
    <3>7. ASSUME RowsInv PROVE RowsInv'
      <4>1. jobs'[r.job].st # "free" /\ jobs'[r.job].slot = jobs[r.job].slot
        BY <3>2 DEF JobsMove, SameJob
      <4>2. ASSUME jobs[r.job].slot # NoSlot PROVE landings'[jobs[r.job].slot] > 0
        <5>1. PICK s \in SlotIds : s = jobs[r.job].slot
          BY <1>3, <3>2, <4>2
        <5>2. landings'[s] = landings[s] + 1 /\ landings[s] \in Nat
          BY <3>1, <5>1, RecordStep DEF BarrierTypes
        <5>3. QED
          BY <5>1, <5>2
      <4>3. QED
        BY <1>4, <3>1, <3>4, <3>5, <3>7, <4>1, <4>2 DEF RowsInv
    <3>8. QED
      BY <3>6, <3>7
  <2>3. QED
    BY <2>1, <2>2
<1>7. \/ UNCHANGED stored
      \/ \E r \in net, committed \in BOOLEAN : r.kind = "snapshot" /\ IngestNew(r, committed)
  <2>1. ASSUME NEW j \in JobIds, JobStep(j) \/ JobStalls(j)
        PROVE  UNCHANGED stored
    BY <2>1 DEF JobStep, WorkerDelays, DelayEnds, WorkerStep, ProbeFollowUp, ProbeBlocked,
         ProbeThrows, HttpNoPrice, HttpInvalid, HttpThrows, HttpPost, PlaywrightNoResult, PlaywrightPost,
         JobReturns, JobStalls, OnFailed
  <2>2. ASSUME RouterStep
        PROVE  \/ UNCHANGED stored
               \/ \E r \in net, committed \in BOOLEAN :
                     r.kind = "snapshot" /\ IngestNew(r, committed)
    BY <2>2 DEF RouterStep, ServeSnapshot, ServeScrapeFailed, ServeDomainBlocked, LoseRequest,
            IngestDropped, IngestUnchanged
  <2>3. QED
    BY <2>1, <2>2 DEF Next, vars, Dispatch, DispatchCrash, EnqueueProbe, ClassExpires, Exclude,
       CycleKeyExpires
<1>8. QED
  BY <1>5, <1>6, <1>7

LEMMA TypeStarts == Init => TypeInv
<1> SUFFICES ASSUME Init PROVE TypeInv
  OBVIOUS
<1>1. FreeJob \in Jobs
  BY PipelineAssumption DEF FreeJob, Jobs, JobTypes, JobStates, Outcomes, Queues
<1>2. jobs \in [JobIds -> Jobs]
  BY <1>1 DEF Init
<1>3. jobs \in [JobIds -> JobTypes] /\ \A j \in JobIds : jobs[j].st # "free" => jobs[j].url \in Urls
  BY <1>2 DEF Jobs
<1>4. FreeSlot \in Slots
  BY DEF FreeSlot, Slots
<1>5. slots \in [SlotIds -> Slots] /\ 0 \in 0..HTTP_FAIL_LIMIT
  BY <1>4, PipelineAssumption DEF Init
<1>6. QED
  BY <1>2, <1>3, <1>5 DEF Init, TypeInv, TypeOK, Slots, JobTypes

LEMMA TypeStep == TypeInv /\ [Next]_vars => TypeInv'
<1> SUFFICES ASSUME TypeInv, [Next]_vars PROVE TypeInv'
  OBVIOUS
<1>1. DomainTypes /\ BarrierTypes /\ StoredTypes /\ slots \in [SlotIds -> Slots]
  BY DEF TypeInv, TypeOK, DomainTypes, Classes, BarrierTypes, StoredTypes, Slots
<1>2. DomainTypes' /\ BarrierTypes' /\ StoredTypes' /\ slots' \in [SlotIds -> Slots] /\ JobsMove
  BY <1>1, DomainStep, BarrierStep, StoredStep, SlotsStep, JobsStep
<1>3. /\ jobs' \in [JobIds -> Jobs] /\ jobs' \in [JobIds -> JobTypes]
      /\ \A j \in JobIds : jobs'[j].st # "free" => jobs'[j].url \in Urls
  BY <1>2 DEF JobsMove, Jobs
<1>4. /\ net' \subseteq Requests
      /\ \A r \in net' : jobs'[r.job].st # "free"
      /\ \A r \in net' : RequestOK(r)'
  BY <1>2, NetStep
<1>5. TypeOK'
  BY <1>2, <1>3, <1>4 DEF TypeOK, DomainTypes, Classes, BarrierTypes, StoredTypes, Slots, JobTypes
<1>6. QED
  BY <1>3, <1>4, <1>5 DEF TypeInv
-----------------------------------------------------------------------------
(***************************************************************************)
(* A slot that has not landed.                                             *)
(***************************************************************************)
\* What is stored and excluded stays so.
LEMMA Grows == ASSUME [Next]_vars PROVE rows \subseteq rows' /\ excluded \subseteq excluded'
<1>1. ASSUME NEW j \in JobIds, JobStep(j) \/ JobStalls(j)
      PROVE  rows \subseteq rows' /\ excluded' = excluded
  <2>1. UNCHANGED stored
    BY <1>1 DEF JobStep, WorkerDelays, DelayEnds, WorkerStep, ProbeFollowUp, ProbeBlocked,
         ProbeThrows, HttpNoPrice, HttpInvalid, HttpThrows, HttpPost, PlaywrightNoResult, PlaywrightPost,
         JobReturns, JobStalls, OnFailed
  <2>2. UNCHANGED excluded
    BY <1>1 DEF JobStep, WorkerDelays, DelayEnds, WorkerStep, ProbeFollowUp, ProbeBlocked,
         ProbeThrows, HttpNoPrice, HttpInvalid, HttpThrows, HttpPost, PlaywrightNoResult, PlaywrightPost,
         JobReturns, JobStalls, OnFailed, domain
  <2>3. QED
    BY <2>1, <2>2 DEF stored
<1>2. ASSUME RouterStep PROVE rows \subseteq rows' /\ excluded' = excluded
  BY <1>2 DEF RouterStep, ServeSnapshot, ServeScrapeFailed, ServeDomainBlocked, LoseRequest,
          IngestDropped, IngestUnchanged, IngestNew, stored, domain
<1>3. QED
  BY <1>1, <1>2 DEF Next, vars, Dispatch, DispatchCrash, EnqueueProbe, ClassExpires, Exclude,
     CycleKeyExpires, stored, domain

LEMMA StillCarries ==
    ASSUME [Next]_vars, NEW j \in JobIds, Carries(j), jobs'[j] = jobs[j],
           \A r \in net : r.kind = "failed" /\ r.job = j => r \in net'
    PROVE  Carries(j)'
<1>1. rows \subseteq rows' /\ excluded \subseteq excluded'
  BY Grows
<1>2. Dropped(j) => Dropped(j)'
  BY <1>1 DEF Dropped, JobUuid
<1>3. QED
  BY <1>2 DEF Carries

\* A slot with a job that answers for it keeps one until it lands.
LEMMA CarrierStep ==
    ASSUME TypeInv, RowsInv, [Next]_vars, NEW s \in SlotIds, NEW j \in JobIds,
           jobs[j].slot = s, Carries(j), landings'[s] = 0
    PROVE  \E k \in JobIds : jobs'[k].slot = s /\ Carries(k)'
<1>1. jobs[j].st # "free" /\ jobs'[j].slot = s /\ SameJob(jobs[j], jobs'[j])
  BY JobsStep DEF Carries, JobsMove, SameJob
<1>2. /\ BarrierTypes /\ landings[s] = 0
      /\ \A t \in SlotIds : landings'[t] >= landings[t]
  <2>1. BarrierTypes
    BY DEF TypeInv, TypeOK, BarrierTypes
  <2>2. \A t \in SlotIds : landings'[t] >= landings[t]
    BY <2>1, BarrierStep
  <2>3. landings[s] \in Nat
    BY <2>1 DEF BarrierTypes
  <2>4. landings'[s] >= landings[s]
    BY <2>2
  <2>5. QED
    BY <2>1, <2>2, <2>3, <2>4
<1>3. ASSUME Carries(j)' PROVE \E k \in JobIds : jobs'[k].slot = s /\ Carries(k)'
  BY <1>1, <1>3
<1>4. ASSUME jobs'[j] = jobs[j], net \subseteq net' PROVE Carries(j)'
  BY <1>4, StillCarries
<1>5. ASSUME NEW slot, NEW committed \in BOOLEAN, RecordCycles(slot, committed)
      PROVE  slot # s
  <2>1. landings'[s] = landings[s] + (IF s = slot THEN 1 ELSE 0)
    BY <1>2, <1>5, RecordStep
  <2>2. QED
    BY <1>2, <2>1
<1>6. CASE UNCHANGED vars
  BY <1>3, <1>4, <1>6 DEF vars
<1>7. ASSUME NEW u \in Urls, NEW t \in SlotIds, Dispatch(u, t) \/ DispatchCrash(u, t)
      PROVE  Carries(j)'
  <2>1. net' = net
    BY <1>7 DEF Dispatch, DispatchCrash
  <2>2. CASE Dispatch(u, t)
    <3>1. queue_for_class(domainClass[DomainOf[u]]) \in Queues
      BY DEF queue_for_class, Queues
    <3>2. PICK q \in Queues : RoomForJob /\ jobs' = Added(jobs, q, u, t)
      BY <2>2, <3>1 DEF Dispatch
    <3>3. jobs'[j] = jobs[j]
      BY <1>1, <3>2, AddMoves
    <3>4. QED
      BY <1>4, <2>1, <3>3
  <2>3. CASE DispatchCrash(u, t)
    BY <1>4, <2>1, <2>3 DEF DispatchCrash
  <2>4. QED
    BY <1>7, <2>2, <2>3
<1>8. ASSUME NEW u \in Urls, EnqueueProbe(u) PROVE Carries(j)'
  <2>1. RoomForJob /\ jobs' = Added(jobs, "probe", u, NoSlot) /\ net' = net
    BY <1>8 DEF EnqueueProbe
  <2>2. jobs'[j] = jobs[j]
    BY <1>1, <2>1, AddMoves DEF Queues
  <2>3. QED
    BY <1>4, <2>1, <2>2
<1>9. ASSUME NEW i \in JobIds, WorkerStep(i)
      PROVE  \E k \in JobIds : jobs'[k].slot = s /\ Carries(k)'
  <2>1. net \subseteq net'
    BY <1>9 DEF WorkerStep, ProbeFollowUp, ProbeBlocked, ProbeThrows, HttpNoPrice,
         HttpInvalid, HttpThrows, HttpPost,
         PlaywrightNoResult, PlaywrightPost, PostPriceSnapshot
  <2>2. CASE i # j
    BY <1>1, <1>3, <1>4, <1>9, <2>1, <2>2, WorkerMoves
  <2>3. CASE i = j
    <3>1. \/ jobs'[j].st = "posting"
          \/ /\ jobs'[j].st = "returning"
             /\ jobs'[j].out \in {"error", "unusable", "blocked"}
          \/ \E k \in JobIds : jobs'[k].slot = jobs[j].slot /\ jobs'[k].st = "wait"
      BY <1>9, <2>3, WorkerMoves
    <3>2. QED
      BY <1>3, <3>1 DEF Carries
  <2>4. QED
    BY <2>2, <2>3
<1>0. ASSUME NEW i \in JobIds, WorkerDelays(i) \/ DelayEnds(i) PROVE Carries(j)'
  <2>1. CASE i # j
    BY <1>0, <1>4, <2>1, DelayMoves
  <2>2. CASE i = j
    BY <1>0, <2>2, DelayMoves DEF Carries
  <2>3. QED
    BY <2>1, <2>2
<1>10. ASSUME NEW i \in JobIds, JobReturns(i) PROVE Carries(j)'
  <2>1. net' = net /\ UNCHANGED <<rows, excluded>>
    BY <1>10 DEF JobReturns, stored, domain
  <2>2. CASE i # j
    BY <1>4, <1>10, <2>1, <2>2, ReturnMoves
  <2>3. CASE i = j
    <3>1. /\ jobs[j].st = "returning"
          /\ IF jobs[j].out = "error" THEN jobs'[j].st \in {"wait", "failed"}
             ELSE jobs'[j].st = "completed" /\ jobs'[j].out = jobs[j].out
      BY <1>10, <2>3, ReturnMoves
    <3>2. Dropped(j) => Dropped(j)'
      BY <1>1, <2>1 DEF Dropped, JobUuid, SameJob
    <3>3. QED
      BY <3>1, <3>2 DEF Carries
  <2>4. QED
    BY <2>2, <2>3
<1>11. ASSUME NEW i \in JobIds, JobStalls(i) PROVE Carries(j)'
  <2>1. net' = net
    BY <1>11 DEF JobStalls
  <2>2. CASE i # j
    BY <1>4, <1>11, <2>1, <2>2, StallMoves
  <2>3. CASE i = j
    BY <1>11, <2>3, StallMoves DEF Carries
  <2>4. QED
    BY <2>2, <2>3
<1>12. ASSUME NEW i \in JobIds, OnFailed(i) PROVE Carries(j)'
  <2>1. net \subseteq net'
    BY <1>12 DEF OnFailed
  <2>2. CASE i # j
    BY <1>4, <1>12, <2>1, <2>2, OnFailedMoves
  <2>3. CASE i = j
    BY <1>12, <2>3, OnFailedMoves DEF Carries
  <2>4. QED
    BY <2>2, <2>3
<1>13. ASSUME NEW r \in net, NEW committed \in BOOLEAN, NEW heard \in BOOLEAN,
              ServeSnapshot(r, committed, heard)
       PROVE  Carries(j)'
  <2>1. r.kind = "snapshot" /\ net' = net \ {r} /\ Respond(r, heard)
    BY <1>13 DEF ServeSnapshot
  <2>2. CASE jobs'[j] = jobs[j]
    BY <2>1, <2>2, StillCarries
  <2>3. CASE jobs'[j] # jobs[j]
    <3>1. /\ j = r.job /\ jobs'[j].st = "returning"
          /\ jobs'[j].out = IF heard THEN "written" ELSE "error"
      BY <2>1, <2>3, RespondMoves
    <3>2. CASE ~heard
      BY <3>1, <3>2 DEF Carries
    <3>3. CASE heard
      <4>1. IngestDropped(r)
        BY <1>5, <1>13, <3>1 DEF ServeSnapshot, IngestUnchanged, IngestNew
      <4>2. UNCHANGED <<rows, excluded>>
        BY <1>13, <4>1 DEF ServeSnapshot, IngestDropped, stored, domain
      <4>3. ASSUME Stored(j) PROVE \E row \in rows : row.uuid = JobUuid(j) /\ row.job # j
        <5>1. PICK row \in rows : row.uuid = JobUuid(j)
          BY <4>3 DEF Stored
        <5>2. jobs[row.job].slot # NoSlot => landings[jobs[row.job].slot] > 0
          BY DEF RowsInv
        <5>3. s # NoSlot
          BY PipelineAssumption DEF SlotIds, NoSlot
        <5>4. row.job # j
          BY <1>2, <5>2, <5>3
        <5>5. QED
          BY <5>1, <5>4
      <4>4. Dropped(j)
        BY <3>1, <4>1, <4>3 DEF IngestDropped, Dropped
      <4>5. Dropped(j)'
        BY <1>1, <4>2, <4>4 DEF Dropped, JobUuid, SameJob
      <4>6. QED
        BY <3>1, <3>3, <4>5 DEF Carries
    <3>4. QED
      BY <3>2, <3>3
  <2>4. QED
    BY <2>2, <2>3
<1>14. ASSUME NEW r \in net, NEW committed \in BOOLEAN, ServeScrapeFailed(r, committed)
       PROVE  Carries(j)'
  <2>1. r.kind = "failed" /\ net' = net \ {r} /\ jobs' = jobs
        /\ RecordCycles(jobs[r.job].slot, committed)
    BY <1>14 DEF ServeScrapeFailed
  <2>2. r.job # j
    BY <1>5, <2>1
  <2>3. QED
    BY <2>1, <2>2, StillCarries
<1>15. ASSUME NEW r \in net, ServeDomainBlocked(r) PROVE Carries(j)'
  <2>1. r.kind = "blocked" /\ net' = net \ {r} /\ jobs' = jobs
    BY <1>15 DEF ServeDomainBlocked
  <2>2. QED
    BY <2>1, StillCarries
<1>16. ASSUME NEW r \in net, LoseRequest(r) PROVE Carries(j)'
  <2>1. net' = net \ {r}
    BY <1>16 DEF LoseRequest
  <2>2. CASE r.kind = "snapshot" /\ Respond(r, FALSE)
    <3>1. CASE jobs'[j] = jobs[j]
      BY <2>1, <2>2, <3>1, StillCarries
    <3>2. CASE jobs'[j] # jobs[j]
      <4>1. jobs'[j].st = "returning" /\ jobs'[j].out = "error"
        BY <2>2, <3>2, RespondMoves
      <4>2. QED
        BY <4>1 DEF Carries
    <3>3. QED
      BY <3>1, <3>2
  <2>3. CASE r.kind = "failed" /\ jobs' = [jobs EXCEPT ![r.job].out = "unreported"]
    <3>1. CASE r.job = j
      <4>1. jobs'[j].st = "dead" /\ jobs'[j].out = "unreported"
        BY <2>3, <3>1, UnreportedMoves
      <4>2. QED
        BY <4>1 DEF Carries
    <3>2. CASE r.job # j
      <4>1. jobs'[j] = jobs[j]
        BY <2>3, <3>2, UnreportedMoves
      <4>2. QED
        BY <2>1, <3>2, <4>1, StillCarries
    <3>3. QED
      BY <3>1, <3>2
  <2>4. CASE r.kind = "blocked" /\ UNCHANGED jobs
    BY <2>1, <2>4, StillCarries
  <2>5. QED
    BY <1>16, <2>2, <2>3, <2>4 DEF LoseRequest
<1>17. ASSUME NEW d \in Domains, ClassExpires(d) \/ Exclude(d) PROVE Carries(j)'
  BY <1>4, <1>17 DEF ClassExpires, Exclude
<1>18. ASSUME NEW m \in Merchants, CycleKeyExpires(m) PROVE Carries(j)'
  BY <1>4, <1>18 DEF CycleKeyExpires
<1>19. QED
  BY <1>0, <1>3, <1>6, <1>7, <1>8, <1>9, <1>10, <1>11, <1>12, <1>13, <1>14, <1>15, <1>16, <1>17,
     <1>18 DEF Next, JobStep, RouterStep

LEMMA SlotsInvStep == TypeInv /\ RowsInv /\ SlotsInv /\ [Next]_vars => SlotsInv'
<1> SUFFICES ASSUME TypeInv, RowsInv, SlotsInv, [Next]_vars,
                    NEW s \in SlotIds, slots'[s].open, slots'[s].enqueued, landings'[s] = 0
             PROVE  \E j \in JobIds : jobs'[j].slot = s /\ Carries(j)'
  BY DEF SlotsInv
<1>1. slots \in [SlotIds -> Slots] /\ BarrierTypes
  BY DEF TypeInv, TypeOK, Slots, BarrierTypes
<1>2. landings[s] = 0
  <2>1. landings'[s] >= landings[s] /\ landings[s] \in Nat
    BY <1>1, BarrierStep DEF BarrierTypes
  <2>2. QED
    BY <2>1
<1>3. CASE slots'[s] = slots[s]
  <2>1. PICK j \in JobIds : jobs[j].slot = s /\ Carries(j)
    BY <1>2, <1>3 DEF SlotsInv
  <2>2. QED
    BY <2>1, CarrierStep
<1>4. CASE slots'[s] # slots[s]
  <2>1. PICK u \in Urls : Dispatch(u, s)
    BY <1>1, <1>4, SlotsStep
  <2>2. queue_for_class(domainClass[DomainOf[u]]) \in Queues
    BY DEF queue_for_class, Queues
  <2>3. PICK q \in Queues : RoomForJob /\ jobs' = Added(jobs, q, u, s)
    BY <2>1, <2>2 DEF Dispatch
  <2>4. PICK k \in JobIds : jobs'[k].slot = s /\ jobs'[k].st = "wait"
    BY <2>3, AddMoves
  <2>5. QED
    BY <2>4 DEF Carries
<1>5. QED
  BY <1>3, <1>4
-----------------------------------------------------------------------------
(***************************************************************************)
(* The cycle fires.                                                        *)
(***************************************************************************)
Landed(m) == {s \in SlotsOf(m) : landings[s] > 0}
LandedOnce(m) == \A s \in SlotsOf(m) : landings[s] <= 1

\* EXPECTED counts the slots of the merchant, until it expires, and DONE counts
\* no more than the slots that have landed unless one landed twice.
CountInv ==
    /\ \A s \in SlotIds : ~slots[s].open => slots[s].merchants = {}
    /\ \A m \in Merchants : /\ expected[m] \in {0, Cardinality(SlotsOf(m))}
                            /\ LandedOnce(m) => done[m] <= Cardinality(Landed(m))

\* Sets of slots are finite.
LEMMA SlotSets ==
    ASSUME NEW S \in SUBSET SlotIds, NEW T \in SUBSET S
    PROVE  /\ IsFiniteSet(S) /\ IsFiniteSet(T)
           /\ Cardinality(S) \in Nat /\ Cardinality(T) \in Nat
           /\ Cardinality(T) <= Cardinality(S)
           /\ Cardinality(S) = Cardinality(T) => S = T
<1>1. IsFiniteSet(SlotIds)
  BY FS_Interval, PipelineAssumption DEF SlotIds
<1>2. IsFiniteSet(S)
  BY <1>1, FS_Subset
<1>3. QED
  BY <1>2, FS_Subset, FS_CardinalityType

\* A merchant's new slot is counted, and has not landed more often for it.
LEMMA OpenCounts ==
    ASSUME BarrierTypes, slots \in [SlotIds -> Slots], CountInv,
           NEW s \in SlotIds, NEW M \in SUBSET Merchants, NEW queued \in BOOLEAN,
           OpenSlot(s, M, queued), UNCHANGED <<done, landings>>
    PROVE  CountInv'
<1>1. PICK x : x = [open |-> TRUE, enqueued |-> queued, merchants |-> M]
  OBVIOUS
<1>2. x.open /\ x.merchants = M /\ slots' = [slots EXCEPT ![s] = x]
  BY <1>1 DEF OpenSlot
<1>3. /\ slots'[s].open /\ slots'[s].merchants = M /\ slots[s].merchants = {}
      /\ \A t \in SlotIds \ {s} : slots'[t] = slots[t]
  BY <1>2 DEF OpenSlot, CanOpen, CountInv
<1>4. \A t \in SlotIds : ~slots'[t].open => slots'[t].merchants = {}
  BY <1>3 DEF CountInv
<1>5. ASSUME NEW m \in Merchants
      PROVE  /\ expected'[m] \in {0, Cardinality(SlotsOf(m)')}
             /\ LandedOnce(m)' => done'[m] <= Cardinality(Landed(m)')
  <2>1. /\ expected[m] \in Nat /\ done[m] \in Nat /\ expected[m] \in {0, Cardinality(SlotsOf(m))}
        /\ LandedOnce(m) => done[m] <= Cardinality(Landed(m))
        /\ expected'[m] = expected[m] + (IF m \in M THEN 1 ELSE 0)
    <3>1. expected[m] \in Nat /\ done[m] \in Nat
      BY DEF BarrierTypes
    <3>2. /\ expected[m] \in {0, Cardinality(SlotsOf(m))}
          /\ LandedOnce(m) => done[m] <= Cardinality(Landed(m))
      BY DEF CountInv
    <3>3. expected'[m] = expected[m] + (IF m \in M THEN 1 ELSE 0)
      BY DEF OpenSlot
    <3>4. QED
      BY <3>1, <3>2, <3>3
  <2>2. SlotsOf(m)' = IF m \in M THEN SlotsOf(m) \cup {s} ELSE SlotsOf(m)
    BY <1>3 DEF SlotsOf
  <2>3. s \notin SlotsOf(m) /\ SlotsOf(m) \subseteq SlotIds /\ SlotsOf(m)' \subseteq SlotIds
    BY <1>3, <2>2 DEF SlotsOf
  <2>4. expected'[m] \in {0, Cardinality(SlotsOf(m)')}
    <3>1. CASE m \notin M
      BY <2>1, <2>2, <3>1
    <3>2. CASE m \in M
      <4>1. IsFiniteSet(SlotsOf(m)) /\ Cardinality(SlotsOf(m)) \in Nat
        BY <2>3, SlotSets
      <4>2. Cardinality(SlotsOf(m)') = Cardinality(SlotsOf(m)) + 1
        BY <2>2, <2>3, <3>2, <4>1, FS_AddElement
      <4>3. expected[m] > 0 \/ SlotsOf(m) = {}
        BY <3>2 DEF OpenSlot, CanOpen, SlotsOf
      <4>4. expected[m] = Cardinality(SlotsOf(m))
        <5>1. CASE expected[m] > 0
          BY <2>1, <5>1
        <5>2. CASE SlotsOf(m) = {}
          <6>1. Cardinality(SlotsOf(m)) = 0
            BY <5>2, FS_EmptySet
          <6>2. QED
            BY <2>1, <6>1
        <5>3. QED
          BY <4>3, <5>1, <5>2
      <4>5. QED
        BY <2>1, <3>2, <4>2, <4>4
    <3>3. QED
      BY <3>1, <3>2
  <2>5. ASSUME LandedOnce(m)' PROVE done'[m] <= Cardinality(Landed(m)')
    <3>1. LandedOnce(m)
      BY <2>2, <2>5 DEF LandedOnce
    <3>2. Landed(m) \subseteq Landed(m)' /\ Landed(m)' \subseteq SlotIds
      BY <2>2, <2>3 DEF Landed
    <3>3. /\ Cardinality(Landed(m)) <= Cardinality(Landed(m)')
          /\ Cardinality(Landed(m)) \in Nat /\ Cardinality(Landed(m)') \in Nat
      BY <3>2, SlotSets
    <3>4. QED
      BY <2>1, <3>1, <3>3
  <2>6. QED
    BY <2>4, <2>5
<1>6. QED
  BY <1>4, <1>5 DEF CountInv

\* A landing counts once, and the cycle fires no sooner than the last.
LEMMA RecordCounts ==
    ASSUME BarrierTypes, slots \in [SlotIds -> Slots], CountInv, UNCHANGED slots,
           NEW slot \in SlotIds \cup {NoSlot}, NEW committed \in BOOLEAN,
           RecordCycles(slot, committed)
    PROVE  /\ CountInv'
           /\ \A m \in Merchants :
                 fired'[m] /\ ~fired[m] => ~LandedOnce(m)' \/ Landed(m)' = SlotsOf(m)
<1>1. \A s \in SlotIds : landings'[s] = landings[s] + (IF s = slot THEN 1 ELSE 0)
  BY RecordStep
<1>2. \A s \in SlotIds : landings[s] \in Nat
  BY DEF BarrierTypes
<1>3. ASSUME NEW m \in Merchants
      PROVE  /\ SlotsOf(m)' = SlotsOf(m) /\ SlotsOf(m) \subseteq SlotIds
             /\ slot \in SlotsOf(m) <=> m \in MerchantsOf(slot)
             /\ done[m] \in Nat /\ expected[m] \in {0, Cardinality(SlotsOf(m))}
             /\ done'[m] = done[m] + (IF m \in MerchantsOf(slot) THEN 1 ELSE 0)
             /\ expected'[m] = expected[m]
             /\ fired'[m] /\ ~fired[m] => /\ m \in MerchantsOf(slot) /\ expected[m] > 0
                                          /\ done[m] + 1 >= expected[m]
  <2>1. 0 \notin SlotIds
    BY PipelineAssumption DEF SlotIds
  <2>2. slot \in SlotsOf(m) <=> m \in MerchantsOf(slot)
    BY <2>1 DEF SlotsOf, MerchantsOf, NoSlot
  <2>3. /\ done'[m] = done[m] + (IF m \in MerchantsOf(slot) THEN 1 ELSE 0)
        /\ expected' = expected
        /\ fired'[m] /\ ~fired[m] => /\ m \in MerchantsOf(slot) /\ expected[m] > 0
                                     /\ done[m] + 1 >= expected[m]
    BY DEF RecordCycles
  <2>4. done[m] \in Nat
    BY DEF BarrierTypes
  <2>5. expected[m] \in {0, Cardinality(SlotsOf(m))}
    BY DEF CountInv
  <2>6. SlotsOf(m)' = SlotsOf(m) /\ SlotsOf(m) \subseteq SlotIds
    BY DEF SlotsOf
  <2>7. QED
    BY <2>2, <2>3, <2>4, <2>5, <2>6
<1>4. ASSUME NEW m \in Merchants, LandedOnce(m)' PROVE done'[m] <= Cardinality(Landed(m)')
  <2>1. LandedOnce(m) /\ (slot \in SlotsOf(m) => slot \notin Landed(m))
    BY <1>1, <1>2, <1>3, <1>4 DEF LandedOnce, Landed
  <2>2. done[m] <= Cardinality(Landed(m)) /\ Landed(m) \subseteq SlotIds
    BY <1>3, <2>1 DEF CountInv, Landed
  <2>3. IsFiniteSet(Landed(m)) /\ Cardinality(Landed(m)) \in Nat
    BY <2>2, SlotSets
  <2>4. CASE slot \in SlotsOf(m)
    <3>1. Landed(m)' = Landed(m) \cup {slot}
      BY <1>1, <1>2, <1>3, <2>4 DEF Landed
    <3>2. Cardinality(Landed(m)') = Cardinality(Landed(m)) + 1
      BY <2>1, <2>3, <2>4, <3>1, FS_AddElement
    <3>3. QED
      BY <1>3, <2>2, <2>3, <2>4, <3>2
  <2>5. CASE slot \notin SlotsOf(m)
    <3>1. Landed(m)' = Landed(m)
      BY <1>1, <1>2, <1>3, <2>5 DEF Landed
    <3>2. QED
      BY <1>3, <2>2, <2>3, <2>5, <3>1
  <2>6. QED
    BY <2>4, <2>5
<1>5. CountInv'
  BY <1>3, <1>4 DEF CountInv
<1>6. ASSUME NEW m \in Merchants, fired'[m], ~fired[m], LandedOnce(m)'
      PROVE  Landed(m)' = SlotsOf(m)
  <2>1. Landed(m)' \subseteq SlotsOf(m) /\ SlotsOf(m) \subseteq SlotIds
    BY <1>3, <1>6 DEF Landed
  <2>2. /\ Cardinality(Landed(m)') <= Cardinality(SlotsOf(m))
        /\ Cardinality(Landed(m)') \in Nat /\ Cardinality(SlotsOf(m)) \in Nat
        /\ Cardinality(SlotsOf(m)) = Cardinality(Landed(m)') => SlotsOf(m) = Landed(m)'
    BY <2>1, SlotSets
  <2>3. done'[m] = done[m] + 1 /\ done[m] + 1 >= Cardinality(SlotsOf(m))
    BY <1>3, <1>6
  <2>4. done'[m] <= Cardinality(Landed(m)') /\ done[m] \in Nat
    BY <1>3, <1>4, <1>6
  <2>5. QED
    BY <2>2, <2>3, <2>4
<1>7. QED
  BY <1>5, <1>6

LEMMA CountStep ==
    ASSUME TypeInv, CountInv, [Next]_vars
    PROVE  /\ CountInv'
           /\ \A m \in Merchants : fired'[m] /\ ~fired[m] =>
                 ~LandedOnce(m)' \/ (Landed(m)' = SlotsOf(m) /\ UNCHANGED slots)
<1>1. BarrierTypes /\ slots \in [SlotIds -> Slots]
  BY DEF TypeInv, TypeOK, BarrierTypes, Slots
<1>2. CASE UNCHANGED barrier /\ UNCHANGED slots
  BY <1>2 DEF barrier, CountInv, SlotsOf, Landed, LandedOnce
<1>3. ASSUME NEW u \in Urls, NEW s \in SlotIds, Dispatch(u, s) \/ DispatchCrash(u, s)
      PROVE  CountInv' /\ UNCHANGED fired
  <2>1. Trackers[u] \subseteq Merchants
    BY PipelineAssumption
  <2>2. \E M \in SUBSET Merchants, queued \in BOOLEAN : OpenSlot(s, M, queued)
    BY <1>3, <2>1 DEF Dispatch, DispatchCrash
  <2>3. UNCHANGED <<done, landings, fired>>
    BY <1>3 DEF Dispatch, DispatchCrash
  <2>4. QED
    BY <1>1, <2>2, <2>3, OpenCounts
<1>4. ASSUME NEW r \in net, NEW committed \in BOOLEAN, UNCHANGED slots,
             RecordCycles(jobs[r.job].slot, committed)
      PROVE  /\ CountInv'
             /\ \A m \in Merchants :
                   fired'[m] /\ ~fired[m] => ~LandedOnce(m)' \/ Landed(m)' = SlotsOf(m)
  <2>1. jobs[r.job].slot \in SlotIds \cup {NoSlot}
    BY DEF TypeInv, TypeOK, Requests
  <2>2. QED
    BY <1>1, <1>4, <2>1, RecordCounts
<1>5. ASSUME NEW m \in Merchants, CycleKeyExpires(m)
      PROVE  CountInv' /\ \A n \in Merchants : fired'[n] => fired[n]
  <2>1. /\ UNCHANGED <<slots, landings>> /\ BarrierTypes'
        /\ \A n \in Merchants : /\ expected'[n] \in {0, expected[n]}
                                /\ done'[n] <= done[n]
                                /\ fired'[n] => fired[n]
    BY <1>1, <1>5, ExpiryStep
  <2>2. ASSUME NEW n \in Merchants
        PROVE  /\ expected'[n] \in {0, Cardinality(SlotsOf(n)')}
               /\ LandedOnce(n)' => done'[n] <= Cardinality(Landed(n)')
    <3>1. /\ SlotsOf(n)' = SlotsOf(n) /\ Landed(n)' = Landed(n) /\ (LandedOnce(n)' <=> LandedOnce(n))
          /\ Landed(n) \subseteq SlotIds
      BY <2>1 DEF SlotsOf, Landed, LandedOnce
    <3>2. Cardinality(Landed(n)) \in Nat
      BY <3>1, SlotSets
    <3>3. done[n] \in Nat /\ done'[n] \in Nat
      BY <1>1, <2>1 DEF BarrierTypes
    <3>4. /\ expected[n] \in {0, Cardinality(SlotsOf(n))}
          /\ LandedOnce(n) => done[n] <= Cardinality(Landed(n))
      BY DEF CountInv
    <3>5. expected'[n] \in {0, expected[n]} /\ done'[n] <= done[n]
      BY <2>1
    <3>6. expected'[n] \in {0, Cardinality(SlotsOf(n)')}
      BY <3>1, <3>4, <3>5
    <3>7. LandedOnce(n)' => done'[n] <= Cardinality(Landed(n)')
      BY <3>1, <3>2, <3>3, <3>4, <3>5
    <3>8. QED
      BY <3>6, <3>7
  <2>3. \A t \in SlotIds : ~slots'[t].open => slots'[t].merchants = {}
    BY <2>1 DEF CountInv
  <2>4. CountInv'
    BY <2>2, <2>3 DEF CountInv
  <2>5. QED
    BY <2>1, <2>4
<1>6. CASE UNCHANGED slots
  <2>1. CASE UNCHANGED barrier
    BY <1>2, <1>6, <2>1 DEF barrier
  <2>2. QED
    BY <1>3, <1>4, <1>5, <1>6, <2>1, BarrierMoves
<1>7. CASE ~UNCHANGED slots
  <2>1. \E u \in Urls, s \in SlotIds : Dispatch(u, s) \/ DispatchCrash(u, s)
    BY <1>1, <1>7, SlotsStep
  <2>2. QED
    BY <1>3, <2>1
<1>8. QED
  BY <1>6, <1>7
-----------------------------------------------------------------------------
LEMMA TypeHolds == Spec => []TypeInv
BY TypeStarts, TypeStep, PTL DEF Spec

\* Queues, requests, rows and counters keep their types, for any instance.
THEOREM PipelineTypeCorrect == Spec => []TypeOK
<1>1. TypeInv => TypeOK
  BY DEF TypeInv
<1>2. QED
  BY <1>1, TypeHolds, PTL

\* record_scrape, with expiring keys: a cycle fires only when every slot opened in
\* it so far has landed, unless one of them landed twice.
THEOREM FiresNoSooner == Spec => FiresWhenLanded
<1>1. Init => CountInv
  <2>1. SUFFICES ASSUME Init PROVE CountInv
    OBVIOUS
  <2>2. \A m \in Merchants : SlotsOf(m) = {} /\ Landed(m) = {} /\ expected[m] = 0 /\ done[m] = 0
    BY <2>1 DEF Init, FreeSlot, SlotsOf, Landed
  <2>3. \A m \in Merchants : Cardinality(Landed(m)) = 0
    BY <2>2, FS_EmptySet
  <2>4. \A s \in SlotIds : slots[s].merchants = {}
    BY <2>1 DEF Init, FreeSlot
  <2>5. QED
    BY <2>2, <2>3, <2>4 DEF CountInv
<1>2. TypeInv /\ CountInv /\ [Next]_vars => CountInv'
  BY CountStep
<1>3. TypeInv /\ CountInv /\ [Next]_vars =>
        [\A m \in Merchants :
            fired'[m] /\ ~fired[m] =>
                \/ \A s \in SlotsOf(m) : landings'[s] > 0
                \/ \E s \in SlotsOf(m) : landings'[s] > 1]_vars
  <2>1. SUFFICES ASSUME TypeInv, CountInv, [Next]_vars, NEW m \in Merchants,
                        fired'[m], ~fired[m]
                 PROVE  \/ \A s \in SlotsOf(m) : landings'[s] > 0
                        \/ \E s \in SlotsOf(m) : landings'[s] > 1
    OBVIOUS
  <2>2. ~LandedOnce(m)' \/ (Landed(m)' = SlotsOf(m) /\ UNCHANGED slots)
    BY <2>1, CountStep
  <2>3. \A s \in SlotIds : landings'[s] \in Nat
    <3>1. BarrierTypes
      BY <2>1 DEF TypeInv, TypeOK, BarrierTypes
    <3>2. QED
      BY <2>1, <3>1, BarrierStep DEF BarrierTypes
  <2>4. CASE ~LandedOnce(m)'
    <3>1. PICK s \in SlotsOf(m)' : ~(landings'[s] <= 1)
      BY <2>4 DEF LandedOnce
    <3>2. UNCHANGED slots
      <4>1. BarrierTypes /\ slots \in [SlotIds -> Slots]
        BY <2>1 DEF TypeInv, TypeOK, BarrierTypes, Slots
      <4>2. CASE ~UNCHANGED slots
        <5>1. \E u \in Urls, t \in SlotIds : Dispatch(u, t) \/ DispatchCrash(u, t)
          BY <2>1, <4>1, <4>2, SlotsStep
        <5>2. UNCHANGED fired
          BY <5>1 DEF Dispatch, DispatchCrash
        <5>3. QED
          BY <2>1, <5>2
      <4>3. QED
        BY <4>2
    <3>3. s \in SlotsOf(m) /\ s \in SlotIds
      BY <3>1, <3>2 DEF SlotsOf
    <3>4. landings'[s] > 1
      BY <2>3, <3>1, <3>3
    <3>5. QED
      BY <3>3, <3>4
  <2>5. CASE Landed(m)' = SlotsOf(m) /\ UNCHANGED slots
    BY <2>5 DEF Landed
  <2>6. QED
    BY <2>2, <2>4, <2>5
<1>4. QED
  BY <1>1, <1>2, <1>3, TypeHolds, PTL DEF Spec, FiresWhenLanded

LEMMA RowsInvHolds == Spec => []RowsInv
<1>1. Init => RowsInv
  BY DEF Init, RowsInv
<1>2. TypeInv /\ RowsInv /\ [Next]_vars => RowsInv'
  <2>1. TypeInv => BarrierTypes /\ StoredTypes
    BY DEF TypeInv, TypeOK, BarrierTypes, StoredTypes
  <2>2. QED
    BY <2>1, JobsStep, StoredStep
<1>3. QED
  BY <1>1, <1>2, TypeHolds, PTL DEF Spec

\* _ingest: whatever transaction fails and whatever response is lost, a stored
\* snapshot of a dispatched scrape has advanced the barrier.
THEOREM StoredRowsHaveLanded == Spec => []RowsHaveLanded
<1>1. RowsInv => RowsHaveLanded
  BY DEF RowsInv, RowsHaveLanded
<1>2. QED
  BY <1>1, RowsInvHolds, PTL

\* Handovers, reclassification, retries, stalls, lost responses and failed
\* transactions never drop a slot: one that has not landed still has a job or a
\* request under way, or its dispatcher died, or one of its jobs ended silently.
THEOREM NoSlotDropped == Spec => []UnlandedSlotsExplained
<1>1. Init => SlotsInv
  BY DEF Init, SlotsInv, FreeSlot
<1>2. SlotsInv => UnlandedSlotsExplained
  <2>1. ASSUME NEW j \in JobIds, NEW s \in SlotIds, jobs[j].slot = s, Carries(j)
        PROVE  Pending(s) \/ \E k \in JobIds : jobs[k].slot = s /\ EndedSilently(k)
    BY <2>1 DEF Carries, Dropped, Pending, Live, EndedSilently
  <2>2. QED
    BY <2>1 DEF SlotsInv, UnlandedSlotsExplained
<1>3. QED
  BY <1>1, <1>2, SlotsInvStep, TypeHolds, RowsInvHolds, PTL DEF Spec
=============================================================================
