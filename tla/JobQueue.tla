------------------------------ MODULE JobQueue ------------------------------
(***************************************************************************)
(* The in-process worker pool over background_jobs: claiming, execution,   *)
(* retry, cancellation through the jobs API, the stall reaper, the bounded *)
(* drain at shutdown, and the recovery of orphans at boot.                 *)
(*                                                                         *)
(* One action is one database transaction (or one await-free stretch of a  *)
(* task), so that a row read by one task may change before that task       *)
(* writes it.  A worker keeps one session for its whole life, opened with  *)
(* expire_on_commit=False: what it knows of cancel_requested is the copy   *)
(* its last refresh loaded (seen), until a rollback expires that copy.     *)
(***************************************************************************)
EXTENDS JobTable

CONSTANTS
    Generic, Ingest, Vector,  \* the configured worker counts
    EnqueuedTypes,            \* job types the environment enqueues
    MaxStops                  \* bound: crashes plus orderly shutdowns

ASSUME PoolAssumption ==
    /\ Generic \in Nat /\ Ingest \in Nat /\ Vector \in Nat
    /\ EnqueuedTypes \subseteq JobTypes
    /\ MaxStops \in Nat

VARIABLES
    rows,    \* the background_jobs table
    pc,      \* where each worker task stands
    cur,     \* the row each worker selected or runs
    seen,    \* each worker session's copy of the row's cancel_requested
    out,     \* the status each worker has decided to write
    caller,  \* a cancel_job request: the row and the status it read
    reaper,  \* the rows a reap_stale_runs pass has read as stalled
    phase,   \* the process: "down", "up", "draining" or "drained"
    stops    \* crashes and shutdowns so far

taskVars == <<pc, cur, seen, out>>

vars == <<rows, pc, cur, seen, out, caller, reaper, phase, stops>>

(* The drain at shutdown is one more claimant beside the configured ones.   *)
DrainWorker == 0

PoolWorkers == 1..(Generic + Ingest + Vector)

Workers == {DrainWorker} \cup PoolWorkers

Excluded ==
    (IF Ingest > 0 THEN INGEST_JOB_TYPES ELSE {})
        \cup (IF Vector > 0 THEN VECTOR_JOB_TYPES ELSE {})

(* Mutant: the generic pool keeps the families that have a lane.            *)
worker_specs_overlap(w) ==
    CASE w = DrainWorker                      -> JobTypes
      [] w \in 1..Generic                     -> JobTypes
      [] w \in (Generic + 1)..(Generic + Ingest) -> INGEST_JOB_TYPES
      [] OTHER                                -> VECTOR_JOB_TYPES

(* worker_specs: the job types each worker claims.  The drain builds a      *)
(* JobWorker without filters.                                               *)
worker_specs(w) ==
    CASE w = DrainWorker                      -> JobTypes
      [] w \in 1..Generic                     -> JobTypes \ Excluded
      [] w \in (Generic + 1)..(Generic + Ingest) -> INGEST_JOB_TYPES
      [] OTHER                                -> VECTOR_JOB_TYPES

PcValues ==
    {"off", "idle", "selected", "claimed", "running", "writing", "dead"}

NoCaller == [job |-> NoJob, saw |-> "queued"]

(* Types of the table, the worker tasks and the process.                    *)
TypeOK ==
    /\ rows \in [JobIds -> Row]
    /\ pc \in [Workers -> PcValues]
    /\ cur \in [Workers -> JobIds \cup {NoJob}]
    /\ seen \in [Workers -> {"set", "clear", "expired"}]
    /\ out \in [Workers -> Outcomes]
    /\ caller \in [job : JobIds \cup {NoJob}, saw : Statuses]
    /\ reaper \in SUBSET JobIds
    /\ phase \in {"down", "up", "draining", "drained"}
    /\ stops \in Nat
    /\ \A w \in Workers :
        pc[w] \in {"selected", "claimed", "running", "writing"} => cur[w] \in JobIds

(* A task that holds no row.                                                *)
Drop(w) ==
    /\ cur' = [cur EXCEPT ![w] = NoJob]
    /\ seen' = [seen EXCEPT ![w] = "clear"]
    /\ out' = [out EXCEPT ![w] = "succeeded"]

NoTasks ==
    /\ pc' = [w \in Workers |-> "off"]
    /\ cur' = [w \in Workers |-> NoJob]
    /\ seen' = [w \in Workers |-> "clear"]
    /\ out' = [w \in Workers |-> "succeeded"]

Init ==
    /\ rows = [j \in JobIds |-> AbsentRow]
    /\ pc = [w \in Workers |-> "off"]
    /\ cur = [w \in Workers |-> NoJob]
    /\ seen = [w \in Workers |-> "clear"]
    /\ out = [w \in Workers |-> "succeeded"]
    /\ caller = NoCaller
    /\ reaper = {}
    /\ phase = "down"
    /\ stops = 0

-----------------------------------------------------------------------------
(* Producers                                                                *)

(* enqueue, and for a bulk vector run enqueue_retrieval_job: the insert     *)
(* that the unique indexes refuse is answered with a conflict.              *)
Enqueue(type, lock) ==
    /\ phase # "down"
    /\ lock # NoLock <=> type \in LOCKED_JOB_TYPES
    /\ \E j \in JobIds :
        /\ NextFree(rows, j)
        /\ rows' = [rows EXCEPT ![j] =
                        NewRow(type, "queued", MaxAttempts, lock, NoKey)]
    /\ UniqueIndexes(rows')
    /\ UNCHANGED <<taskVars, caller, reaper, phase, stops>>

-----------------------------------------------------------------------------
(* JobWorker.run_once                                                       *)

(* run_once returned False: a pool worker sleeps and polls again, while the *)
(* drain's while loop ends, whatever the reason there was nothing to run.   *)
NothingRun(w) ==
    IF w = DrainWorker
    THEN pc' = [pc EXCEPT ![w] = "off"] /\ phase' = "drained"
    ELSE pc' = [pc EXCEPT ![w] = "idle"] /\ phase' = phase

SelectOldest(w) ==
    /\ pc[w] = "idle"
    /\ \E j \in JobIds :
        /\ OldestQueued(rows, worker_specs(w), j)
        /\ cur' = [cur EXCEPT ![w] = j]
    /\ pc' = [pc EXCEPT ![w] = "selected"]
    /\ UNCHANGED <<rows, seen, out, caller, reaper, phase, stops>>

SelectNone(w) ==
    /\ pc[w] = "idle"
    /\ \A j \in JobIds : ~OldestQueued(rows, worker_specs(w), j)
    /\ NothingRun(w)
    /\ UNCHANGED <<rows, cur, seen, out, caller, reaper, stops>>

(* Mutant: the claim's UPDATE takes any active row.                         *)
ClaimWon_active(w) ==
    /\ pc[w] = "selected"
    /\ Active(rows, cur[w])
    /\ rows' = Claim(rows, cur[w])
    /\ pc' = [pc EXCEPT ![w] = "claimed"]
    /\ UNCHANGED <<cur, seen, out, caller, reaper, phase, stops>>

ClaimWon(w) ==
    /\ pc[w] = "selected"
    /\ rows[cur[w]].status = "queued"
    /\ rows' = Claim(rows, cur[w])
    /\ pc' = [pc EXCEPT ![w] = "claimed"]
    /\ UNCHANGED <<cur, seen, out, caller, reaper, phase, stops>>

ClaimLost(w) ==
    /\ pc[w] = "selected"
    /\ rows[cur[w]].status # "queued"
    /\ Drop(w)
    /\ NothingRun(w)
    /\ UNCHANGED <<rows, caller, reaper, stops>>

Flag(j) == IF rows[j].cancel_requested THEN "set" ELSE "clear"

(* db.refresh(job) after the claim committed: the session's copy.           *)
Refresh(w) ==
    /\ pc[w] = "claimed"
    /\ pc' = [pc EXCEPT ![w] = "running"]
    /\ seen' = [seen EXCEPT ![w] = Flag(cur[w])]
    /\ UNCHANGED <<rows, cur, out, caller, reaper, phase, stops>>

Progress(w) ==
    /\ pc[w] = "running"
    /\ rows' = Beat(rows, cur[w])
    /\ UNCHANGED <<taskVars, caller, reaper, phase, stops>>

(* A handler that rolls its session back expires the loaded copy.           *)
HandlerRollback(w) ==
    /\ pc[w] = "running"
    /\ seen' = [seen EXCEPT ![w] = "expired"]
    /\ UNCHANGED <<rows, pc, cur, out, caller, reaper, phase, stops>>

(* What db.get answers: the loaded copy, or the row when it expired.        *)
Observed(w) == IF seen[w] = "expired" THEN Flag(cur[w]) ELSE seen[w]

(* The handler asks cancelled(); an expired copy is loaded again.           *)
CheckCancelled(w) ==
    /\ pc[w] = "running"
    /\ seen' = [seen EXCEPT ![w] = Observed(w)]
    /\ UNCHANGED <<rows, pc, cur, out, caller, reaper, phase, stops>>

(* The handler returned: execute reads the flag once more and decides.      *)
HandlerReturns(w) ==
    /\ pc[w] = "running"
    /\ pc' = [pc EXCEPT ![w] = "writing"]
    /\ out' = [out EXCEPT ![w] =
                  IF Observed(w) = "set" THEN "cancelled" ELSE "succeeded"]
    /\ UNCHANGED <<rows, cur, seen, caller, reaper, phase, stops>>

(* Mutant: one retry too many.                                              *)
FailDecision_off_by_one(row) ==
    IF row.cancel_requested THEN "cancelled"
    ELSE IF row.attempts <= row.max_attempts THEN "queued"
    ELSE "failed"

(* What _fail decides from the row it reads after its rollback.             *)
FailDecision(row) ==
    IF row.cancel_requested THEN "cancelled"
    ELSE IF row.attempts < row.max_attempts THEN "queued"
    ELSE "failed"

(* The handler raised: _fail rolls back and reads the row.                  *)
HandlerRaises(w) ==
    /\ pc[w] = "running"
    /\ pc' = [pc EXCEPT ![w] = "writing"]
    /\ out' = [out EXCEPT ![w] = FailDecision(rows[cur[w]])]
    /\ seen' = [seen EXCEPT ![w] = Flag(cur[w])]
    /\ UNCHANGED <<rows, cur, caller, reaper, phase, stops>>

(* Mutant: the task forgets the row but not that it was writing it.         *)
WriteOutcome_unreset(w) ==
    /\ pc[w] = "writing"
    /\ UniqueIndexes(SetStatus(rows, cur[w], out[w]))
    /\ rows' = SetStatus(rows, cur[w], out[w])
    /\ Drop(w)
    /\ UNCHANGED <<pc, caller, reaper, phase, stops>>

(* _finish, or the requeue of _fail: an UPDATE by id, with no condition on  *)
(* the status the row has meanwhile.                                        *)
WriteOutcome(w) ==
    /\ pc[w] = "writing"
    /\ UniqueIndexes(SetStatus(rows, cur[w], out[w]))
    /\ rows' = SetStatus(rows, cur[w], out[w])
    /\ pc' = [pc EXCEPT ![w] = "idle"]
    /\ Drop(w)
    /\ UNCHANGED <<caller, reaper, phase, stops>>

(* The write would give a second active row the same lock or key: the       *)
(* IntegrityError leaves run_forever and the task is gone; a drain's error  *)
(* is caught by the lifespan, which goes on to stop the workers.            *)
WriteRefused(w) ==
    /\ pc[w] = "writing"
    /\ ~UniqueIndexes(SetStatus(rows, cur[w], out[w]))
    /\ Drop(w)
    /\ IF w = DrainWorker
       THEN pc' = [pc EXCEPT ![w] = "off"] /\ phase' = "drained"
       ELSE pc' = [pc EXCEPT ![w] = "dead"] /\ phase' = phase
    /\ UNCHANGED <<rows, caller, reaper, stops>>

-----------------------------------------------------------------------------
(* cancel_job, in two steps: the row is read, then written by id            *)

CancelRead(j) ==
    /\ phase = "up"
    /\ caller.job = NoJob
    /\ Active(rows, j)
    /\ caller' = [job |-> j, saw |-> rows[j].status]
    /\ UNCHANGED <<rows, taskVars, reaper, phase, stops>>

CancelCommit ==
    /\ caller.job # NoJob
    /\ rows' = IF caller.saw = "queued"
               THEN SetStatus(rows, caller.job, "cancelled")
               ELSE RequestCancel(rows, caller.job)
    /\ caller' = NoCaller
    /\ UNCHANGED <<taskVars, reaper, phase, stops>>

-----------------------------------------------------------------------------
(* The stall reaper                                                         *)

(* The stale window passes without a progress tick of row j.                *)
HeartbeatExpires(j) ==
    /\ rows[j].type \in VECTOR_JOB_TYPES
    /\ rows[j].status = "running"
    /\ rows[j].beat = "fresh"
    /\ rows' = Stale(rows, j)
    /\ UNCHANGED <<taskVars, caller, reaper, phase, stops>>

ReapRead ==
    /\ phase # "down"
    /\ reaper = {}
    /\ Stalled(rows) # {}
    /\ reaper' = Stalled(rows)
    /\ UNCHANGED <<rows, taskVars, caller, phase, stops>>

ReapCommit ==
    /\ reaper # {}
    /\ rows' = Reap(rows, reaper)
    /\ reaper' = {}
    /\ UNCHANGED <<taskVars, caller, phase, stops>>

-----------------------------------------------------------------------------
(* The process                                                              *)

(* Every task is gone; rows keep the status the last commit gave them.      *)
Halt ==
    /\ phase' = "down"
    /\ NoTasks
    /\ caller' = NoCaller
    /\ reaper' = {}
    /\ UNCHANGED rows

Crash ==
    /\ phase # "down"
    /\ stops < MaxStops
    /\ stops' = stops + 1
    /\ Halt

(* The lifespan's finally: the drain starts while the pool still runs.      *)
BeginShutdown ==
    /\ phase = "up"
    /\ caller = NoCaller
    /\ stops < MaxStops
    /\ stops' = stops + 1
    /\ phase' = "draining"
    /\ pc' = [pc EXCEPT ![DrainWorker] = "idle"]
    /\ UNCHANGED <<rows, cur, seen, out, caller, reaper>>

(* The drain ended, or its wait_for timed out: the tasks are cancelled.     *)
StopWorkers ==
    /\ phase \in {"draining", "drained"}
    /\ Halt
    /\ UNCHANGED stops

(* start_workers: reap, recover the orphans, then start the pool.           *)
Boot ==
    /\ phase = "down"
    /\ rows' = RecoverOrphans(Reap(rows, Stalled(rows)))
    /\ pc' = [w \in Workers |-> IF w \in PoolWorkers THEN "idle" ELSE "off"]
    /\ phase' = "up"
    /\ UNCHANGED <<cur, seen, out, caller, reaper, stops>>

-----------------------------------------------------------------------------

HandlerEnds(w) == HandlerReturns(w) \/ HandlerRaises(w)

Finish(w) == WriteOutcome(w) \/ WriteRefused(w)

(* The steps of a worker task that its own loop drives.                     *)
TaskStep(w) ==
    \/ SelectOldest(w) \/ SelectNone(w)
    \/ ClaimWon(w) \/ ClaimLost(w) \/ Refresh(w)
    \/ Finish(w)

WorkerStep(w) ==
    \/ TaskStep(w)
    \/ Progress(w) \/ HandlerRollback(w) \/ CheckCancelled(w)
    \/ HandlerEnds(w)

ReaperStep == ReapRead \/ ReapCommit \/ \E j \in JobIds : HeartbeatExpires(j)

CancelStep == CancelCommit \/ \E j \in JobIds : CancelRead(j)

ProcessStep == Crash \/ BeginShutdown \/ StopWorkers \/ Boot

Next ==
    \/ \E type \in EnqueuedTypes, lock \in Spaces \cup {NoLock} : Enqueue(type, lock)
    \/ \E w \in Workers : WorkerStep(w)
    \/ CancelStep
    \/ ReaperStep
    \/ ProcessStep

Spec == Init /\ [][Next]_vars

(* Fairness.  A task whose await is over runs; the asyncio loop and the     *)
(* database keep serving it.  A handler that is not one of the hanging      *)
(* types returns or raises.  A shutdown ends (wait_for bounds the drain)    *)
(* and a stopped process is started again.                                  *)
HandlerEndsUnlessHanging(w, hanging) ==
    HandlerEnds(w) /\ rows[cur[w]].type \notin hanging

Fairness(hanging) ==
    /\ \A w \in Workers :
        WF_vars(TaskStep(w)) /\ WF_vars(HandlerEndsUnlessHanging(w, hanging))
    /\ WF_vars(StopWorkers)
    /\ WF_vars(Boot)

-----------------------------------------------------------------------------
(* Properties                                                               *)

Executing(w) == pc[w] \in {"claimed", "running", "writing"}

(* No job is executed by two workers at once, and a job some worker still   *)
(* executes is never back in the queue where another could claim it: the    *)
(* claim of claim_next arbitrates, whatever the pool, the drain, the        *)
(* cancel API, the reaper and the boot recovery do in between.              *)
ExclusiveExecution ==
    /\ \A w, v \in Workers :
        (w # v /\ Executing(w) /\ Executing(v)) => cur[w] # cur[v]
    /\ \A w \in Workers : Executing(w) => rows[cur[w]].status # "queued"

(* No handler starts more often than max_attempts allows, and a queued row  *)
(* always has an attempt left: _fail and recover_orphans both count,        *)
(* across retries, crashes and restarts.                                    *)
AttemptBudget ==
    \A j \in JobIds :
        /\ rows[j].attempts <= rows[j].max_attempts
        /\ rows[j].status = "queued" => rows[j].attempts < rows[j].max_attempts

(* While the process lives, a row that says running has a worker that       *)
(* executes it: nothing is left running that nobody will ever finish        *)
(* before the next boot.                                                    *)
NoOrphanWhileUp ==
    phase # "down" =>
        \A j \in JobIds :
            rows[j].status = "running" =>
                \E w \in Workers : Executing(w) /\ cur[w] = j

(* The strengthening that makes the three properties above inductive.       *)

(* Tasks exist only while the process does, the drain only while it drains. *)
ProcessShape ==
    /\ phase = "down" => \A w \in Workers : pc[w] = "off"
    /\ pc[DrainWorker] # "off" => phase = "draining"

(* A worker executes a row of the table ...                                 *)
ExecutedRowExists ==
    \A w \in Workers : Executing(w) => rows[cur[w]].status # "absent"

(* ... and a decision to requeue it was taken within its budget.            *)
RequeueWithinBudget ==
    \A w \in Workers :
        (pc[w] = "writing" /\ out[w] = "queued") =>
            rows[cur[w]].attempts < rows[cur[w]].max_attempts

(* What holds whoever else writes rows beside the pool.                     *)
PoolCore ==
    /\ TypeOK
    /\ ExclusiveExecution
    /\ AttemptBudget
    /\ UniqueIndexes(rows)
    /\ ProcessShape
    /\ ExecutedRowExists
    /\ RequeueWithinBudget

PoolInvariant == PoolCore /\ NoOrphanWhileUp

(* A row in a terminal status that no worker executes, no cancel request    *)
(* has read and no reaper pass has read keeps its status for good: only     *)
(* late unconditional writes can move it, and a requeue is a fresh row.     *)
Settled(j) ==
    /\ Terminal(rows, j)
    /\ \A w \in Workers : ~(Executing(w) /\ cur[w] = j)
    /\ caller.job # j
    /\ j \notin reaper

SettledKept == \A j \in JobIds : Settled(j) => rows'[j].status = rows[j].status

SettledStaysSettled == [][SettledKept]_vars

(* What the cancel endpoints promise: a running job asked to stop before    *)
(* its handler ended is not recorded as succeeded.                          *)
CancelHonoured ==
    [][\A w \in Workers :
        (HandlerReturns(w) /\ rows[cur[w]].cancel_requested)
            => out'[w] # "succeeded"]_vars

(* The purpose of the lanes: with the ingest family on its own worker, a    *)
(* sync that never ends cannot keep any other job from settling; only a     *)
(* worker task that died of a refused requeue can.                          *)
OthersSettle ==
    \A j \in JobIds :
        (rows[j].status = "queued" /\ rows[j].type \notin INGEST_JOB_TYPES)
            ~> Terminal(rows, j) \/ \E w \in Workers : pc[w] = "dead"
=============================================================================
