--------------------------- MODULE JobQueueProofs ---------------------------
(* The safety of the worker pool, for every number of workers, rows,        *)
(* attempts and restarts.                                                   *)
EXTENDS JobQueue, TLAPS

USE DEF NoJob

-----------------------------------------------------------------------------
(* What the statements on the table do to one row.                          *)

(* _finish and the requeue of _fail change the status of one row only.      *)
LEMMA SetStatusFacts ==
    ASSUME NEW t \in [JobIds -> Row], NEW j \in JobIds, NEW s \in Statuses
    PROVE  /\ SetStatus(t, j, s) \in [JobIds -> Row]
           /\ SetStatus(t, j, s)[j].status = s
           /\ \A i \in JobIds : i # j => SetStatus(t, j, s)[i] = t[i]
           /\ \A i \in JobIds :
                /\ SetStatus(t, j, s)[i].attempts = t[i].attempts
                /\ SetStatus(t, j, s)[i].max_attempts = t[i].max_attempts
                /\ SetStatus(t, j, s)[i].lock_key = t[i].lock_key
                /\ SetStatus(t, j, s)[i].idempotency_key = t[i].idempotency_key
                /\ SetStatus(t, j, s)[i].type = t[i].type
BY DEF SetStatus, Row

(* A claim starts one row, counts the attempt, and leaves the others.       *)
LEMMA ClaimFacts ==
    ASSUME NEW t \in [JobIds -> Row], NEW j \in JobIds
    PROVE  /\ Claim(t, j) \in [JobIds -> Row]
           /\ Claim(t, j)[j].status = "running"
           /\ Claim(t, j)[j].attempts = t[j].attempts + 1
           /\ Claim(t, j)[j].max_attempts = t[j].max_attempts
           /\ Claim(t, j)[j].lock_key = t[j].lock_key
           /\ Claim(t, j)[j].idempotency_key = t[j].idempotency_key
           /\ Claim(t, j)[j].type = t[j].type
           /\ \A i \in JobIds : i # j => Claim(t, j)[i] = t[i]
<1> DEFINE r == [t[j] EXCEPT !.status = "running",
                             !.attempts = t[j].attempts + 1, !.beat = "fresh"]
<1>1. t[j] \in Row
    OBVIOUS
<1>9. t[j].attempts + 1 \in Nat /\ "running" \in Statuses
    BY <1>1 DEF Row, Statuses, ActiveStatuses
<1>2. r \in Row
    BY <1>1, <1>9 DEF Row
<1>3. /\ r.status = "running"
      /\ r.attempts = t[j].attempts + 1
      /\ r.max_attempts = t[j].max_attempts
      /\ r.lock_key = t[j].lock_key
      /\ r.idempotency_key = t[j].idempotency_key
      /\ r.type = t[j].type
    BY <1>1 DEF Row
<1>4. Claim(t, j) = [t EXCEPT ![j] = r]
    BY DEF Claim
<1> HIDE DEF r
<1>5. QED
    BY <1>2, <1>3, <1>4

(* The rows of t and u agree on everything the invariant speaks of.         *)
Alike(t, u) ==
    /\ u \in [JobIds -> Row]
    /\ \A i \in JobIds :
          /\ u[i].status = t[i].status
          /\ u[i].attempts = t[i].attempts
          /\ u[i].max_attempts = t[i].max_attempts
          /\ u[i].lock_key = t[i].lock_key
          /\ u[i].idempotency_key = t[i].idempotency_key
          /\ u[i].type = t[i].type

(* progress, an expiring heartbeat and a cancel request leave alike rows.   *)
LEMMA AlikeFacts ==
    ASSUME NEW t \in [JobIds -> Row], NEW j \in JobIds
    PROVE  Alike(t, Beat(t, j)) /\ Alike(t, Stale(t, j)) /\ Alike(t, RequestCancel(t, j))
<1>1. Alike(t, Beat(t, j))
    BY DEF Alike, Beat, Row
<1>2. Alike(t, Stale(t, j))
    BY DEF Alike, Stale, Row
<1>3. Alike(t, RequestCancel(t, j))
    BY DEF Alike, RequestCancel, Row
<1>4. QED
    BY <1>1, <1>2, <1>3

(* The reaper fails the rows it read and frees their locks, no others.      *)
LEMMA ReapFacts ==
    ASSUME NEW t \in [JobIds -> Row], NEW S \in SUBSET JobIds
    PROVE  /\ Reap(t, S) \in [JobIds -> Row]
           /\ \A i \in JobIds :
                /\ i \in S => Reap(t, S)[i].status = "failed"
                /\ i \notin S => Reap(t, S)[i] = t[i]
                /\ Reap(t, S)[i].attempts = t[i].attempts
                /\ Reap(t, S)[i].max_attempts = t[i].max_attempts
BY DEF Reap, Row, Statuses, TerminalStatuses

(* Boot recovery leaves no row running and requeues within the budget.      *)
LEMMA RecoverFacts ==
    ASSUME NEW t \in [JobIds -> Row]
    PROVE  /\ RecoverOrphans(t) \in [JobIds -> Row]
           /\ \A i \in JobIds :
                /\ t[i].status # "running" => RecoverOrphans(t)[i] = t[i]
                /\ t[i].status = "running" =>
                    /\ RecoverOrphans(t)[i].status \in {"queued", "failed"}
                    /\ RecoverOrphans(t)[i].status = "queued" =>
                        /\ t[i].attempts < t[i].max_attempts
                        /\ RecoverOrphans(t)[i].lock_key = t[i].lock_key
                /\ RecoverOrphans(t)[i].idempotency_key = t[i].idempotency_key
                /\ RecoverOrphans(t)[i].type = t[i].type
                /\ RecoverOrphans(t)[i].attempts = t[i].attempts
                /\ RecoverOrphans(t)[i].max_attempts = t[i].max_attempts
BY DEF RecoverOrphans, Recovered, Row, Statuses, ActiveStatuses, TerminalStatuses

(* A new row holds what the constructor was given, with no attempts.        *)
LEMMA NewRowFacts ==
    ASSUME NEW type \in JobTypes, NEW s \in Statuses, NEW max \in Nat,
           NEW lock \in Spaces \cup {NoLock}, NEW key \in Keys \cup {NoKey}
    PROVE  /\ NewRow(type, s, max, lock, key) \in Row
           /\ NewRow(type, s, max, lock, key).status = s
           /\ NewRow(type, s, max, lock, key).attempts = 0
           /\ NewRow(type, s, max, lock, key).max_attempts = max
           /\ NewRow(type, s, max, lock, key).lock_key = lock
           /\ NewRow(type, s, max, lock, key).idempotency_key = key
           /\ NewRow(type, s, max, lock, key).type = type
BY DEF NewRow, AbsentRow, Row

-----------------------------------------------------------------------------
(* The inductive step, one lemma per action.                                *)

(* After a step a row is left running only if a worker executes it, or if   *)
(* it was running before without one.                                       *)
RunningKept ==
    phase' # "down" =>
        \A i \in JobIds :
            rows'[i].status = "running" =>
                \/ \E w \in Workers : Executing(w)' /\ cur'[w] = i
                \/ /\ phase # "down" /\ rows[i].status = "running"
                   /\ \A w \in Workers : ~(Executing(w) /\ cur[w] = i)

(* The drain and the pool are the workers.                                  *)
LEMMA WorkersFacts == DrainWorker \in Workers /\ PoolWorkers \subseteq Workers
BY DEF Workers

(* Before the first boot the invariant holds.                               *)
LEMMA InitInv == Init => PoolInvariant
BY TableAssumption, NullAssumption, WorkersFacts
   DEF Init, PoolInvariant, PoolCore, TypeOK, ExclusiveExecution, AttemptBudget,
       NoOrphanWhileUp, UniqueIndexes, ProcessShape, ExecutedRowExists,
       RequeueWithinBudget, Executing, AbsentRow, Row, Active, ActiveStatuses, Statuses,
       TerminalStatuses, Outcomes, PcValues, NoCaller, JobTypes

(* claim_next's SELECT keeps the invariant.                                 *)
LEMMA SelectOldestInv ==
    ASSUME PoolCore, NEW w \in Workers, SelectOldest(w)
    PROVE  PoolCore' /\ RunningKept
BY DEF SelectOldest, PoolCore, TypeOK, ExclusiveExecution, AttemptBudget, RunningKept,
       UniqueIndexes, ProcessShape, ExecutedRowExists, RequeueWithinBudget,
       Executing, Active, PcValues

(* So does finding the lane empty.                                          *)
LEMMA SelectNoneInv ==
    ASSUME PoolCore, NEW w \in Workers, SelectNone(w)
    PROVE  PoolCore' /\ RunningKept
BY WorkersFacts DEF SelectNone, NothingRun, PoolCore, TypeOK, ExclusiveExecution, AttemptBudget,
       RunningKept, UniqueIndexes, ProcessShape, ExecutedRowExists,
       RequeueWithinBudget, Executing, Active, PcValues

(* So does a claim another worker won.                                      *)
LEMMA ClaimLostInv ==
    ASSUME PoolCore, NEW w \in Workers, ClaimLost(w)
    PROVE  PoolCore' /\ RunningKept
BY WorkersFacts DEF ClaimLost, NothingRun, Drop, Outcomes, TerminalStatuses,
       PoolCore, TypeOK, ExclusiveExecution, AttemptBudget,
       RunningKept, UniqueIndexes, ProcessShape, ExecutedRowExists,
       RequeueWithinBudget, Executing, Active, PcValues

(* The conditional UPDATE keeps it: a queued row has no executing worker.   *)
LEMMA ClaimWonInv ==
    ASSUME PoolCore, NEW w \in Workers, ClaimWon(w)
    PROVE  PoolCore' /\ RunningKept
<1> DEFINE j == cur[w]
<1>1. /\ j \in JobIds /\ rows \in [JobIds -> Row]
      /\ rows' = Claim(rows, j)
      /\ rows[j].status = "queued"
      /\ pc \in [Workers -> PcValues]
      /\ pc' = [pc EXCEPT ![w] = "claimed"]
      /\ UNCHANGED <<cur, seen, out, caller, reaper, phase, stops>>
    BY DEF ClaimWon, PoolCore, TypeOK
<1>2. /\ rows' \in [JobIds -> Row]
      /\ rows'[j].status = "running"
      /\ rows'[j].attempts = rows[j].attempts + 1
      /\ rows'[j].max_attempts = rows[j].max_attempts
      /\ rows'[j].lock_key = rows[j].lock_key
      /\ rows'[j].idempotency_key = rows[j].idempotency_key
      /\ rows'[j].type = rows[j].type
      /\ \A i \in JobIds : i # j => rows'[i] = rows[i]
    BY <1>1, ClaimFacts
<1>3. TypeOK'
    BY <1>1, <1>2 DEF PoolCore, TypeOK, PcValues
<1>4. ExclusiveExecution' /\ ExecutedRowExists'
    BY <1>1, <1>2 DEF PoolCore, TypeOK, ExclusiveExecution, ExecutedRowExists, Executing
<1>5. AttemptBudget'
    BY <1>1, <1>2 DEF PoolCore, TypeOK, AttemptBudget, Row
<1>6. RunningKept
    BY <1>1, <1>2 DEF PoolCore, RunningKept, Executing
<1>7. UniqueIndexes(rows)'
    BY <1>1, <1>2 DEF PoolCore, UniqueIndexes, Active, ActiveStatuses
<1>8. ProcessShape'
    BY <1>1, WorkersFacts DEF ClaimWon, PoolCore, ProcessShape
<1>9. RequeueWithinBudget'
  <2> SUFFICES ASSUME NEW v \in Workers, pc'[v] = "writing", out[v] = "queued"
               PROVE  rows'[cur[v]].attempts < rows'[cur[v]].max_attempts
    BY <1>1 DEF RequeueWithinBudget
  <2>1. v # w /\ pc[v] = "writing"
    BY <1>1
  <2>2. cur[v] \in JobIds /\ cur[v] # j
    BY <1>1, <2>1 DEF PoolCore, TypeOK, ExclusiveExecution, Executing
  <2>3. QED
    BY <1>2, <2>1, <2>2 DEF PoolCore, RequeueWithinBudget
<1>10. QED
    BY <1>3, <1>4, <1>5, <1>6, <1>7, <1>8, <1>9 DEF PoolCore

(* The refresh after the claim keeps it.                                    *)
LEMMA RefreshInv ==
    ASSUME PoolCore, NEW w \in Workers, Refresh(w)
    PROVE  PoolCore' /\ RunningKept
BY WorkersFacts DEF Refresh, Flag, PoolCore, TypeOK, ExclusiveExecution, AttemptBudget,
       RunningKept, UniqueIndexes, ProcessShape, ExecutedRowExists,
       RequeueWithinBudget, Executing, Active, PcValues

(* A rollback inside a handler keeps it.                                    *)
LEMMA HandlerRollbackInv ==
    ASSUME PoolCore, NEW w \in Workers, HandlerRollback(w)
    PROVE  PoolCore' /\ RunningKept
BY DEF HandlerRollback, PoolCore, TypeOK, ExclusiveExecution, AttemptBudget,
       RunningKept, UniqueIndexes, ProcessShape, ExecutedRowExists,
       RequeueWithinBudget, Executing, Active, PcValues

(* Reading the cancel flag keeps it.                                        *)
LEMMA CheckCancelledInv ==
    ASSUME PoolCore, NEW w \in Workers, CheckCancelled(w)
    PROVE  PoolCore' /\ RunningKept
BY DEF CheckCancelled, Observed, Flag, PoolCore, TypeOK, ExclusiveExecution, AttemptBudget,
       RunningKept, UniqueIndexes, ProcessShape, ExecutedRowExists,
       RequeueWithinBudget, Executing, Active, PcValues

(* A handler that returns decides for a terminal status.                    *)
LEMMA HandlerReturnsInv ==
    ASSUME PoolCore, NEW w \in Workers, HandlerReturns(w)
    PROVE  PoolCore' /\ RunningKept
BY WorkersFacts DEF HandlerReturns, Outcomes, TerminalStatuses,
       PoolCore, TypeOK, ExclusiveExecution, AttemptBudget,
       RunningKept, UniqueIndexes, ProcessShape, ExecutedRowExists,
       RequeueWithinBudget, Executing, Active, PcValues

(* _fail decides to requeue only within the budget it has read.             *)
LEMMA HandlerRaisesInv ==
    ASSUME PoolCore, NEW w \in Workers, HandlerRaises(w)
    PROVE  PoolCore' /\ RunningKept
BY WorkersFacts DEF HandlerRaises, FailDecision, Flag, Outcomes, TerminalStatuses,
       ActiveStatuses, PoolCore, TypeOK, ExclusiveExecution, AttemptBudget,
       RunningKept, UniqueIndexes, ProcessShape, ExecutedRowExists,
       RequeueWithinBudget, Executing, Active, PcValues

(* A step that keeps every task, and every row up to its heartbeat and its  *)
(* cancel flag.                                                             *)
LEMMA SameRowsInv ==
    ASSUME PoolCore, Alike(rows, rows'), caller' \in [job : JobIds \cup {NoJob}, saw : Statuses],
           UNCHANGED <<taskVars, reaper, phase, stops>>
    PROVE  PoolCore' /\ RunningKept
<1>1. UniqueIndexes(rows)'
    BY DEF Alike, PoolCore, UniqueIndexes, Active
<1>2. QED
    BY <1>1 DEF Alike, taskVars, PoolCore, TypeOK, ExclusiveExecution, AttemptBudget,
       RunningKept, ProcessShape, ExecutedRowExists, RequeueWithinBudget,
       Executing, PcValues

(* progress keeps it.                                                       *)
LEMMA ProgressInv ==
    ASSUME PoolCore, NEW w \in Workers, Progress(w)
    PROVE  PoolCore' /\ RunningKept
<1>1. /\ cur[w] \in JobIds /\ rows \in [JobIds -> Row]
      /\ rows' = Beat(rows, cur[w])
      /\ caller' \in [job : JobIds \cup {NoJob}, saw : Statuses]
      /\ UNCHANGED <<taskVars, reaper, phase, stops>>
    BY DEF Progress, PoolCore, TypeOK
<1>2. QED
    BY <1>1, AlikeFacts, SameRowsInv

(* A heartbeat that goes stale keeps it.                                    *)
LEMMA HeartbeatExpiresInv ==
    ASSUME PoolCore, NEW j \in JobIds, HeartbeatExpires(j)
    PROVE  PoolCore' /\ RunningKept
<1>1. /\ rows \in [JobIds -> Row] /\ rows' = Stale(rows, j)
      /\ caller' \in [job : JobIds \cup {NoJob}, saw : Statuses]
      /\ UNCHANGED <<taskVars, reaper, phase, stops>>
    BY DEF HeartbeatExpires, PoolCore, TypeOK
<1>2. QED
    BY <1>1, AlikeFacts, SameRowsInv

(* cancel_job's read keeps it.                                              *)
LEMMA CancelReadInv ==
    ASSUME PoolCore, NEW j \in JobIds, CancelRead(j)
    PROVE  PoolCore' /\ RunningKept
<1>1. /\ rows' = rows /\ rows \in [JobIds -> Row]
      /\ caller' \in [job : JobIds \cup {NoJob}, saw : Statuses]
      /\ UNCHANGED <<taskVars, reaper, phase, stops>>
    BY DEF CancelRead, Active, Statuses, PoolCore, TypeOK
<1>2. Alike(rows, rows')
    BY <1>1 DEF Alike
<1>3. QED
    BY <1>1, <1>2, SameRowsInv

(* A step that gives some rows a terminal status, changes no more than the  *)
(* heartbeat and the flag of the others, and keeps every task.              *)
LEMMA SettleInv ==
    ASSUME PoolCore, rows' \in [JobIds -> Row],
           \A i \in JobIds :
              /\ \/ rows'[i].status \in TerminalStatuses
                 \/ /\ rows'[i].status = rows[i].status
                    /\ rows'[i].type = rows[i].type
                    /\ rows'[i].lock_key = rows[i].lock_key
                    /\ rows'[i].idempotency_key = rows[i].idempotency_key
              /\ rows'[i].attempts = rows[i].attempts
              /\ rows'[i].max_attempts = rows[i].max_attempts,
           caller' \in [job : JobIds \cup {NoJob}, saw : Statuses],
           reaper' \in SUBSET JobIds,
           UNCHANGED <<taskVars, phase, stops>>
    PROVE  PoolCore' /\ RunningKept
<1>1. UniqueIndexes(rows)'
    BY DEF PoolCore, UniqueIndexes, Active, ActiveStatuses, TerminalStatuses
<1>2. TypeOK'
    BY DEF PoolCore, TypeOK, taskVars
<1>3. ExclusiveExecution' /\ ExecutedRowExists'
    BY DEF PoolCore, TypeOK, taskVars, ExclusiveExecution, ExecutedRowExists,
           Executing, TerminalStatuses
<1>4. AttemptBudget' /\ RequeueWithinBudget'
    BY DEF PoolCore, TypeOK, taskVars, AttemptBudget, RequeueWithinBudget,
           TerminalStatuses
<1>5. RunningKept /\ ProcessShape'
    BY DEF PoolCore, TypeOK, taskVars, RunningKept, ProcessShape,
           Executing, TerminalStatuses
<1>6. QED
    BY <1>1, <1>2, <1>3, <1>4, <1>5 DEF PoolCore

(* cancel_job's unconditional write keeps it.                               *)
LEMMA CancelCommitInv ==
    ASSUME PoolCore, CancelCommit
    PROVE  PoolCore' /\ RunningKept
<1>1. PICK j \in JobIds : j = caller.job
    BY DEF CancelCommit, PoolCore, TypeOK
<1>2. /\ rows \in [JobIds -> Row]
      /\ caller' \in [job : JobIds \cup {NoJob}, saw : Statuses]
      /\ reaper' \in SUBSET JobIds
      /\ UNCHANGED <<taskVars, reaper, phase, stops>>
    BY DEF CancelCommit, PoolCore, TypeOK, NoCaller, Statuses, ActiveStatuses
<1>3. CASE rows' = SetStatus(rows, j, "cancelled")
  <2>1. /\ rows' \in [JobIds -> Row]
        /\ \A i \in JobIds :
              /\ rows'[i] # rows[i] => rows'[i].status \in TerminalStatuses
              /\ rows'[i].attempts = rows[i].attempts
              /\ rows'[i].max_attempts = rows[i].max_attempts
    <3>1. "cancelled" \in Statuses /\ "cancelled" \in TerminalStatuses
      BY DEF Statuses, TerminalStatuses
    <3>2. /\ rows' \in [JobIds -> Row] /\ rows'[j].status = "cancelled"
          /\ \A i \in JobIds : i # j => rows'[i] = rows[i]
          /\ \A i \in JobIds : /\ rows'[i].attempts = rows[i].attempts
                              /\ rows'[i].max_attempts = rows[i].max_attempts
      BY <1>2, <1>3, <3>1, SetStatusFacts
    <3>3. QED
      BY <3>1, <3>2
  <2>2. QED
    BY <1>2, <2>1, SettleInv
<1>4. CASE rows' = RequestCancel(rows, j)
    BY <1>2, <1>4, AlikeFacts, SameRowsInv
<1>5. QED
    BY <1>1, <1>3, <1>4 DEF CancelCommit

(* The reaper's read keeps it.                                              *)
LEMMA ReapReadInv ==
    ASSUME PoolCore, ReapRead
    PROVE  PoolCore' /\ RunningKept
BY DEF ReapRead, Stalled, taskVars, PoolCore, TypeOK, ExclusiveExecution, AttemptBudget,
       RunningKept, ProcessShape, ExecutedRowExists, RequeueWithinBudget,
       Executing, PcValues, UniqueIndexes, Active

(* The reaper's commit keeps it.                                            *)
LEMMA ReapCommitInv ==
    ASSUME PoolCore, ReapCommit
    PROVE  PoolCore' /\ RunningKept
<1>1. /\ reaper \in SUBSET JobIds /\ rows \in [JobIds -> Row]
      /\ caller \in [job : JobIds \cup {NoJob}, saw : Statuses]
      /\ rows' = Reap(rows, reaper)
    BY DEF ReapCommit, PoolCore, TypeOK
<1>2. /\ rows' \in [JobIds -> Row]
      /\ \A i \in JobIds :
              /\ rows'[i] # rows[i] => rows'[i].status \in TerminalStatuses
              /\ rows'[i].attempts = rows[i].attempts
              /\ rows'[i].max_attempts = rows[i].max_attempts
    BY <1>1, ReapFacts DEF TerminalStatuses
<1>3. QED
    BY <1>1, <1>2, SettleInv DEF ReapCommit

(* The end of the process, by crash or shutdown, keeps it.                  *)
LEMMA HaltInv ==
    ASSUME PoolCore, Halt, stops' \in Nat
    PROVE  PoolCore' /\ RunningKept
BY WorkersFacts DEF Halt, NoTasks, NoCaller, Outcomes, Statuses, ActiveStatuses, TerminalStatuses,
       UniqueIndexes, Active, PoolCore, TypeOK, ExclusiveExecution, AttemptBudget,
       RunningKept, ProcessShape, ExecutedRowExists, RequeueWithinBudget,
       Executing, PcValues

(* The start of the drain keeps it.                                         *)
LEMMA BeginShutdownInv ==
    ASSUME PoolCore, BeginShutdown
    PROVE  PoolCore' /\ RunningKept
BY WorkersFacts DEF BeginShutdown, UniqueIndexes, Active, PoolCore, TypeOK, ExclusiveExecution, AttemptBudget,
       RunningKept, ProcessShape, ExecutedRowExists, RequeueWithinBudget,
       Executing, PcValues

(* Boot keeps it: reaping and recovery leave no row running.                *)
LEMMA BootInv ==
    ASSUME PoolCore, Boot
    PROVE  PoolCore' /\ RunningKept
<1> DEFINE t == Reap(rows, Stalled(rows))
<1>1. rows \in [JobIds -> Row] /\ Stalled(rows) \in SUBSET JobIds
    BY DEF PoolCore, TypeOK, Stalled
<1>2. /\ t \in [JobIds -> Row]
      /\ \A i \in JobIds :
            /\ i \in Stalled(rows) => t[i].status = "failed"
            /\ i \notin Stalled(rows) => t[i] = rows[i]
            /\ t[i].attempts = rows[i].attempts
            /\ t[i].max_attempts = rows[i].max_attempts
    BY <1>1, ReapFacts
<1>3. rows' = RecoverOrphans(t)
    BY DEF Boot
<1> HIDE DEF t
<1>4. /\ rows' \in [JobIds -> Row]
      /\ \A i \in JobIds :
            /\ t[i].status # "running" => rows'[i] = t[i]
            /\ t[i].status = "running" =>
                /\ rows'[i].status \in {"queued", "failed"}
                /\ rows'[i].status = "queued" =>
                    /\ t[i].attempts < t[i].max_attempts
                    /\ rows'[i].lock_key = t[i].lock_key
            /\ rows'[i].idempotency_key = t[i].idempotency_key
            /\ rows'[i].type = t[i].type
            /\ rows'[i].attempts = t[i].attempts
            /\ rows'[i].max_attempts = t[i].max_attempts
    BY <1>2, <1>3, RecoverFacts
<1>5. \A w \in Workers : pc'[w] \in {"idle", "off"}
    BY DEF Boot
<1>6. TypeOK'
    BY <1>4, <1>5 DEF Boot, PoolCore, TypeOK, PcValues
<1>7. ExclusiveExecution' /\ ExecutedRowExists' /\ RequeueWithinBudget'
    BY <1>5 DEF ExclusiveExecution, ExecutedRowExists, RequeueWithinBudget, Executing
<1>8. AttemptBudget'
    BY <1>1, <1>2, <1>4 DEF PoolCore, AttemptBudget, Row
<1>9. RunningKept
    BY <1>4 DEF RunningKept
<1>10. \A i \in JobIds :
        rows'[i].status \in ActiveStatuses =>
            /\ rows[i].status \in ActiveStatuses
            /\ rows'[i].lock_key = rows[i].lock_key
            /\ rows'[i].idempotency_key = rows[i].idempotency_key
            /\ rows'[i].type = rows[i].type
    BY <1>2, <1>4 DEF ActiveStatuses
<1>11. UniqueIndexes(rows)'
    BY <1>10 DEF PoolCore, UniqueIndexes, Active
<1>12. ProcessShape'
    BY WorkersFacts DEF Boot, ProcessShape, PoolWorkers, DrainWorker
<1>13. QED
    BY <1>6, <1>7, <1>8, <1>9, <1>11, <1>12 DEF PoolCore

(* The unconditional write of an outcome keeps it.                          *)
LEMMA WriteOutcomeInv ==
    ASSUME PoolCore, NEW w \in Workers, WriteOutcome(w)
    PROVE  PoolCore' /\ RunningKept
<1>1. PICK j \in JobIds : j = cur[w]
    BY DEF WriteOutcome, PoolCore, TypeOK
<1>2. /\ pc[w] = "writing" /\ out[w] \in Statuses
      /\ rows' = SetStatus(rows, j, out[w]) /\ UniqueIndexes(rows')
      /\ pc' = [pc EXCEPT ![w] = "idle"] /\ cur' = [cur EXCEPT ![w] = NoJob]
      /\ UNCHANGED <<caller, reaper, phase, stops>>
    BY <1>1 DEF WriteOutcome, Drop, PoolCore, TypeOK, Outcomes, Statuses, ActiveStatuses
<1>3. /\ rows \in [JobIds -> Row] /\ pc \in [Workers -> PcValues]
      /\ cur \in [Workers -> JobIds \cup {NoJob}]
    BY DEF PoolCore, TypeOK
<1>4. /\ rows' \in [JobIds -> Row]
      /\ rows'[j].status = out[w]
      /\ \A i \in JobIds : i # j => rows'[i] = rows[i]
      /\ \A i \in JobIds :
            /\ rows'[i].attempts = rows[i].attempts
            /\ rows'[i].max_attempts = rows[i].max_attempts
    BY <1>2, <1>3, SetStatusFacts
<1>5. TypeOK'
    BY <1>2, <1>4 DEF WriteOutcome, Drop, PoolCore, TypeOK, PcValues,
                      Outcomes, TerminalStatuses
<1>6. \A v \in Workers : Executing(v)' => /\ v # w /\ Executing(v)
                                          /\ cur'[v] = cur[v] /\ cur[v] # j
                                          /\ cur[v] \in JobIds
    BY <1>1, <1>2, <1>3 DEF PoolCore, TypeOK, ExclusiveExecution, Executing
<1>7. ExclusiveExecution' /\ ExecutedRowExists'
    BY <1>4, <1>6 DEF PoolCore, ExclusiveExecution, ExecutedRowExists
<1>8. AttemptBudget'
    BY <1>1, <1>2, <1>4 DEF PoolCore, AttemptBudget, RequeueWithinBudget
<1>9. RunningKept
  <2> SUFFICES ASSUME phase # "down", NEW i \in JobIds, rows'[i].status = "running"
               PROVE  \/ \E v \in Workers : Executing(v)' /\ cur'[v] = i
                      \/ /\ rows[i].status = "running"
                         /\ \A v \in Workers : ~(Executing(v) /\ cur[v] = i)
    BY <1>2 DEF RunningKept
  <2>1. CASE i = j
    <3>1. out[w] # "running"
      BY DEF PoolCore, TypeOK, Outcomes, TerminalStatuses
    <3>2. QED
      BY <1>4, <2>1, <3>1
  <2>2. CASE i # j
    BY <1>1, <1>2, <1>3, <1>4, <2>2 DEF PoolCore, RunningKept, Executing
  <2>3. QED
    BY <2>1, <2>2
<1>10. RequeueWithinBudget'
    BY <1>2, <1>3, <1>4, <1>6 DEF WriteOutcome, Drop, PoolCore, TypeOK,
                                 RequeueWithinBudget, Executing
<1>11. ProcessShape'
    BY <1>2, <1>3, WorkersFacts DEF PoolCore, ProcessShape
<1>12. QED
    BY <1>2, <1>5, <1>7, <1>8, <1>9, <1>10, <1>11 DEF PoolCore

(* A refused write kills a task whose row is no longer active.              *)
LEMMA WriteRefusedInv ==
    ASSUME PoolCore, NEW w \in Workers, WriteRefused(w)
    PROVE  PoolCore' /\ RunningKept
<1>1. PICK j \in JobIds : j = cur[w]
    BY DEF WriteRefused, PoolCore, TypeOK
<1>2. /\ rows \in [JobIds -> Row] /\ out[w] \in Statuses /\ UniqueIndexes(rows)
      /\ ~UniqueIndexes(SetStatus(rows, j, out[w]))
    BY <1>1 DEF WriteRefused, PoolCore, TypeOK, Outcomes, Statuses, ActiveStatuses
<1>3. rows[j].status # "running"
  <2> SUFFICES ASSUME rows[j].status = "running"
               PROVE  UniqueIndexes(SetStatus(rows, j, out[w]))
    BY <1>2
  <2> DEFINE t == SetStatus(rows, j, out[w])
  <2>1. \A i \in JobIds :
          /\ Active(t, i) => Active(rows, i)
          /\ t[i].lock_key = rows[i].lock_key
          /\ t[i].idempotency_key = rows[i].idempotency_key
          /\ t[i].type = rows[i].type
    BY <1>2, SetStatusFacts DEF Active, ActiveStatuses
  <2> HIDE DEF t
  <2>2. UniqueIndexes(t)
    BY <1>2, <2>1 DEF UniqueIndexes
  <2>3. QED
    BY <2>2 DEF t
<1>4. /\ UNCHANGED <<rows, caller, reaper, stops>>
      /\ pc[w] = "writing" /\ pc'[w] \in {"off", "dead"}
      /\ \A v \in Workers : v # w => /\ pc'[v] = pc[v] /\ cur'[v] = cur[v]
                                      /\ out'[v] = out[v]
      /\ phase' = phase \/ (w = DrainWorker /\ pc'[w] = "off" /\ phase' = "drained")
      /\ w = DrainWorker => pc'[w] = "off"
    BY DEF WriteRefused, Drop, PoolCore, TypeOK
<1>5. TypeOK'
    BY DEF WriteRefused, Drop, PoolCore, TypeOK, PcValues, Outcomes, TerminalStatuses
<1>6. ExclusiveExecution' /\ ExecutedRowExists' /\ RequeueWithinBudget' /\ AttemptBudget'
    BY <1>4 DEF PoolCore, ExclusiveExecution, ExecutedRowExists, RequeueWithinBudget,
                AttemptBudget, Executing
<1>7. ProcessShape'
    BY <1>4, WorkersFacts DEF PoolCore, ProcessShape
<1>8. RunningKept
    BY <1>1, <1>3, <1>4, <1>7 DEF PoolCore, RunningKept, ProcessShape, Executing
<1>9. UniqueIndexes(rows)'
    BY <1>2, <1>4 DEF UniqueIndexes, Active
<1>10. QED
    BY <1>5, <1>6, <1>7, <1>8, <1>9 DEF PoolCore

(* A producer's insert keeps it: no worker executes an absent row.          *)
LEMMA EnqueueInv ==
    ASSUME PoolCore, NEW type \in JobTypes, NEW lock \in Spaces \cup {NoLock},
           Enqueue(type, lock)
    PROVE  PoolCore' /\ RunningKept
<1> DEFINE r == NewRow(type, "queued", MaxAttempts, lock, NoKey)
<1>1. PICK j \in JobIds : rows[j].status = "absent" /\ rows' = [rows EXCEPT ![j] = r]
    BY DEF Enqueue, NextFree
<1>2. /\ r \in Row /\ r.status = "queued" /\ r.attempts = 0
      /\ r.max_attempts \in Nat \ {0}
    BY TableAssumption, NewRowFacts DEF Statuses, ActiveStatuses
<1> HIDE DEF r
<1>3. /\ rows \in [JobIds -> Row] /\ rows' \in [JobIds -> Row] /\ rows'[j] = r
      /\ \A i \in JobIds : i # j => rows'[i] = rows[i]
    BY <1>1, <1>2 DEF PoolCore, TypeOK
<1>4. UNCHANGED <<pc, cur, seen, out, caller, reaper, phase, stops>>
    BY DEF Enqueue, taskVars
<1>5. TypeOK'
    BY <1>3, <1>4 DEF PoolCore, TypeOK
<1>6. \A v \in Workers : Executing(v) => cur[v] \in JobIds /\ cur[v] # j
    BY <1>1 DEF PoolCore, TypeOK, ExecutedRowExists, Executing
<1>7. ExclusiveExecution' /\ ExecutedRowExists' /\ RequeueWithinBudget'
    BY <1>3, <1>4, <1>6 DEF PoolCore, ExclusiveExecution, ExecutedRowExists,
                           RequeueWithinBudget, Executing
<1>8. AttemptBudget'
    BY <1>2, <1>3 DEF PoolCore, AttemptBudget
<1>9. RunningKept /\ ProcessShape'
    BY <1>2, <1>3, <1>4 DEF PoolCore, RunningKept, ProcessShape, Executing
<1>10. UniqueIndexes(rows)'
    BY DEF Enqueue, UniqueIndexes, Active
<1>11. QED
    BY <1>5, <1>7, <1>8, <1>9, <1>10 DEF PoolCore

-----------------------------------------------------------------------------
(* Every step of the pool preserves the core.                               *)
LEMMA CoreStep ==
    ASSUME PoolCore, [Next]_vars
    PROVE  PoolCore' /\ RunningKept
<1>1. ASSUME NEW type \in EnqueuedTypes, NEW lock \in Spaces \cup {NoLock},
             Enqueue(type, lock)
      PROVE  PoolCore' /\ RunningKept
    BY <1>1, EnqueueInv, PoolAssumption
<1>2. ASSUME NEW w \in Workers, WorkerStep(w) PROVE PoolCore' /\ RunningKept
  <2>1. CASE SelectOldest(w) \/ SelectNone(w)
    BY <2>1, SelectOldestInv, SelectNoneInv
  <2>2. CASE ClaimWon(w) \/ ClaimLost(w) \/ Refresh(w)
    BY <2>2, ClaimWonInv, ClaimLostInv, RefreshInv
  <2>3. CASE Progress(w) \/ HandlerRollback(w) \/ CheckCancelled(w)
    BY <2>3, ProgressInv, HandlerRollbackInv, CheckCancelledInv
  <2>4. CASE HandlerEnds(w)
    BY <2>4, HandlerReturnsInv, HandlerRaisesInv DEF HandlerEnds
  <2>5. CASE Finish(w)
    BY <2>5, WriteOutcomeInv, WriteRefusedInv DEF Finish
  <2>6. QED
    BY <1>2, <2>1, <2>2, <2>3, <2>4, <2>5 DEF WorkerStep, TaskStep
<1>3. ASSUME CancelStep PROVE PoolCore' /\ RunningKept
    BY <1>3, CancelReadInv, CancelCommitInv DEF CancelStep
<1>4. ASSUME ReaperStep PROVE PoolCore' /\ RunningKept
    BY <1>4, ReapReadInv, ReapCommitInv, HeartbeatExpiresInv DEF ReaperStep
<1>5. ASSUME ProcessStep PROVE PoolCore' /\ RunningKept
  <2>1. CASE Crash
    <3>1. Halt /\ stops' \in Nat
      BY <2>1 DEF Crash, PoolCore, TypeOK
    <3>2. QED
      BY <3>1, HaltInv
  <2>2. CASE StopWorkers
    <3>1. Halt /\ stops' \in Nat
      BY <2>2 DEF StopWorkers, PoolCore, TypeOK
    <3>2. QED
      BY <3>1, HaltInv
  <2>3. QED
    BY <1>5, <2>1, <2>2, BeginShutdownInv, BootInv DEF ProcessStep
<1>6. ASSUME UNCHANGED vars PROVE PoolCore' /\ RunningKept
    BY <1>6 DEF vars, PoolCore, TypeOK, ExclusiveExecution, AttemptBudget,
       RunningKept, UniqueIndexes, ProcessShape, ExecutedRowExists, RequeueWithinBudget,
       Executing, Active
<1>7. QED
    BY <1>1, <1>2, <1>3, <1>4, <1>5, <1>6 DEF Next

(* And with it the rest: who is running has somebody who runs it.           *)
LEMMA StepInv == PoolInvariant /\ [Next]_vars => PoolInvariant'
<1> SUFFICES ASSUME PoolInvariant, [Next]_vars PROVE PoolInvariant'
    OBVIOUS
<1>1. PoolCore' /\ RunningKept
    BY CoreStep DEF PoolInvariant
<1>2. NoOrphanWhileUp'
    BY <1>1 DEF PoolInvariant, NoOrphanWhileUp, RunningKept
<1>3. QED
    BY <1>1, <1>2 DEF PoolInvariant

(* The invariant of the pool: its guarantees and what makes them inductive. *)
THEOREM PoolInvariantHolds == Spec => []PoolInvariant
<1>1. QED
    BY InitInv, StepInv, PTL DEF Spec

(* The table, the worker tasks and the process keep their types: every      *)
(* handler step of job_worker.py writes values the next one can read.       *)
THEOREM TypeCorrectness == Spec => []TypeOK
<1>1. PoolInvariant => TypeOK
    BY DEF PoolInvariant, PoolCore
<1>2. QED
    BY PoolInvariantHolds, <1>1, PTL

(* claim_next arbitrates: however many workers, lanes, restarts, cancels    *)
(* and stalled heartbeats there are, no job is executed twice at once.      *)
THEOREM ExclusiveExecutionHolds == Spec => []ExclusiveExecution
<1>1. PoolInvariant => ExclusiveExecution
    BY DEF PoolInvariant, PoolCore
<1>2. QED
    BY PoolInvariantHolds, <1>1, PTL

(* No row is attempted more often than max_attempts, and a queued row has   *)
(* an attempt left, whatever mix of retries and orphan recoveries there is. *)
THEOREM AttemptBudgetHolds == Spec => []AttemptBudget
<1>1. PoolInvariant => AttemptBudget
    BY DEF PoolInvariant, PoolCore
<1>2. QED
    BY PoolInvariantHolds, <1>1, PTL

(* Between two boots no row is left running without a worker.               *)
THEOREM NoOrphanWhileUpHolds == Spec => []NoOrphanWhileUp
<1>1. PoolInvariant => NoOrphanWhileUp
    BY DEF PoolInvariant
<1>2. QED
    BY PoolInvariantHolds, <1>1, PTL

(* A settled row is history: once nothing that read it earlier is in        *)
(* flight, no action of the queue changes its status, boot recovery         *)
(* included.                                                                *)
LEMMA SettledStep == TypeOK /\ [Next]_vars => SettledKept
<1> SUFFICES ASSUME TypeOK, [Next]_vars, NEW j \in JobIds, Settled(j)
             PROVE  rows'[j].status = rows[j].status
    BY DEF SettledKept
<1>1. /\ rows \in [JobIds -> Row]
      /\ rows[j].status \notin {"queued", "running", "absent"}
      /\ \A w \in Workers : ~(Executing(w) /\ cur[w] = j)
      /\ caller.job # j /\ j \notin reaper
    BY DEF TypeOK, Settled, Terminal, TerminalStatuses
<1>2. ASSUME NEW type \in EnqueuedTypes, NEW lock \in Spaces \cup {NoLock},
             Enqueue(type, lock)
      PROVE  rows'[j].status = rows[j].status
    BY <1>1, <1>2 DEF Enqueue, NextFree
<1>3. ASSUME NEW w \in Workers, WorkerStep(w)
      PROVE  rows'[j].status = rows[j].status
  <2>1. CASE ClaimWon(w)
    BY <1>1, <2>1, ClaimFacts DEF ClaimWon, TypeOK
  <2>2. CASE Progress(w)
    BY <1>1, <2>2, AlikeFacts DEF Progress, TypeOK, Alike
  <2>3. CASE WriteOutcome(w)
    <3>1. PICK i \in JobIds : i = cur[w]
      BY <2>3 DEF WriteOutcome, TypeOK
    <3>2. /\ i # j /\ out[w] \in Statuses
          /\ rows' = SetStatus(rows, i, out[w])
      BY <1>1, <2>3, <3>1
      DEF WriteOutcome, TypeOK, Executing, Outcomes, Statuses, ActiveStatuses
    <3>3. QED
      BY <1>1, <3>2, SetStatusFacts
  <2>4. CASE UNCHANGED rows
    BY <2>4
  <2>5. QED
    BY <1>3, <2>1, <2>2, <2>3, <2>4
    DEF WorkerStep, TaskStep, HandlerEnds, Finish, SelectOldest, SelectNone,
        ClaimLost, Refresh, HandlerRollback, CheckCancelled, HandlerReturns,
        HandlerRaises, WriteRefused
<1>4. ASSUME CancelStep PROVE rows'[j].status = rows[j].status
  <2>1. CASE CancelCommit
    <3>1. PICK i \in JobIds : i = caller.job
      BY <2>1 DEF CancelCommit, TypeOK
    <3>2. CASE rows' = SetStatus(rows, i, "cancelled")
      <4>1. "cancelled" \in Statuses
        BY DEF Statuses, TerminalStatuses
      <4>2. QED
        BY <1>1, <3>1, <3>2, <4>1, SetStatusFacts
    <3>3. CASE rows' = RequestCancel(rows, i)
      BY <1>1, <3>3, AlikeFacts DEF Alike
    <3>4. QED
      BY <2>1, <3>1, <3>2, <3>3 DEF CancelCommit
  <2>2. QED
    BY <1>4, <2>1 DEF CancelStep, CancelRead
<1>5. ASSUME ReaperStep PROVE rows'[j].status = rows[j].status
  <2>1. CASE ReapCommit
    BY <1>1, <2>1, ReapFacts DEF ReapCommit, TypeOK
  <2>2. ASSUME NEW i \in JobIds, HeartbeatExpires(i)
        PROVE  rows'[j].status = rows[j].status
    BY <1>1, <2>2, AlikeFacts DEF HeartbeatExpires, Alike
  <2>3. QED
    BY <1>5, <2>1, <2>2 DEF ReaperStep, ReapRead
<1>6. ASSUME ProcessStep PROVE rows'[j].status = rows[j].status
  <2>1. CASE Boot
    <3> DEFINE t == Reap(rows, Stalled(rows))
    <3>1. Stalled(rows) \in SUBSET JobIds /\ j \notin Stalled(rows)
      BY <1>1 DEF Stalled
    <3>2. t \in [JobIds -> Row] /\ t[j] = rows[j]
      BY <1>1, <3>1, ReapFacts
    <3> HIDE DEF t
    <3>3. RecoverOrphans(t)[j] = t[j]
      BY <1>1, <3>2, RecoverFacts
    <3>4. QED
      BY <2>1, <3>2, <3>3 DEF Boot, t
  <2>2. QED
    BY <1>6, <2>1 DEF ProcessStep, Crash, BeginShutdown, StopWorkers, Halt
<1>7. CASE UNCHANGED vars
    BY <1>7 DEF vars
<1>8. QED
    BY <1>2, <1>3, <1>4, <1>5, <1>6, <1>7 DEF Next

(* Once nothing that read it is in flight, a terminal row keeps its status  *)
(* for good: neither the pool, the reaper nor boot recovery moves it.       *)
THEOREM SettledStaysSettledHolds == Spec => SettledStaysSettled
<1>1. Spec => []TypeOK
    BY TypeCorrectness
<1>2. QED
    BY <1>1, SettledStep, PTL DEF Spec, SettledStaysSettled
=============================================================================
