---------------------------- MODULE RetrievalRuns ----------------------------
(***************************************************************************)
(* Retrieval runs on top of the job queue: the Idempotency-Key replay, the *)
(* one-active-run lock of a vector space, synchronous action runs, the     *)
(* hand-over of the lock to a continuation, cancel_run, retry_run, and     *)
(* the bulk requeue of failed rows.                                        *)
(*                                                                         *)
(* Every request is a session of its own: it looks for a replay, looks for *)
(* a run that holds the lock, and inserts its row in three transactions.   *)
(* All rows are younger than the 24 hour replay window.                    *)
(***************************************************************************)
EXTENDS JobQueue

CONSTANTS
    Requests,      \* concurrent admin requests
    RequestKinds,  \* the actions they ask for
    Options,       \* the run options (force, since, ...) a reindex can carry
    Faults         \* which of the disturbances below may happen

(* start_reindex; retry_run; run_maintenance with a maintenance action, with *)
(* RETRY_FAILED, and with its dry run; retire_space and drop_space;          *)
(* activate_space of a building and of the active space; compare_quality;    *)
(* cancel_run.                                                               *)
AllKinds ==
    {"reindex", "retry_run", "run_maintenance", "retry_failed",
     "preview_retry_failed", "retire_space", "activate_space",
     "activate_active_space", "compare_quality", "cancel_run"}

AllFaults == {"stall", "cancel_job", "reprocess"}

ASSUME RunsAssumption == RequestKinds \subseteq AllKinds /\ Faults \subseteq AllFaults

VARIABLES
    req,       \* the admin requests in flight
    payload,   \* the payload of each row
    answered,  \* the rows whose result holds a stored response
    lockSeen   \* each worker session's copy of the row's lock_key

runVars == <<req, payload, answered, lockSeen>>

allVars == <<vars, runVars>>

SynchronousKinds ==
    {"preview_retry_failed", "retire_space", "activate_space",
     "activate_active_space", "compare_quality", "cancel_run"}

(* No exception handler around the work: it succeeds or the row stays.      *)
NeverFailKinds == {"preview_retry_failed", "activate_active_space", "cancel_run"}

(* The space named "content", where a retry without a space_id goes.        *)
ContentSpace == CHOOSE s \in Spaces : TRUE

(* The action, space_id, the options, the keyset cursor as the number of    *)
(* batches behind it, and the row that requeue_of or run_id names.          *)
Payload ==
    [action : AllKinds, space : Spaces \cup {NoLock},
     options : Options \cup {"none"}, after : 0..MaxJobs,
     names : JobIds \cup {NoJob}]

NoPayload ==
    [action |-> "reindex", space |-> NoLock, options |-> "none", after |-> 0,
     names |-> NoJob]

NoRequest ==
    [pc |-> "idle", kind |-> "reindex", row |-> AbsentRow, payload |-> NoPayload,
     job |-> NoJob, target |-> NoJob]

RunsTypeOK ==
    /\ TypeOK
    /\ req \in [Requests -> [pc : {"idle", "keyed", "checked", "acting"},
                             kind : AllKinds, row : Row, payload : Payload,
                             job : JobIds \cup {NoJob},
                             target : JobIds \cup {NoJob}]]
    /\ payload \in [JobIds -> Payload]
    /\ answered \subseteq JobIds
    /\ lockSeen \in [Workers -> Spaces \cup {NoLock}]
    /\ \A r \in Requests : req[r].pc = "acting" => req[r].job \in JobIds

RunsInit ==
    /\ Init
    /\ req = [r \in Requests |-> NoRequest]
    /\ payload = [j \in JobIds |-> NoPayload]
    /\ answered = {}
    /\ lockSeen = [w \in Workers |-> NoLock]

-----------------------------------------------------------------------------
(* Requests                                                                 *)

(* find_replay: the youngest row of this type and key.                      *)
find_replay(type, key) ==
    LET same == {j \in JobIds : /\ rows[j].status # "absent"
                                /\ rows[j].type = type
                                /\ rows[j].idempotency_key = key}
    IN  {j \in same : \A i \in same : i <= j}

active_run_for_space(s) == {j \in JobIds : Active(rows, j) /\ rows[j].lock_key = s}

(* The row a request on space s is about: retry_run takes a failed or       *)
(* cancelled run, cancel_run any vector run, RETRY_FAILED a run whose       *)
(* result lists failed documents; the others none.                          *)
Target(kind, s, j) ==
    CASE kind = "retry_run" ->
            /\ j \in JobIds /\ rows[j].type \in VECTOR_JOB_TYPES \ {"vector_cutover"}
            /\ rows[j].status \in {"failed", "cancelled"}
            /\ s = IF payload[j].space = NoLock THEN ContentSpace ELSE payload[j].space
      [] kind = "cancel_run" ->
            /\ j \in JobIds /\ rows[j].type \in VECTOR_JOB_TYPES
            /\ rows[j].status # "absent"
      [] kind \in {"retry_failed", "preview_retry_failed"} ->
            /\ j \in JobIds /\ rows[j].type = "vector_reconcile"
            /\ rows[j].status = "succeeded" /\ payload[j].space = s
      [] OTHER -> j = NoJob

(* cancel_run writes the flag only of a row it read as not terminal.        *)
Aim(kind, j) == IF kind = "cancel_run" /\ ~Terminal(rows, j) THEN j ELSE NoJob

(* retry_run keeps the options and starts over; a reindex brings its own.   *)
RetryPayload(s, target) ==
    [payload[target] EXCEPT !.space = IF rows[target].type = "vector_index" THEN @ ELSE s,
                            !.after = 0, !.names = target]

RequestPayload(kind, s, options, target) ==
    CASE kind = "retry_run" -> RetryPayload(s, target)
      [] kind = "reindex"   -> [NoPayload EXCEPT !.space = s, !.options = options]
      [] kind \in {"retry_failed", "preview_retry_failed"} ->
            [NoPayload EXCEPT !.action = "retry_failed", !.space = s, !.names = target]
      [] kind \in {"activate_space", "activate_active_space"} ->
            [NoPayload EXCEPT !.action = "activate_space", !.space = s]
      [] kind = "cancel_run" -> [NoPayload EXCEPT !.action = kind, !.names = target]
      [] OTHER               -> [NoPayload EXCEPT !.action = kind, !.space = s]

(* The row of each action: queued by enqueue_retrieval_job or started       *)
(* running by begin_action_run, with or without the lock of its space.      *)
ReindexRow(s, k) == NewRow("vector_reconcile", "queued", MaxAttempts, s, k)

RetryRow(s, k, target) ==
    NewRow(rows[target].type, "queued", rows[target].max_attempts,
           IF rows[target].type = "vector_index" THEN NoLock ELSE s, k)

MaintenanceRow(kind, s, k) ==
    CASE kind = "run_maintenance"      -> NewRow("vector_maintenance", "queued", MaxAttempts, s, k)
      [] kind = "retry_failed"         -> NewRow("vector_reconcile", "queued", MaxAttempts, s, k)
      [] kind = "preview_retry_failed" -> NewRow("vector_maintenance", "running", 1, NoLock, k)

RetireRow(s, k) == NewRow("vector_maintenance", "running", 1, s, k)

ActivateRow(kind, s, k) ==
    NewRow("vector_cutover", "running", 1,
           IF kind = "activate_active_space" THEN NoLock ELSE s, k)

CompareRow(k) == NewRow("vector_cutover", "running", 1, NoLock, k)

CancelRow(k) == NewRow("vector_maintenance", "running", 1, NoLock, k)

RequestedRow(kind, s, k, target) ==
    CASE kind = "reindex"         -> ReindexRow(s, k)
      [] kind = "retry_run"       -> RetryRow(s, k, target)
      [] kind = "retire_space"    -> RetireRow(s, k)
      [] kind = "compare_quality" -> CompareRow(k)
      [] kind = "cancel_run"      -> CancelRow(k)
      [] kind \in {"activate_space", "activate_active_space"} -> ActivateRow(kind, s, k)
      [] OTHER                    -> MaintenanceRow(kind, s, k)

(* _replay_or_conflict found no row of the key.                             *)
OpenRequest(r, kind, s, k, target) ==
    LET row == RequestedRow(kind, s, k, target)
    IN  /\ phase = "up"
        /\ req[r].pc = "idle"
        /\ Target(kind, s, target)
        /\ find_replay(row.type, k) = {}
        /\ \E options \in Options :
            req' = [req EXCEPT ![r] =
                      [pc |-> "keyed", kind |-> kind, row |-> row,
                       payload |-> RequestPayload(kind, s, options, target),
                       job |-> NoJob, target |-> Aim(kind, target)]]
        /\ UNCHANGED <<vars, payload, answered, lockSeen>>

(* How a synchronous action treats a replay of row j.  A stored response is *)
(* returned, a running row refused (the dry run does not look), and retire  *)
(* and activate also refuse a failed one; otherwise the request goes on to  *)
(* act on the old row.                                                      *)
GoesOn(kind, j) ==
    /\ kind \in SynchronousKinds
    /\ j \notin answered
    /\ kind # "preview_retry_failed" => rows[j].status # "running"
    /\ kind \in {"retire_space", "activate_space", "activate_active_space"} =>
            rows[j].status # "failed"

(* A replay of the same request.  Every other replay, and a key reused for  *)
(* a different request, has no effect.                                      *)
ResumeReplay(r, kind, s, k, target) ==
    /\ phase = "up"
    /\ req[r].pc = "idle"
    /\ Target(kind, s, target)
    /\ \E j \in find_replay(RequestedRow(kind, s, k, target).type, k) :
        /\ payload[j] = RequestPayload(kind, s, "none", target)
        /\ GoesOn(kind, j)
        /\ req' = [req EXCEPT ![r] =
                      [pc |-> "acting", kind |-> kind, row |-> rows[j],
                       payload |-> payload[j], job |-> j, target |-> Aim(kind, target)]]
    /\ UNCHANGED <<vars, payload, answered, lockSeen>>

(* _lock_or_conflict: 409 when another run holds the space.                 *)
CheckLock(r) ==
    /\ req[r].pc = "keyed"
    /\ IF req[r].row.lock_key # NoLock /\ active_run_for_space(req[r].row.lock_key) # {}
       THEN req' = [req EXCEPT ![r] = NoRequest]
       ELSE req' = [req EXCEPT ![r].pc = "checked"]
    /\ UNCHANGED <<vars, payload, answered, lockSeen>>

(* Mutant: the action run's id is not kept.                                 *)
InsertRun_forgotten(r) ==
    /\ req[r].pc = "checked"
    /\ \E j \in JobIds :
        LET t == [rows EXCEPT ![j] = req[r].row]
        IN  /\ NextFree(rows, j)
            /\ UniqueIndexes(t)
            /\ rows' = t
            /\ payload' = [payload EXCEPT ![j] = req[r].payload]
            /\ req' = [req EXCEPT ![r].pc = "acting"]
    /\ UNCHANGED <<taskVars, caller, reaper, phase, stops, answered, lockSeen>>

(* The INSERT commits, or the unique indexes refuse it and                  *)
(* _collision_fallback answers with a replay or a conflict.                 *)
InsertRun(r) ==
    /\ req[r].pc = "checked"
    /\ \E j \in JobIds :
        LET t == [rows EXCEPT ![j] = req[r].row]
        IN  /\ NextFree(rows, j)
            /\ \/ /\ UniqueIndexes(t)
                  /\ rows' = t
                  /\ payload' = [payload EXCEPT ![j] = req[r].payload]
                  /\ req' = IF req[r].kind \in SynchronousKinds
                            THEN [req EXCEPT ![r].pc = "acting", ![r].job = j]
                            ELSE [req EXCEPT ![r] = NoRequest]
               \/ /\ ~UniqueIndexes(t)
                  /\ req' = [req EXCEPT ![r] = NoRequest]
                  /\ UNCHANGED <<rows, payload>>
    /\ UNCHANGED <<taskVars, caller, reaper, phase, stops, answered, lockSeen>>

(* finish_action_run and fail_action_run: one commit that writes the status *)
(* by id and releases the lock; cancel_run's also sets the target's flag.   *)
EndAction(r, status) ==
    /\ req[r].pc = "acting"
    /\ LET done == [rows EXCEPT ![req[r].job].status = status,
                                ![req[r].job].lock_key = NoLock]
       IN  rows' = IF req[r].target # NoJob
                   THEN RequestCancel(done, req[r].target)
                   ELSE done
    /\ req[r].kind \in NeverFailKinds => status = "succeeded"
    /\ answered' = IF status = "succeeded" THEN answered \cup {req[r].job} ELSE answered
    /\ req' = [req EXCEPT ![r] = NoRequest]
    /\ UNCHANGED <<taskVars, caller, reaper, phase, stops, payload, lockSeen>>

RequestStep ==
    \/ \E r \in Requests, kind \in RequestKinds, s \in Spaces, k \in Keys,
          target \in JobIds \cup {NoJob} :
            OpenRequest(r, kind, s, k, target) \/ ResumeReplay(r, kind, s, k, target)
    \/ \E r \in Requests : CheckLock(r) \/ InsertRun(r)
    \/ \E r \in Requests, status \in {"succeeded", "failed"} : EndAction(r, status)

-----------------------------------------------------------------------------
(* The reconcile handler's continuation                                     *)

(* What the session knows of lock_key: the copy, or the row if it expired.  *)
LockObserved(w) == IF seen[w] = "expired" THEN rows[cur[w]].lock_key ELSE lockSeen[w]

(* The payload of the run that resumes after j's batch ...                  *)
continuation_payload(j) == [payload[j] EXCEPT !.after = @ + 1]

(* ... and has_pending_reconcile: a run at that cursor is queued or running. *)
has_pending_reconcile(j) ==
    \E k \in JobIds :
        /\ Active(rows, k)
        /\ rows[k].type = "vector_reconcile"
        /\ payload[k].space = payload[j].space
        /\ payload[k].after = payload[j].after + 1

(* Mutant: the continuation is inserted without taking the lock over.       *)
HandOver_dropped(t, j, k, lock) ==
    [t EXCEPT ![j] = [t[j] EXCEPT !.lock_key = NoLock],
              ![k] = NewRow("vector_reconcile", "queued", t[j].max_attempts, NoLock, NoKey)]

(* Parent j gives its lock up and row k is inserted with it.                *)
HandOver(t, j, k, lock) ==
    [t EXCEPT ![j] = IF lock = NoLock THEN t[j] ELSE [t[j] EXCEPT !.lock_key = NoLock],
              ![k] = NewRow("vector_reconcile", "queued", t[j].max_attempts, lock, NoKey)]

(* A partial batch whose checks saw no cancel chains, commits, and returns; *)
(* execute then reads the copy that job.lock_key loaded.  An IntegrityError *)
(* rolls back, leaves no continuation, and is only logged.                  *)
HandlerContinues(w) ==
    /\ pc[w] = "running"
    /\ rows[cur[w]].type = "vector_reconcile"
    /\ payload[cur[w]].action # "retry_failed"   \* its auto_continue is off
    /\ seen[w] # "set"
    /\ ~has_pending_reconcile(cur[w])
    /\ \E k \in JobIds :
        LET t == HandOver(rows, cur[w], k, LockObserved(w))
        IN  /\ NextFree(rows, k)
            /\ \/ /\ UniqueIndexes(t)
                  /\ rows' = t
                  /\ payload' = [payload EXCEPT ![k] = continuation_payload(cur[w])]
                  /\ out' = [out EXCEPT ![w] =
                        IF Observed(w) = "set" THEN "cancelled" ELSE "succeeded"]
               \/ /\ ~UniqueIndexes(t)
                  /\ out' = [out EXCEPT ![w] =
                        IF Flag(cur[w]) = "set" THEN "cancelled" ELSE "succeeded"]
                  /\ UNCHANGED <<rows, payload>>
    /\ pc' = [pc EXCEPT ![w] = "writing"]
    /\ UNCHANGED <<cur, seen, caller, reaper, phase, stops, req, answered, lockSeen>>

(* The session loads lock_key whenever it loads cancel_requested.           *)
LoadsRow(w) ==
    \/ pc[w] = "claimed" /\ pc'[w] = "running"
    \/ seen[w] = "expired" /\ seen'[w] # "expired"

RunsWorkerStep(w) ==
    /\ WorkerStep(w)
    /\ lockSeen' = IF cur'[w] = NoJob THEN [lockSeen EXCEPT ![w] = NoLock]
                   ELSE IF LoadsRow(w)
                        THEN [lockSeen EXCEPT ![w] = rows[cur[w]].lock_key]
                        ELSE lockSeen
    /\ answered' = IF pc[w] = "writing" /\ out[w] = "succeeded"
                   THEN answered \ {cur[w]}   \* the handler's result replaces it
                   ELSE answered
    /\ UNCHANGED <<req, payload>>

-----------------------------------------------------------------------------
(* Disturbances and the process                                             *)

(* JobReprocessService.requeue with job_ids = <j>: an exhausted row without *)
(* an active twin is cloned with its payload, but neither lock nor key.     *)
RequeueFailed(j) ==
    /\ "reprocess" \in Faults
    /\ phase = "up"
    /\ rows[j].status = "failed"
    /\ rows[j].attempts >= rows[j].max_attempts
    /\ ~\E i \in JobIds : /\ Active(rows, i)
                          /\ rows[i].type = rows[j].type
                          /\ payload[i] = payload[j]
    /\ \E k \in JobIds :
        /\ NextFree(rows, k)
        /\ rows' = [rows EXCEPT ![k] = NewRow(rows[j].type, "queued",
                                     rows[j].max_attempts, NoLock, NoKey)]
        /\ payload' = [payload EXCEPT ![k] = payload[j]]
    /\ UNCHANGED <<taskVars, caller, reaper, phase, stops, req, answered, lockSeen>>

QueueStep ==
    /\ \/ "cancel_job" \in Faults /\ CancelStep
       \/ "stall" \in Faults /\ ReaperStep
       \/ BeginShutdown /\ \A r \in Requests : req[r].pc = "idle"
       \/ Boot
    /\ UNCHANGED runVars

RunsHalt ==
    /\ Crash \/ StopWorkers
    /\ req' = [r \in Requests |-> NoRequest]
    /\ lockSeen' = [w \in Workers |-> NoLock]
    /\ UNCHANGED <<payload, answered>>

RunsNext ==
    \/ RequestStep
    \/ \E w \in Workers : RunsWorkerStep(w) \/ HandlerContinues(w)
    \/ QueueStep
    \/ \E j \in JobIds : RequeueFailed(j)
    \/ RunsHalt

RunsSpec == RunsInit /\ [][RunsNext]_allVars

(* Requests run to their end, as their awaits do; tasks and the process as  *)
(* in JobQueue; a handler that chains has ended.                            *)
RunsFairness ==
    /\ \A r \in Requests :
        WF_allVars(CheckLock(r) \/ InsertRun(r)
                    \/ \E status \in {"succeeded", "failed"} : EndAction(r, status))
    /\ \A w \in Workers :
        /\ WF_allVars(RunsWorkerStep(w) /\ TaskStep(w))
        /\ WF_allVars((RunsWorkerStep(w) /\ HandlerEnds(w)) \/ HandlerContinues(w))
    /\ WF_allVars(RunsHalt /\ StopWorkers)
    /\ WF_allVars(QueueStep /\ Boot)

-----------------------------------------------------------------------------
(* Properties                                                               *)

(* Who does work on space s: workers whose handler has not ended, and       *)
(* synchronous actions that took the lock.                                  *)
WorkersOn(s) ==
    {w \in Workers : /\ pc[w] \in {"claimed", "running"}
                     /\ rows[cur[w]].type \in VECTOR_JOB_TYPES
                     /\ payload[cur[w]].space = s}

ActionsOn(s) ==
    {r \in Requests : req[r].pc = "acting" /\ req[r].row.lock_key = s}

(* One run at a time works on a space: concurrent requests are arbitrated   *)
(* by the lock, and a chain of continuations hands the lock over without a  *)
(* gap another request could enter.                                         *)
OneRunPerSpace ==
    \A s \in Spaces : Cardinality(WorkersOn(s)) + Cardinality(ActionsOn(s)) <= 1

(* The pool's guarantees survive the retrieval layer: no row is executed    *)
(* twice at once, the attempts budget holds for chained, retried and        *)
(* requeued rows, and a running row has a worker or a request behind it.    *)
RunsSafe ==
    /\ ExclusiveExecution
    /\ AttemptBudget
    /\ phase # "down" =>
        \A j \in JobIds :
            rows[j].status = "running" =>
                \/ \E w \in Workers : Executing(w) /\ cur[w] = j
                \/ \E r \in Requests : req[r].pc = "acting" /\ req[r].job = j

(* What run_forever promises: a worker claims and executes jobs until the   *)
(* application shuts down.                                                  *)
WorkersServeUntilShutdown ==
    phase = "up" => \A w \in PoolWorkers : pc[w] # "dead"

(* No run keeps a space for ever: the lock a run took is released, across   *)
(* stalls, crashes and restarts.                                            *)
LockIsReleased ==
    \A j \in JobIds :
        (Active(rows, j) /\ rows[j].lock_key # NoLock)
            ~> (~Active(rows, j) \/ rows[j].lock_key = NoLock)
=============================================================================
