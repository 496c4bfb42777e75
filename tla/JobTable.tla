------------------------------ MODULE JobTable ------------------------------
(***************************************************************************)
(* The background_jobs table: what one row holds, the two partial unique   *)
(* indexes, and the UPDATE statements the worker pool, the stall reaper    *)
(* and the boot recovery issue against it.  Every operator maps a table to *)
(* a table, so that one database transaction is one use of an operator.    *)
(*                                                                         *)
(* Rows are named 1, 2, ... in created_at order: the id a new row takes is *)
(* also its place in the queue.  A heartbeat is abstracted to whether it   *)
(* is still inside the stale window (HEARTBEAT_STALE_SECONDS).             *)
(***************************************************************************)
EXTENDS Naturals, FiniteSets

CONSTANTS
    MaxJobs,       \* bound: rows a behaviour may create
    MaxAttempts,   \* the max_attempts default of enqueue
    Spaces,        \* vector spaces a run can lock
    Keys           \* idempotency keys

ASSUME TableAssumption ==
    /\ MaxJobs \in Nat \ {0}
    /\ MaxAttempts \in Nat \ {0}

JobIds == 1..MaxJobs

NoJob == 0

NoLock == "no_lock"

NoKey == "no_key"

ASSUME NullAssumption == NoLock \notin Spaces /\ NoKey \notin Keys

INGEST_JOB_TYPES == {"posting_sync"}

VECTOR_JOB_TYPES ==
    {"vector_index", "vector_reconcile", "vector_maintenance", "vector_cutover"}

(* The bulk runs that hold the lock of their space.                         *)
LOCKED_JOB_TYPES == VECTOR_JOB_TYPES \ {"vector_index"}

JobTypes == {"digest"} \cup INGEST_JOB_TYPES \cup VECTOR_JOB_TYPES

ActiveStatuses == {"queued", "running"}

TerminalStatuses == {"succeeded", "failed", "cancelled"}

Statuses == ActiveStatuses \cup TerminalStatuses

(* What the end of an execution can write.                                  *)
Outcomes == TerminalStatuses \cup {"queued"}

Row ==
    [type : JobTypes, status : Statuses \cup {"absent"}, attempts : Nat,
     max_attempts : Nat, cancel_requested : BOOLEAN,
     lock_key : Spaces \cup {NoLock}, idempotency_key : Keys \cup {NoKey},
     beat : {"fresh", "stale"}]

AbsentRow ==
    [type |-> "digest", status |-> "absent", attempts |-> 0,
     max_attempts |-> MaxAttempts, cancel_requested |-> FALSE,
     lock_key |-> NoLock, idempotency_key |-> NoKey, beat |-> "fresh"]

(* A BackgroundJob(...) constructor call: columns not named take their      *)
(* defaults.                                                                *)
NewRow(type, status, max, lock, key) ==
    [AbsentRow EXCEPT !.type = type, !.status = status, !.max_attempts = max,
                      !.lock_key = lock, !.idempotency_key = key]

(* j is the id the next inserted row takes.                                 *)
NextFree(t, j) ==
    /\ t[j].status = "absent"
    /\ \A i \in JobIds : i < j => t[i].status # "absent"

Active(t, j) == t[j].status \in ActiveStatuses

Terminal(t, j) == t[j].status \in TerminalStatuses

(* uq_background_jobs_lock_key_active and                                   *)
(* uq_background_jobs_idempotency_active: both range over the active rows   *)
(* only.                                                                    *)
UniqueIndexes(t) ==
    \A i, j \in JobIds :
        (i # j /\ Active(t, i) /\ Active(t, j)) =>
            /\ t[i].lock_key = t[j].lock_key => t[i].lock_key = NoLock
            /\ (/\ t[i].type = t[j].type
                /\ t[i].idempotency_key = t[j].idempotency_key)
                    => t[i].idempotency_key = NoKey

(* claim_next's SELECT: j is the oldest queued row of the lane.             *)
OldestQueued(t, scope, j) ==
    /\ t[j].status = "queued"
    /\ t[j].type \in scope
    /\ \A i \in JobIds :
        (t[i].status = "queued" /\ t[i].type \in scope) => j <= i

(* claim_next's conditional UPDATE, when its WHERE status = 'queued' holds. *)
Claim(t, j) ==
    [t EXCEPT ![j] = [t[j] EXCEPT !.status = "running",
                                  !.attempts = t[j].attempts + 1,
                                  !.beat = "fresh"]]

(* _finish, and the requeueing UPDATE of _fail: WHERE id = j and nothing    *)
(* else; lock_key and cancel_requested are left as they are.                *)
SetStatus(t, j, status) == [t EXCEPT ![j].status = status]

(* progress(): one UPDATE that also refreshes the heartbeat.                *)
Beat(t, j) == [t EXCEPT ![j].beat = "fresh"]

(* The stale window passes without one.                                     *)
Stale(t, j) == [t EXCEPT ![j].beat = "stale"]

(* cancel_job on a running row.                                             *)
RequestCancel(t, j) == [t EXCEPT ![j].cancel_requested = TRUE]

(* Mutant: the reaper forgets to ask for running rows.                      *)
Stalled_any_status(t) ==
    {j \in JobIds : t[j].type \in VECTOR_JOB_TYPES /\ t[j].beat = "stale"}

(* reap_stale_runs selects these ...                                        *)
Stalled(t) ==
    {j \in JobIds : /\ t[j].type \in VECTOR_JOB_TYPES
                    /\ t[j].status = "running"
                    /\ t[j].beat = "stale"}

(* ... and commits failed, with the lock released, on every one of them.    *)
Reap(t, stalled) ==
    [j \in JobIds |->
        IF j \in stalled
        THEN [t[j] EXCEPT !.status = "failed", !.lock_key = NoLock]
        ELSE t[j]]

(* Mutant: one recovery too many.                                           *)
Recovered_off_by_one(row) ==
    IF row.type = "vector_cutover"
    THEN [row EXCEPT !.status = "failed", !.lock_key = NoLock]
    ELSE [row EXCEPT !.status = IF row.attempts <= row.max_attempts
                                THEN "queued" ELSE "failed"]

(* What recover_orphans makes of one row left running by a dead process.    *)
Recovered(row) ==
    IF row.type = "vector_cutover"
    THEN [row EXCEPT !.status = "failed", !.lock_key = NoLock]
    ELSE [row EXCEPT !.status = IF row.attempts < row.max_attempts
                                THEN "queued" ELSE "failed"]

(* Mutant: a row that has no attempt left is not looked at.                 *)
RecoverOrphans_budgeted(t) ==
    [j \in JobIds |->
        IF t[j].status = "running" /\ t[j].attempts < t[j].max_attempts
        THEN Recovered(t[j]) ELSE t[j]]

RecoverOrphans(t) ==
    [j \in JobIds |->
        IF t[j].status = "running" THEN Recovered(t[j]) ELSE t[j]]
=============================================================================
