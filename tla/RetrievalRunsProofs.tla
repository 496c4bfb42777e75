------------------------- MODULE RetrievalRunsProofs -------------------------
(***************************************************************************)
(* Proofs about the retrieval runs: the guarantees of the pool under every *)
(* disturbance, for every pool, table and number of requests.              *)
(***************************************************************************)
EXTENDS RetrievalRuns, JobQueueProofs, FiniteSetTheorems

-----------------------------------------------------------------------------
(* The inductive invariant of the pool under the retrieval layer            *)

RequestRow ==
    [pc : {"idle", "keyed", "checked", "acting"}, kind : AllKinds, row : Row,
     payload : Payload, job : JobIds \cup {NoJob}, target : JobIds \cup {NoJob}]

Inserted(j) == rows[j].status # "absent"

(* Behind a running row stands a worker or a synchronous action.            *)
Backed ==
    phase # "down" =>
        \A j \in JobIds :
            rows[j].status = "running" =>
                \/ \E w \in Workers : Executing(w) /\ cur[w] = j
                \/ \E r \in Requests : req[r].pc = "acting" /\ req[r].job = j

(* Rows are inserted in order, so that a cursor, which one continuation     *)
(* moves by one, stays behind its row.                                      *)
Dense ==
    /\ \A i, j \in JobIds : i < j /\ Inserted(j) => Inserted(i)
    /\ \A j \in JobIds : rows[j].max_attempts > 0 /\ payload[j].after < j

(* What a cancel, a reaper pass or an action has read is a row.             *)
Known ==
    /\ caller.job # NoJob => Inserted(caller.job)
    /\ \A j \in reaper : Inserted(j)
    /\ \A r \in Requests : req[r].pc = "acting" => Inserted(req[r].job)

Asking(x) == x.pc \in {"keyed", "checked"}

(* A row that is to be inserted starts its attempts, and a queued one is    *)
(* for the workers.                                                         *)
Asked(x) ==
    Asking(x) =>
        /\ x.row.attempts = 0 /\ x.row.max_attempts > 0 /\ x.payload.after = 0
        /\ x.row.status = IF x.kind \in SynchronousKinds THEN "running" ELSE "queued"

RunsInvariant ==
    /\ RunsTypeOK
    /\ PoolCore
    /\ Backed
    /\ Dense
    /\ Known
    /\ \A r \in Requests : Asked(req[r])

-----------------------------------------------------------------------------
(* Types and constructors                                                   *)

(* What the invariant says of the types, in the shape the steps need.       *)
LEMMA RunsFacts ==
    ASSUME RunsInvariant
    PROVE  /\ rows \in [JobIds -> Row] /\ req \in [Requests -> RequestRow]
           /\ payload \in [JobIds -> Payload] /\ answered \subseteq JobIds
           /\ lockSeen \in [Workers -> Spaces \cup {NoLock}]
           /\ TypeOK /\ PoolCore
           /\ \A r \in Requests : req[r].pc = "acting" => req[r].job \in JobIds
  BY DEF RunsInvariant, RunsTypeOK, PoolCore, TypeOK, RequestRow

(* A row that is not there has the columns of one.                          *)
LEMMA AbsentRowType == AbsentRow \in Row
  BY TableAssumption DEF AbsentRow, Row, JobTypes, Statuses

(* An empty payload is one at the first batch.                              *)
LEMMA NoPayloadType == NoPayload \in Payload /\ NoPayload.after = 0
  BY TableAssumption DEF NoPayload, Payload, AllKinds

(* A slot without a request, of which nothing is asked.                     *)
LEMMA NoRequestFacts ==
    /\ NoRequest \in RequestRow
    /\ NoRequest.pc = "idle"
    /\ Asked(NoRequest)
  BY AbsentRowType, NoPayloadType DEF NoRequest, RequestRow, AllKinds, Asked, Asking

(* The row of a request: queued for the workers, or running for itself.     *)
LEMMA RequestedRowFacts ==
    ASSUME RunsInvariant, NEW kind \in AllKinds, NEW s \in Spaces, NEW k \in Keys,
           NEW target \in JobIds \cup {NoJob}, Target(kind, s, target),
           NEW row, row = RequestedRow(kind, s, k, target)
    PROVE  /\ row \in Row /\ row.attempts = 0 /\ row.max_attempts > 0
           /\ row.status = IF kind \in SynchronousKinds THEN "running" ELSE "queued"
  <1>1. /\ 1 \in Nat /\ MaxAttempts \in Nat \ {0}
        /\ {"queued", "running"} \subseteq Statuses /\ VECTOR_JOB_TYPES \subseteq JobTypes
        /\ {"vector_reconcile", "vector_maintenance", "vector_cutover"} \subseteq JobTypes
    BY TableAssumption DEF Statuses, ActiveStatuses, JobTypes, VECTOR_JOB_TYPES
  <1>2. CASE kind = "retry_run"
    <2>1. /\ target \in JobIds /\ rows[target] \in Row
          /\ rows[target].max_attempts \in Nat \ {0} /\ rows[target].type \in JobTypes
      BY <1>2, RunsFacts DEF Target, RunsInvariant, Dense, Row
    <2>2. PICK lock \in Spaces \cup {NoLock} :
              row = NewRow(rows[target].type, "queued", rows[target].max_attempts, lock, k)
      BY <1>2 DEF RequestedRow, RetryRow
    <2>3. /\ row \in Row /\ row.attempts = 0 /\ row.status = "queued"
          /\ row.max_attempts = rows[target].max_attempts
      BY <1>1, <2>1, <2>2, NewRowFacts
    <2> QED BY <1>2, <2>1, <2>3 DEF SynchronousKinds
  <1>3. CASE kind \in {"reindex", "run_maintenance", "retry_failed"}
    <2>1. PICK type \in JobTypes : row = NewRow(type, "queued", MaxAttempts, s, k)
      BY <1>1, <1>3 DEF RequestedRow, ReindexRow, MaintenanceRow
    <2> QED BY <1>1, <1>3, <2>1, NewRowFacts DEF SynchronousKinds
  <1>4. CASE kind \in SynchronousKinds
    <2>1. PICK type \in JobTypes, lock \in Spaces \cup {NoLock} :
              row = NewRow(type, "running", 1, lock, k)
      BY <1>1, <1>4 DEF SynchronousKinds, RequestedRow, RetireRow, CompareRow, CancelRow,
                        ActivateRow, MaintenanceRow
    <2>2. /\ row \in Row /\ row.attempts = 0 /\ row.status = "running"
          /\ row.max_attempts = 1
      BY <1>1, <2>1, NewRowFacts
    <2> QED BY <1>4, <2>2
  <1> QED BY <1>2, <1>3, <1>4 DEF AllKinds, SynchronousKinds

(* The payload of a request starts at the first batch.                      *)
LEMMA RequestPayloadFacts ==
    ASSUME RunsInvariant, NEW kind \in AllKinds, NEW s \in Spaces,
           NEW options \in Options \cup {"none"},
           NEW target \in JobIds \cup {NoJob}, Target(kind, s, target),
           NEW p, p = RequestPayload(kind, s, options, target)
    PROVE  p \in Payload /\ p.after = 0
  <1>1. CASE kind = "retry_run"
    <2>1. target \in JobIds /\ payload[target] \in Payload /\ 0 \in 0..MaxJobs
      BY <1>1, RunsFacts, TableAssumption DEF Target
    <2>2. p = RetryPayload(s, target)
      BY <1>1 DEF RequestPayload
    <2> QED BY <2>1, <2>2 DEF RetryPayload, Payload
  <1>2. CASE kind # "retry_run"
    BY <1>2, NoPayloadType DEF RequestPayload, Payload, AllKinds
  <1> QED BY <1>1, <1>2

-----------------------------------------------------------------------------
(* What a step leaves behind                                                *)

(* Nobody who stood behind a running row has walked away.                   *)
LEMMA BackedKept ==
    ASSUME Backed, RunningKept,
           \A j \in JobIds, r \in Requests :
              req[r].pc = "acting" /\ req[r].job = j /\ rows'[j].status = "running"
                  => req'[r].pc = "acting" /\ req'[r].job = j
    PROVE  Backed'
  BY DEF Backed, RunningKept

(* A step of one request that writes no row.                                *)
LEMMA AsksKeeps ==
    ASSUME RunsInvariant, UNCHANGED <<vars, payload, answered, lockSeen>>,
           NEW r \in Requests, NEW x \in RequestRow, req' = [req EXCEPT ![r] = x],
           Asked(x), x.pc = "acting" => x.job \in JobIds /\ Inserted(x.job),
           req[r].pc # "acting"
    PROVE  RunsInvariant'
  <1>1. /\ req' \in [Requests -> RequestRow] /\ req'[r] = x
        /\ \A q \in Requests : q # r => req'[q] = req[q]
    BY RunsFacts
  <1>2. UNCHANGED <<rows, pc, cur, seen, out, caller, reaper, phase, stops>>
    BY DEF vars
  <1>3. PoolCore' /\ RunningKept
    BY CoreStep, RunsFacts
  <1>4. RunsTypeOK'
    BY <1>1, <1>2, <1>3, RunsFacts DEF RunsTypeOK, PoolCore, RequestRow
  <1>5. Backed'
    BY <1>1, <1>2, <1>3, BackedKept DEF RunsInvariant
  <1>6. Dense' /\ Known'
    BY <1>1, <1>2 DEF RunsInvariant, Dense, Known, Inserted
  <1>7. ASSUME NEW q \in Requests PROVE Asked(req[q])'
    BY <1>1 DEF RunsInvariant, Asked, Asking
  <1> QED BY <1>3, <1>4, <1>5, <1>6, <1>7 DEF RunsInvariant

(* A row more: what every insert does to the table.                         *)
LEMMA InsertKeeps ==
    ASSUME RunsInvariant, NEW j \in JobIds, NextFree(rows, j), NEW row \in Row,
           row.status \in {"queued", "running"}, row.attempts = 0, row.max_attempts > 0,
           rows' = [rows EXCEPT ![j] = row], UniqueIndexes(rows'),
           NEW p \in Payload, p.after < j, payload' = [payload EXCEPT ![j] = p],
           UNCHANGED <<taskVars, caller, reaper, phase, stops>>
    PROVE  /\ PoolCore' /\ Dense' /\ payload' \in [JobIds -> Payload]
           /\ \A i \in JobIds : i # j => rows'[i] = rows[i]
           /\ rows'[j] = row
           /\ \A i \in JobIds : Inserted(i) => Inserted(i)'
           /\ row.status = "queued" => RunningKept
  <1>1. /\ rows' \in [JobIds -> Row] /\ rows'[j] = row
        /\ \A i \in JobIds : i # j => rows'[i] = rows[i]
        /\ payload' \in [JobIds -> Payload] /\ payload'[j] = p
        /\ \A i \in JobIds : i # j => payload'[i] = payload[i]
    BY RunsFacts
  <1>2. UNCHANGED <<pc, cur, seen, out, caller, reaper, phase, stops>>
    BY DEF taskVars
  <1>3. TypeOK'
    BY <1>1, <1>2, RunsFacts DEF TypeOK
  <1>4. \A v \in Workers : Executing(v) => cur[v] \in JobIds /\ cur[v] # j
    BY RunsFacts DEF NextFree, PoolCore, TypeOK, ExecutedRowExists, Executing
  <1>5. ExclusiveExecution' /\ ExecutedRowExists' /\ RequeueWithinBudget'
    BY <1>1, <1>2, <1>4, RunsFacts
       DEF PoolCore, ExclusiveExecution, ExecutedRowExists, RequeueWithinBudget, Executing
  <1>6. AttemptBudget'
    BY <1>1, RunsFacts DEF PoolCore, AttemptBudget, Row
  <1>7. UniqueIndexes(rows)' /\ ProcessShape'
    BY <1>2, RunsFacts DEF PoolCore, ProcessShape, UniqueIndexes, Active
  <1>8. Dense'
    <2>1. \A i \in JobIds : i < j => Inserted(i)
      BY DEF NextFree, Inserted
    <2>2. \A i \in JobIds : Inserted(i)' <=> Inserted(i) \/ i = j
      BY <1>1 DEF Inserted
    <2>3. \A i \in JobIds : i > j => ~Inserted(i)
      BY DEF RunsInvariant, Dense, NextFree, Inserted
    <2>4. \A i, k \in JobIds : i < k /\ Inserted(k)' => Inserted(i)'
      BY <2>1, <2>2, <2>3 DEF RunsInvariant, Dense, JobIds
    <2> QED BY <1>1, <2>4 DEF RunsInvariant, Dense
  <1>9. row.status = "queued" => RunningKept
    BY <1>1, <1>2, RunsFacts, <1>4 DEF RunningKept, Executing, PoolCore, ProcessShape
  <1>10. \A i \in JobIds : Inserted(i) => Inserted(i)'
    BY <1>1 DEF Inserted
  <1> QED BY <1>1, <1>3, <1>5, <1>6, <1>7, <1>8, <1>9, <1>10 DEF PoolCore

-----------------------------------------------------------------------------
(* Requests                                                                 *)

(* A request without a replay goes on to the lock check.                    *)
LEMMA OpenRequestKeeps ==
    ASSUME RunsInvariant, NEW r \in Requests, NEW kind \in RequestKinds, NEW s \in Spaces,
           NEW k \in Keys, NEW target \in JobIds \cup {NoJob},
           OpenRequest(r, kind, s, k, target)
    PROVE  RunsInvariant'
  <1> DEFINE row == RequestedRow(kind, s, k, target)
  <1>1. kind \in AllKinds /\ Target(kind, s, target)
    BY RunsAssumption DEF OpenRequest
  <1>2. /\ row \in Row /\ row.attempts = 0 /\ row.max_attempts > 0
        /\ row.status = IF kind \in SynchronousKinds THEN "running" ELSE "queued"
    BY <1>1, RequestedRowFacts
  <1>3. PICK options \in Options :
            req' = [req EXCEPT ![r] =
                      [pc |-> "keyed", kind |-> kind, row |-> row,
                       payload |-> RequestPayload(kind, s, options, target),
                       job |-> NoJob, target |-> Aim(kind, target)]]
    BY DEF OpenRequest
  <1> DEFINE p == RequestPayload(kind, s, options, target)
             aim == Aim(kind, target)
             x == [pc |-> "keyed", kind |-> kind, row |-> row, payload |-> p,
                   job |-> NoJob, target |-> aim]
  <1>4. p \in Payload /\ p.after = 0
    BY <1>1, RequestPayloadFacts
  <1>5. aim \in JobIds \cup {NoJob}
    BY DEF Aim
  <1>6. req' = [req EXCEPT ![r] = x] /\ req[r].pc # "acting"
    BY <1>3 DEF OpenRequest
  <1> HIDE DEF row, p, aim
  <1>7. x \in RequestRow /\ Asked(x) /\ x.pc # "acting"
    BY <1>1, <1>2, <1>4, <1>5 DEF RequestRow, Asked
  <1> HIDE DEF x
  <1> QED BY <1>6, <1>7, AsksKeeps DEF OpenRequest

(* A replay acts on a row that was inserted before.                         *)
LEMMA ResumeReplayKeeps ==
    ASSUME RunsInvariant, NEW r \in Requests, NEW kind \in RequestKinds, NEW s \in Spaces,
           NEW k \in Keys, NEW target \in JobIds \cup {NoJob},
           ResumeReplay(r, kind, s, k, target)
    PROVE  RunsInvariant'
  <1>1. PICK j \in find_replay(RequestedRow(kind, s, k, target).type, k) :
            req' = [req EXCEPT ![r] =
                      [pc |-> "acting", kind |-> kind, row |-> rows[j],
                       payload |-> payload[j], job |-> j, target |-> Aim(kind, target)]]
    BY DEF ResumeReplay
  <1>2. j \in JobIds /\ Inserted(j)
    BY DEF find_replay, Inserted
  <1> DEFINE aim == Aim(kind, target)
             x == [pc |-> "acting", kind |-> kind, row |-> rows[j],
                   payload |-> payload[j], job |-> j, target |-> aim]
  <1>3. aim \in JobIds \cup {NoJob}
    BY DEF Aim
  <1>4. req' = [req EXCEPT ![r] = x] /\ req[r].pc # "acting"
    BY <1>1 DEF ResumeReplay
  <1> HIDE DEF aim
  <1>5. x \in RequestRow /\ Asked(x) /\ x.job = j
    BY <1>2, <1>3, RunsFacts, RunsAssumption DEF RequestRow, Asked, Asking
  <1> HIDE DEF x
  <1> QED BY <1>2, <1>4, <1>5, AsksKeeps DEF ResumeReplay

(* The lock check answers or goes on, and writes nothing.                   *)
LEMMA CheckLockKeeps ==
    ASSUME RunsInvariant, NEW r \in Requests, CheckLock(r)
    PROVE  RunsInvariant'
  <1>1. req[r].pc = "keyed" /\ req[r] \in RequestRow /\ Asked(req[r])
    BY RunsFacts DEF CheckLock, RunsInvariant
  <1>2. CASE req' = [req EXCEPT ![r] = NoRequest]
    BY <1>1, <1>2, NoRequestFacts, AsksKeeps DEF CheckLock
  <1>3. CASE req' = [req EXCEPT ![r].pc = "checked"]
    <2> DEFINE x == [req[r] EXCEPT !.pc = "checked"]
    <2>1. req' = [req EXCEPT ![r] = x]
      BY <1>3
    <2>2. x \in RequestRow /\ Asked(x) /\ x.pc = "checked"
      BY <1>1 DEF RequestRow, Asked, Asking
    <2> HIDE DEF x
    <2> QED BY <1>1, <2>1, <2>2, AsksKeeps DEF CheckLock
  <1> QED BY <1>2, <1>3 DEF CheckLock

(* A queued row is left to the workers, a running one to its request.       *)
LEMMA InsertRunKeeps ==
    ASSUME RunsInvariant, NEW r \in Requests, InsertRun(r)
    PROVE  RunsInvariant'
  <1>1. PICK j \in JobIds :
            LET t == [rows EXCEPT ![j] = req[r].row]
            IN  /\ NextFree(rows, j)
                /\ \/ /\ UniqueIndexes(t)
                      /\ rows' = t
                      /\ payload' = [payload EXCEPT ![j] = req[r].payload]
                      /\ req' = IF req[r].kind \in SynchronousKinds
                                THEN [req EXCEPT ![r].pc = "acting", ![r].job = j]
                                ELSE [req EXCEPT ![r] = NoRequest]
                   \/ /\ ~UniqueIndexes(t)
                      /\ req' = [req EXCEPT ![r] = NoRequest]
                      /\ UNCHANGED <<rows, payload>>
    BY DEF InsertRun
  <1>2. /\ req[r].pc = "checked" /\ req[r] \in RequestRow /\ Asked(req[r])
        /\ UNCHANGED <<taskVars, caller, reaper, phase, stops, answered, lockSeen>>
    BY RunsFacts DEF InsertRun, RunsInvariant
  <1>3. CASE UNCHANGED <<rows, payload>>
    <2>1. req' = [req EXCEPT ![r] = NoRequest] \/ rows' # rows
      BY <1>1, <1>2, <1>3, RunsFacts DEF NextFree, Asked, Asking
    <2> QED BY <1>2, <1>3, <2>1, NoRequestFacts, AsksKeeps DEF vars, taskVars
  <1>4. CASE ~UNCHANGED <<rows, payload>>
    <2> DEFINE row == req[r].row
               p == req[r].payload
    <2>1. /\ NextFree(rows, j) /\ UniqueIndexes(rows')
          /\ rows' = [rows EXCEPT ![j] = row] /\ payload' = [payload EXCEPT ![j] = p]
          /\ req' = IF req[r].kind \in SynchronousKinds
                     THEN [req EXCEPT ![r].pc = "acting", ![r].job = j]
                     ELSE [req EXCEPT ![r] = NoRequest]
      BY <1>1, <1>4
    <2>2. /\ row \in Row /\ row.attempts = 0 /\ row.max_attempts > 0
          /\ row.status = IF req[r].kind \in SynchronousKinds THEN "running" ELSE "queued"
          /\ p \in Payload /\ p.after < j
      BY <1>2 DEF RequestRow, Asked, Asking, JobIds
    <2> HIDE DEF row, p
    <2>3. /\ PoolCore' /\ Dense' /\ payload' \in [JobIds -> Payload]
          /\ \A i \in JobIds : i # j => rows'[i] = rows[i]
          /\ rows'[j] = row
          /\ \A i \in JobIds : Inserted(i) => Inserted(i)'
          /\ row.status = "queued" => RunningKept
      BY <1>2, <2>1, <2>2, InsertKeeps
    <2>4. Inserted(j)'
      BY <2>2, <2>3 DEF Inserted
    <2>5. CASE req[r].kind \in SynchronousKinds
      <3> DEFINE x == [req[r] EXCEPT !.pc = "acting", !.job = j]
      <3>1. x \in RequestRow /\ x.pc = "acting" /\ x.job = j
        BY <1>2 DEF RequestRow
      <3>2. req' = [req EXCEPT ![r] = x]
        BY <2>1, <2>5, RunsFacts
      <3> HIDE DEF x
      <3>3. /\ req' \in [Requests -> RequestRow] /\ req'[r] = x
            /\ \A q \in Requests : q # r => req'[q] = req[q]
        BY <3>1, <3>2, RunsFacts
      <3>4. RunsTypeOK'
        BY <1>2, <2>3, <3>1, <3>3, RunsFacts DEF RunsTypeOK, PoolCore, RequestRow
      <3>5. Backed'
        BY <1>2, <2>3, <3>1, <3>3 DEF RunsInvariant, Backed, Executing, taskVars
      <3>6. Known'
        BY <1>2, <2>3, <2>4, <3>1, <3>3, RunsFacts DEF RunsInvariant, Known, TypeOK
      <3>7. ASSUME NEW q \in Requests PROVE Asked(req[q])'
        BY <3>1, <3>3 DEF RunsInvariant, Asked, Asking
      <3> QED BY <2>3, <3>4, <3>5, <3>6, <3>7 DEF RunsInvariant
    <2>6. CASE req[r].kind \notin SynchronousKinds
      <3>1. /\ req' \in [Requests -> RequestRow] /\ req'[r] = NoRequest
            /\ \A q \in Requests : q # r => req'[q] = req[q]
        BY <2>1, <2>6, RunsFacts, NoRequestFacts
      <3>2. RunsTypeOK'
        BY <1>2, <2>3, <3>1, RunsFacts, NoRequestFacts DEF RunsTypeOK, PoolCore, RequestRow
      <3>3. Backed'
        BY <1>2, <2>2, <2>3, <2>6, <3>1, BackedKept DEF RunsInvariant
      <3>4. Known'
        BY <1>2, <2>3, <3>1, NoRequestFacts, RunsFacts DEF RunsInvariant, Known, TypeOK
      <3>5. ASSUME NEW q \in Requests PROVE Asked(req[q])'
        BY <3>1, NoRequestFacts DEF RunsInvariant, Asked, Asking
      <3> QED BY <2>3, <3>2, <3>3, <3>4, <3>5 DEF RunsInvariant
    <2> QED BY <2>5, <2>6
  <1> QED BY <1>3, <1>4

(* The commit of an action, on its row and on the flag of another.          *)
LEMMA EndActionRows ==
    ASSUME RunsInvariant, NEW r \in Requests, NEW status \in {"succeeded", "failed"},
           EndAction(r, status)
    PROVE  /\ rows' \in [JobIds -> Row]
           /\ rows'[req[r].job].status = status /\ rows'[req[r].job].lock_key = NoLock
           /\ \A i \in JobIds :
                /\ i # req[r].job =>
                      /\ rows'[i].status = rows[i].status
                      /\ rows'[i].lock_key = rows[i].lock_key
                /\ rows'[i].type = rows[i].type
                /\ rows'[i].idempotency_key = rows[i].idempotency_key
                /\ rows'[i].attempts = rows[i].attempts
                /\ rows'[i].max_attempts = rows[i].max_attempts
  <1> DEFINE j == req[r].job
             done == [rows EXCEPT ![j].status = status, ![j].lock_key = NoLock]
  <1>1. j \in JobIds /\ req[r].target \in JobIds \cup {NoJob} /\ rows \in [JobIds -> Row]
    BY RunsFacts DEF EndAction, RequestRow
  <1>2. /\ done \in [JobIds -> Row]
        /\ done[j].status = status /\ done[j].lock_key = NoLock
        /\ \A i \in JobIds : i # j => done[i] = rows[i]
        /\ \A i \in JobIds :
              /\ done[i].type = rows[i].type
              /\ done[i].idempotency_key = rows[i].idempotency_key
              /\ done[i].attempts = rows[i].attempts
              /\ done[i].max_attempts = rows[i].max_attempts
    BY <1>1 DEF Row, Statuses, TerminalStatuses
  <1>3. rows' = done \/ rows' = RequestCancel(done, req[r].target)
    BY DEF EndAction
  <1>4. rows' = done \/ Alike(done, rows')
    <2>1. CASE req[r].target = NoJob
      BY <2>1 DEF EndAction
    <2>2. CASE req[r].target # NoJob
      <3> HIDE DEF done
      <3> QED BY <1>1, <1>2, <1>3, <2>2, AlikeFacts
    <2> QED BY <2>1, <2>2
  <1> HIDE DEF done, j
  <1>5. /\ rows' \in [JobIds -> Row]
        /\ \A i \in JobIds : /\ rows'[i].status = done[i].status
                            /\ rows'[i].lock_key = done[i].lock_key
                            /\ rows'[i].type = done[i].type
                            /\ rows'[i].idempotency_key = done[i].idempotency_key
                            /\ rows'[i].attempts = done[i].attempts
                            /\ rows'[i].max_attempts = done[i].max_attempts
    BY <1>2, <1>4 DEF Alike
  <1> QED BY <1>1, <1>2, <1>5 DEF j

(* The end of an action settles its own row.                                *)
LEMMA EndActionKeeps ==
    ASSUME RunsInvariant, NEW r \in Requests, NEW status \in {"succeeded", "failed"},
           EndAction(r, status)
    PROVE  RunsInvariant'
  <1> DEFINE j == req[r].job
  <1>1. /\ j \in JobIds /\ Inserted(j) /\ req[r].pc = "acting"
        /\ req' = [req EXCEPT ![r] = NoRequest] /\ answered' \subseteq JobIds
        /\ UNCHANGED <<taskVars, caller, reaper, phase, stops, payload, lockSeen>>
    BY RunsFacts DEF EndAction, RunsInvariant, Known
  <1>2. /\ rows' \in [JobIds -> Row] /\ rows'[j].status \in TerminalStatuses
        /\ \A i \in JobIds :
              /\ i # j => /\ rows'[i].status = rows[i].status
                          /\ rows'[i].lock_key = rows[i].lock_key
              /\ rows'[i].type = rows[i].type
              /\ rows'[i].idempotency_key = rows[i].idempotency_key
              /\ rows'[i].attempts = rows[i].attempts
              /\ rows'[i].max_attempts = rows[i].max_attempts
    BY EndActionRows DEF TerminalStatuses
  <1> HIDE DEF j
  <1>3. PoolCore' /\ RunningKept
    <2>1. /\ caller' \in [job : JobIds \cup {NoJob}, saw : Statuses]
          /\ reaper' \in SUBSET JobIds
      BY <1>1, RunsFacts DEF TypeOK
    <2>2. \A i \in JobIds :
              \/ rows'[i].status \in TerminalStatuses
              \/ /\ rows'[i].status = rows[i].status
                 /\ rows'[i].type = rows[i].type
                 /\ rows'[i].lock_key = rows[i].lock_key
                 /\ rows'[i].idempotency_key = rows[i].idempotency_key
      BY <1>2
    <2> QED BY <1>1, <1>2, <2>1, <2>2, RunsFacts, SettleInv
  <1>4. /\ req' \in [Requests -> RequestRow] /\ req'[r] = NoRequest
        /\ \A q \in Requests : q # r => req'[q] = req[q]
    BY <1>1, RunsFacts, NoRequestFacts
  <1>5. RunsTypeOK'
    BY <1>1, <1>3, <1>4, RunsFacts, NoRequestFacts DEF RunsTypeOK, PoolCore, RequestRow
  <1>6. Backed'
    <2>1. \A i \in JobIds, q \in Requests :
              req[q].pc = "acting" /\ req[q].job = i /\ rows'[i].status = "running"
                  => req'[q].pc = "acting" /\ req'[q].job = i
      BY <1>2, <1>4 DEF TerminalStatuses, j
    <2> QED BY <1>3, <2>1, BackedKept DEF RunsInvariant
  <1>7. \A i \in JobIds : Inserted(i)' <=> Inserted(i)
    BY <1>1, <1>2 DEF Inserted, TerminalStatuses
  <1>8. Dense'
    BY <1>1, <1>2, <1>7 DEF RunsInvariant, Dense
  <1>9. Known'
    BY <1>1, <1>4, <1>7, RunsFacts, NoRequestFacts DEF RunsInvariant, Known, TypeOK
  <1>10. ASSUME NEW q \in Requests PROVE Asked(req[q])'
    BY <1>4, NoRequestFacts DEF RunsInvariant, Asked, Asking
  <1> QED BY <1>3, <1>5, <1>6, <1>8, <1>9, <1>10 DEF RunsInvariant

-----------------------------------------------------------------------------
(* The pool's own steps                                                     *)

(* The rows of t and u are the same jobs.                                   *)
SameJobs(t, u) ==
    \A i \in JobIds :
        /\ u[i].type = t[i].type
        /\ u[i].max_attempts = t[i].max_attempts
        /\ u[i].status = "absent" <=> t[i].status = "absent"

(* No statement on the table makes another job of a row.                    *)
LEMMA SameJobsFacts ==
    ASSUME NEW t \in [JobIds -> Row]
    PROVE  /\ \A j \in JobIds, s \in Statuses :
                t[j].status # "absent" => SameJobs(t, SetStatus(t, j, s))
           /\ \A j \in JobIds :
                t[j].status # "absent" => SameJobs(t, Claim(t, j))
           /\ \A u \in [JobIds -> Row] : Alike(t, u) => SameJobs(t, u)
           /\ \A S \in SUBSET JobIds :
                (\A j \in S : t[j].status # "absent") => SameJobs(t, Reap(t, S))
           /\ SameJobs(t, RecoverOrphans(t))
  <1>1. ASSUME NEW j \in JobIds, NEW s \in Statuses, t[j].status # "absent"
        PROVE  SameJobs(t, SetStatus(t, j, s))
    <2> DEFINE u == SetStatus(t, j, s)
    <2>1. /\ u[j].status = s /\ \A i \in JobIds : i # j => u[i] = t[i]
          /\ \A i \in JobIds : u[i].type = t[i].type /\ u[i].max_attempts = t[i].max_attempts
      BY <1>1, SetStatusFacts
    <2>2. s # "absent"
      BY DEF Statuses, ActiveStatuses, TerminalStatuses
    <2> HIDE DEF u
    <2>3. SameJobs(t, u)
      BY <1>1, <2>1, <2>2 DEF SameJobs
    <2> QED BY <2>3 DEF u
  <1>2. ASSUME NEW j \in JobIds, t[j].status # "absent"
        PROVE  SameJobs(t, Claim(t, j))
    <2> DEFINE u == Claim(t, j)
    <2>1. /\ u[j].status = "running" /\ \A i \in JobIds : i # j => u[i] = t[i]
          /\ u[j].type = t[j].type /\ u[j].max_attempts = t[j].max_attempts
      BY ClaimFacts
    <2> HIDE DEF u
    <2>2. SameJobs(t, u)
      BY <1>2, <2>1 DEF SameJobs
    <2> QED BY <2>2 DEF u
  <1>3. ASSUME NEW u \in [JobIds -> Row], Alike(t, u) PROVE SameJobs(t, u)
    BY <1>3 DEF Alike, SameJobs
  <1>4. ASSUME NEW S \in SUBSET JobIds, \A j \in S : t[j].status # "absent"
        PROVE  SameJobs(t, Reap(t, S))
    <2>1. \A i \in JobIds : t[i] \in Row
      OBVIOUS
    <2> QED BY <1>4, <2>1 DEF SameJobs, Reap, Row
  <1>5. SameJobs(t, RecoverOrphans(t))
    <2> DEFINE u == RecoverOrphans(t)
    <2>1. \A i \in JobIds :
              /\ t[i].status # "running" => u[i] = t[i]
              /\ t[i].status = "running" => u[i].status \in {"queued", "failed"}
              /\ u[i].type = t[i].type /\ u[i].max_attempts = t[i].max_attempts
      BY RecoverFacts
    <2> HIDE DEF u
    <2>2. SameJobs(t, u)
      BY <2>1 DEF SameJobs
    <2> QED BY <2>2 DEF u
  <1> QED BY <1>1, <1>2, <1>3, <1>4, <1>5

(* No step of the queue takes a row away or changes what it is.             *)
LEMMA QueueRows ==
    ASSUME RunsInvariant,
           \/ \E w \in Workers : WorkerStep(w)
           \/ CancelStep \/ ReaperStep \/ ProcessStep
    PROVE  SameJobs(rows, rows')
  <1>1. /\ rows \in [JobIds -> Row] /\ TypeOK /\ ExecutedRowExists
        /\ Known
    BY RunsFacts DEF PoolCore, RunsInvariant
  <1>2. CASE UNCHANGED rows
    BY <1>2 DEF SameJobs
  <1>3. ASSUME NEW w \in Workers, ClaimWon(w)
        PROVE  SameJobs(rows, rows')
    <2>1. cur[w] \in JobIds /\ rows' = Claim(rows, cur[w]) /\ rows[cur[w]].status = "queued"
      BY <1>1, <1>3 DEF ClaimWon, TypeOK
    <2> QED BY <1>1, <2>1, SameJobsFacts
  <1>4. ASSUME NEW w \in Workers, Progress(w)
        PROVE  SameJobs(rows, rows')
    <2>1. cur[w] \in JobIds /\ rows' = Beat(rows, cur[w])
      BY <1>1, <1>4 DEF Progress, TypeOK
    <2>2. Alike(rows, rows') /\ rows' \in [JobIds -> Row]
      BY <1>1, <2>1, AlikeFacts DEF Alike
    <2> QED BY <1>1, <2>2, SameJobsFacts
  <1>5. ASSUME NEW w \in Workers, WriteOutcome(w)
        PROVE  SameJobs(rows, rows')
    <2>1. /\ cur[w] \in JobIds /\ rows' = SetStatus(rows, cur[w], out[w])
          /\ rows[cur[w]].status # "absent" /\ out[w] \in Statuses
      BY <1>1, <1>5 DEF WriteOutcome, TypeOK, ExecutedRowExists, Executing, Outcomes,
                        Statuses, ActiveStatuses, TerminalStatuses
    <2> QED BY <1>1, <2>1, SameJobsFacts
  <1>6. CASE CancelCommit
    <2>1. /\ caller.job \in JobIds /\ rows[caller.job].status # "absent"
          /\ \/ rows' = SetStatus(rows, caller.job, "cancelled")
             \/ rows' = RequestCancel(rows, caller.job)
      BY <1>1, <1>6 DEF CancelCommit, TypeOK, Known, Inserted
    <2>2. "cancelled" \in Statuses
      BY DEF Statuses, TerminalStatuses
    <2>3. CASE rows' = RequestCancel(rows, caller.job)
      <3>1. Alike(rows, rows') /\ rows' \in [JobIds -> Row]
        BY <1>1, <2>1, <2>3, AlikeFacts DEF Alike
      <3> QED BY <1>1, <3>1, SameJobsFacts
    <2> QED BY <1>1, <2>1, <2>2, <2>3, SameJobsFacts
  <1>7. CASE ReapCommit
    <2>1. /\ rows' = Reap(rows, reaper) /\ reaper \in SUBSET JobIds
          /\ \A j \in reaper : rows[j].status # "absent"
      BY <1>1, <1>7 DEF ReapCommit, TypeOK, Known, Inserted
    <2> QED BY <1>1, <2>1, SameJobsFacts
  <1>8. ASSUME NEW j \in JobIds, HeartbeatExpires(j)
        PROVE  SameJobs(rows, rows')
    <2>1. Alike(rows, rows') /\ rows' \in [JobIds -> Row]
      BY <1>1, <1>8, AlikeFacts DEF HeartbeatExpires, Alike
    <2> QED BY <1>1, <2>1, SameJobsFacts
  <1>9. CASE Boot
    <2> DEFINE t == Reap(rows, Stalled(rows))
    <2>1. Stalled(rows) \in SUBSET JobIds /\ \A j \in Stalled(rows) : rows[j].status # "absent"
      BY DEF Stalled
    <2>2. SameJobs(rows, t) /\ t \in [JobIds -> Row] /\ rows' = RecoverOrphans(t)
      BY <1>1, <1>9, <2>1, SameJobsFacts, ReapFacts DEF Boot
    <2> HIDE DEF t
    <2>3. SameJobs(t, rows')
      BY <2>2, SameJobsFacts
    <2> QED BY <2>2, <2>3 DEF SameJobs
  <1> QED BY <1>2, <1>3, <1>4, <1>5, <1>6, <1>7, <1>8, <1>9
          DEF WorkerStep, TaskStep, HandlerEnds, Finish, SelectOldest, SelectNone, ClaimLost,
              Refresh, HandlerRollback, CheckCancelled, HandlerReturns, HandlerRaises,
              WriteRefused, CancelStep, CancelRead, ReaperStep, ReapRead, ProcessStep, Crash,
              BeginShutdown, StopWorkers, Halt

(* A step that keeps the jobs keeps their order and their cursors.          *)
LEMMA DenseKept ==
    ASSUME RunsInvariant, SameJobs(rows, rows'), UNCHANGED payload
    PROVE  Dense' /\ \A i \in JobIds : Inserted(i) => Inserted(i)'
  BY DEF RunsInvariant, Dense, SameJobs, Inserted

(* A worker's step, with what its session learns of the lock.               *)
LEMMA RunsWorkerStepKeeps ==
    ASSUME RunsInvariant, NEW w \in Workers, RunsWorkerStep(w)
    PROVE  RunsInvariant'
  <1>1. WorkerStep(w) /\ UNCHANGED <<req, payload>>
    BY DEF RunsWorkerStep
  <1>2. PoolCore' /\ RunningKept
    BY <1>1, CoreStep, RunsFacts DEF Next
  <1>3. UNCHANGED <<caller, reaper>>
    BY <1>1 DEF WorkerStep, TaskStep, HandlerEnds, Finish, SelectOldest, SelectNone,
                ClaimWon, ClaimLost, Refresh, Progress, HandlerRollback, CheckCancelled,
                HandlerReturns, HandlerRaises, WriteOutcome, WriteRefused, taskVars
  <1>4. Dense' /\ \A i \in JobIds : Inserted(i) => Inserted(i)'
    BY <1>1, <1>2, QueueRows, DenseKept
  <1>5. lockSeen' \in [Workers -> Spaces \cup {NoLock}]
    <2>1. CASE cur'[w] # NoJob /\ LoadsRow(w)
      <3>1. cur[w] \in JobIds
        BY <1>1, <2>1, RunsFacts
           DEF LoadsRow, WorkerStep, TaskStep, HandlerEnds, Finish, SelectOldest, SelectNone,
               ClaimWon, ClaimLost, Refresh, Progress, HandlerRollback, CheckCancelled,
               HandlerReturns, HandlerRaises, WriteOutcome, WriteRefused, TypeOK, Drop,
               taskVars
      <3>2. rows[cur[w]].lock_key \in Spaces \cup {NoLock}
        BY <3>1, RunsFacts DEF Row
      <3> QED BY <2>1, <3>2, RunsFacts DEF RunsWorkerStep
    <2>2. CASE ~(cur'[w] # NoJob /\ LoadsRow(w))
      BY <2>2, RunsFacts DEF RunsWorkerStep
    <2> QED BY <2>1, <2>2
  <1>6. answered' \subseteq JobIds
    BY RunsFacts DEF RunsWorkerStep
  <1>7. RunsTypeOK'
    BY <1>1, <1>2, <1>5, <1>6, RunsFacts DEF RunsTypeOK, PoolCore, RequestRow
  <1>8. Backed'
    BY <1>1, <1>2, BackedKept DEF RunsInvariant
  <1>9. Known'
    BY <1>1, <1>3, <1>4, RunsFacts DEF RunsInvariant, Known, TypeOK
  <1>10. ASSUME NEW q \in Requests PROVE Asked(req[q])'
    BY <1>1 DEF RunsInvariant, Asked, Asking
  <1> QED BY <1>2, <1>4, <1>7, <1>8, <1>9, <1>10 DEF RunsInvariant

(* Cancels, reaper, shutdown and boot, as far as the faults allow.          *)
LEMMA QueueStepKeeps ==
    ASSUME RunsInvariant, QueueStep
    PROVE  RunsInvariant'
  <1>1. CancelStep \/ ReaperStep \/ ProcessStep
    BY DEF QueueStep, ProcessStep
  <1>2. UNCHANGED <<req, payload, answered, lockSeen>>
    BY DEF QueueStep, runVars
  <1>3. PoolCore' /\ RunningKept
    BY <1>1, CoreStep, RunsFacts DEF Next
  <1>4. Dense' /\ \A i \in JobIds : Inserted(i) => Inserted(i)'
    BY <1>1, <1>2, QueueRows, DenseKept
  <1>5. Known'
    <2>1. caller'.job # NoJob => caller'.job = caller.job \/ Inserted(caller'.job)
      BY <1>1 DEF CancelStep, CancelRead, CancelCommit, ReaperStep, ReapRead, ReapCommit,
                  HeartbeatExpires, ProcessStep, Crash, BeginShutdown, StopWorkers, Halt,
                  Boot, NoCaller, Inserted, Active, ActiveStatuses
    <2>2. \A j \in reaper' : j \in reaper \/ Inserted(j)
      BY <1>1 DEF CancelStep, CancelRead, CancelCommit, ReaperStep, ReapRead, ReapCommit,
                  HeartbeatExpires, ProcessStep, Crash, BeginShutdown, StopWorkers, Halt,
                  Boot, Inserted, Stalled
    <2>3. caller'.job \in JobIds \cup {NoJob} /\ reaper' \subseteq JobIds
      BY <1>3 DEF PoolCore, TypeOK
    <2> QED BY <1>2, <1>4, <2>1, <2>2, <2>3, RunsFacts DEF RunsInvariant, Known
  <1>6. RunsTypeOK'
    BY <1>2, <1>3, RunsFacts DEF RunsTypeOK, PoolCore, RequestRow
  <1>7. Backed'
    BY <1>2, <1>3, BackedKept DEF RunsInvariant
  <1>9. ASSUME NEW q \in Requests PROVE Asked(req[q])'
    BY <1>2 DEF RunsInvariant, Asked, Asking
  <1> QED BY <1>3, <1>4, <1>5, <1>6, <1>7, <1>9 DEF RunsInvariant

(* The end of the process takes the requests with it.                       *)
LEMMA RunsHaltKeeps ==
    ASSUME RunsInvariant, RunsHalt
    PROVE  RunsInvariant'
  <1>1. /\ ProcessStep /\ phase' = "down" /\ caller' = NoCaller /\ reaper' = {}
        /\ rows' = rows
        /\ req' = [r \in Requests |-> NoRequest]
        /\ lockSeen' = [w \in Workers |-> NoLock]
        /\ UNCHANGED <<payload, answered>>
    BY DEF RunsHalt, ProcessStep, Crash, StopWorkers, Halt
  <1>2. PoolCore'
    BY <1>1, CoreStep, RunsFacts DEF Next
  <1>3. RunsTypeOK'
    BY <1>1, <1>2, RunsFacts, NoRequestFacts DEF RunsTypeOK, PoolCore, RequestRow
  <1>4. Backed' /\ Dense' /\ Known'
    BY <1>1, NoRequestFacts DEF Backed, RunsInvariant, Dense, Known, Inserted, NoCaller
  <1>5. ASSUME NEW q \in Requests PROVE Asked(req[q])'
    BY <1>1, NoRequestFacts DEF Asked, Asking
  <1> QED BY <1>2, <1>3, <1>4, <1>5 DEF RunsInvariant

-----------------------------------------------------------------------------
(* Rows that come from rows                                                 *)

(* What the bulk requeue and a continuation insert.                         *)
LEMMA ClonedRowFacts ==
    ASSUME NEW type \in JobTypes, NEW max \in Nat, NEW lock \in Spaces \cup {NoLock}
    PROVE  LET row == NewRow(type, "queued", max, lock, NoKey)
           IN  /\ row \in Row /\ row.type = type /\ row.status = "queued"
               /\ row.attempts = 0 /\ row.max_attempts = max
               /\ row.lock_key = lock /\ row.idempotency_key = NoKey
  <1>1. "queued" \in Statuses /\ NoKey \in Keys \cup {NoKey}
    BY DEF Statuses, ActiveStatuses
  <1> QED BY <1>1, NewRowFacts

(* The clone of an exhausted row: no lock and no key to collide with.       *)
LEMMA RequeueFailedKeeps ==
    ASSUME RunsInvariant, NEW j \in JobIds, RequeueFailed(j)
    PROVE  RunsInvariant'
  <1> DEFINE row == NewRow(rows[j].type, "queued", rows[j].max_attempts, NoLock, NoKey)
             p == payload[j]
  <1>1. PICK k \in JobIds : /\ NextFree(rows, k)
                            /\ rows' = [rows EXCEPT ![k] = row]
                            /\ payload' = [payload EXCEPT ![k] = p]
    BY DEF RequeueFailed
  <1>2. UNCHANGED <<taskVars, caller, reaper, phase, stops, req, answered, lockSeen>>
    BY DEF RequeueFailed
  <1>3. /\ row \in Row /\ row.status = "queued" /\ row.attempts = 0 /\ row.max_attempts > 0
        /\ row.lock_key = NoLock /\ row.idempotency_key = NoKey
    <2>1. /\ rows[j].type \in JobTypes /\ rows[j].max_attempts \in Nat
          /\ rows[j].max_attempts > 0
      BY RunsFacts DEF Row, RunsInvariant, Dense
    <2> QED BY <2>1, ClonedRowFacts
  <1>4. j < k
    <2>1. Inserted(j) /\ ~Inserted(k)
      BY <1>1 DEF RequeueFailed, NextFree, Inserted
    <2> QED BY <2>1 DEF RunsInvariant, Dense, JobIds
  <1>5. p \in Payload /\ p.after < k
    <2>1. p \in Payload /\ p.after < j /\ p.after \in Nat
      BY RunsFacts DEF RunsInvariant, Dense, Payload
    <2> QED BY <1>4, <2>1 DEF JobIds
  <1> HIDE DEF row, p
  <1>6. UniqueIndexes(rows')
    BY <1>1, <1>3, RunsFacts DEF PoolCore, UniqueIndexes, Active
  <1>7. /\ PoolCore' /\ Dense' /\ payload' \in [JobIds -> Payload] /\ RunningKept
        /\ \A i \in JobIds : i # k => rows'[i] = rows[i]
        /\ \A i \in JobIds : Inserted(i) => Inserted(i)'
    BY <1>1, <1>2, <1>3, <1>5, <1>6, InsertKeeps
  <1>8. RunsTypeOK'
    BY <1>2, <1>7, RunsFacts DEF RunsTypeOK, PoolCore, RequestRow
  <1>9. Backed'
    BY <1>2, <1>7, BackedKept DEF RunsInvariant
  <1>10. Known'
    BY <1>2, <1>7, RunsFacts DEF RunsInvariant, Known, TypeOK
  <1>11. ASSUME NEW q \in Requests PROVE Asked(req[q])'
    BY <1>2 DEF RunsInvariant, Asked, Asking
  <1> QED BY <1>7, <1>8, <1>9, <1>10, <1>11 DEF RunsInvariant

(* A handler that chains ends like one that returns, and leaves one row     *)
(* more, whatever becomes of the lock.                                      *)
LEMMA HandlerContinuesKeeps ==
    ASSUME RunsInvariant, NEW w \in Workers, HandlerContinues(w)
    PROVE  RunsInvariant'
  <1> DEFINE j == cur[w]
             lock == LockObserved(w)
  <1>1. /\ pc[w] = "running" /\ j \in JobIds /\ rows[j] \in Row /\ Inserted(j)
        /\ rows[j].status # "queued" /\ rows[j].max_attempts > 0
        /\ payload[j] \in Payload /\ payload[j].after < j
        /\ \A v \in Workers : v # w /\ Executing(v) => cur[v] # j
    BY RunsFacts DEF HandlerContinues, PoolCore, TypeOK, ExecutedRowExists, Executing,
                     ExclusiveExecution, Inserted, RunsInvariant, Dense
  <1>2. lock \in Spaces \cup {NoLock}
    BY <1>1, RunsFacts DEF LockObserved, Row
  <1>3. PICK k \in JobIds :
            LET t == HandOver(rows, j, k, lock)
            IN  /\ NextFree(rows, k)
                /\ \/ /\ UniqueIndexes(t)
                      /\ rows' = t
                      /\ payload' = [payload EXCEPT ![k] = continuation_payload(j)]
                      /\ out' = [out EXCEPT ![w] =
                            IF Observed(w) = "set" THEN "cancelled" ELSE "succeeded"]
                   \/ /\ ~UniqueIndexes(t)
                      /\ out' = [out EXCEPT ![w] =
                            IF Flag(j) = "set" THEN "cancelled" ELSE "succeeded"]
                      /\ UNCHANGED <<rows, payload>>
    BY DEF HandlerContinues
  <1>4. /\ pc' = [pc EXCEPT ![w] = "writing"]
        /\ UNCHANGED <<cur, seen, caller, reaper, phase, stops, req, answered, lockSeen>>
        /\ \E o \in {"cancelled", "succeeded"} : out' = [out EXCEPT ![w] = o]
    BY <1>3 DEF HandlerContinues
  <1>5. /\ pc \in [Workers -> PcValues] /\ out \in [Workers -> Outcomes]
        /\ pc' \in [Workers -> PcValues] /\ out' \in [Workers -> Outcomes]
        /\ {"cancelled", "succeeded"} \subseteq Outcomes
        /\ \A v \in Workers : Executing(v)' <=> Executing(v)
        /\ \A v \in Workers : pc'[v] = "writing" /\ out'[v] = "queued" =>
                                  pc[v] = "writing" /\ out[v] = "queued" /\ v # w
    BY <1>1, <1>4, RunsFacts DEF TypeOK, PcValues, Outcomes, TerminalStatuses, Executing
  <1>6. ProcessShape'
    BY <1>1, <1>4, RunsFacts, WorkersFacts DEF PoolCore, ProcessShape, TypeOK
  <1>7. CASE UNCHANGED <<rows, payload>>
    <2>1. PoolCore'
      <3>1. TypeOK'
        BY <1>1, <1>4, <1>5, <1>7, RunsFacts DEF TypeOK
      <3>2. ExclusiveExecution' /\ AttemptBudget' /\ UniqueIndexes(rows)'
            /\ ExecutedRowExists' /\ RequeueWithinBudget'
        BY <1>4, <1>5, <1>7, RunsFacts
           DEF PoolCore, ExclusiveExecution, AttemptBudget, UniqueIndexes, Active,
               ExecutedRowExists, RequeueWithinBudget
      <3> QED BY <1>6, <3>1, <3>2 DEF PoolCore
    <2>2. RunsTypeOK'
      BY <1>4, <1>7, <2>1, RunsFacts DEF RunsTypeOK, PoolCore, RequestRow
    <2>3. Backed' /\ Dense' /\ Known'
      BY <1>4, <1>5, <1>7 DEF RunsInvariant, Backed, Dense, Known, Inserted
    <2>4. ASSUME NEW q \in Requests PROVE Asked(req[q])'
      BY <1>4 DEF RunsInvariant, Asked, Asking
    <2> QED BY <2>1, <2>2, <2>3, <2>4 DEF RunsInvariant
  <1>8. CASE ~UNCHANGED <<rows, payload>>
    <2> DEFINE row == NewRow("vector_reconcile", "queued", rows[j].max_attempts, lock, NoKey)
               parent == IF lock = NoLock THEN rows[j] ELSE [rows[j] EXCEPT !.lock_key = NoLock]
               p == continuation_payload(j)
    <2>1. /\ NextFree(rows, k) /\ UniqueIndexes(rows')
          /\ rows' = [rows EXCEPT ![j] = parent, ![k] = row]
          /\ payload' = [payload EXCEPT ![k] = p]
      BY <1>3, <1>8 DEF HandOver
    <2>2. /\ row \in Row /\ row.status = "queued" /\ row.attempts = 0 /\ row.max_attempts > 0
      BY <1>1, <1>2, ClonedRowFacts DEF Row, JobTypes, VECTOR_JOB_TYPES
    <2>3. /\ parent \in Row /\ parent.status = rows[j].status
          /\ parent.attempts = rows[j].attempts
          /\ parent.max_attempts = rows[j].max_attempts
      BY <1>1 DEF Row
    <2>4. j # k /\ j < k
      <3>1. ~Inserted(k)
        BY <2>1 DEF NextFree, Inserted
      <3> QED BY <1>1, <3>1 DEF RunsInvariant, Dense, JobIds
    <2>5. p \in Payload /\ p.after < k
      <3>1. p.after = payload[j].after + 1 /\ payload[j].after \in 0..MaxJobs
        BY <1>1 DEF continuation_payload, Payload
      <3>2. payload[j].after + 1 \in 0..MaxJobs /\ payload[j].after + 1 < k
        BY <1>1, <2>4, <3>1, TableAssumption DEF JobIds
      <3>3. p \in Payload
        BY <1>1, <3>2 DEF continuation_payload, Payload
      <3> QED BY <3>1, <3>2, <3>3
    <2> HIDE DEF row, parent, p, j, lock
    <2>6. /\ rows' \in [JobIds -> Row] /\ rows'[k] = row /\ rows'[j] = parent
          /\ \A i \in JobIds : i # j /\ i # k => rows'[i] = rows[i]
          /\ payload' \in [JobIds -> Payload] /\ payload'[k] = p
          /\ \A i \in JobIds : i # k => payload'[i] = payload[i]
      BY <1>1, <2>1, <2>2, <2>3, <2>4, <2>5, RunsFacts
    <2>7. /\ \A i \in JobIds : i # k => /\ rows'[i].status = rows[i].status
                                        /\ rows'[i].attempts = rows[i].attempts
                                        /\ rows'[i].max_attempts = rows[i].max_attempts
          /\ rows[k].status = "absent" /\ \A i \in JobIds : i < k => Inserted(i)
      BY <2>1, <2>3, <2>6 DEF NextFree, Inserted
    <2>8. PoolCore'
      <3>1. TypeOK'
        BY <1>1, <1>4, <1>5, <2>6, RunsFacts DEF TypeOK
      <3>2. \A v \in Workers : Executing(v) => cur[v] \in JobIds /\ cur[v] # k
        BY <2>7, RunsFacts DEF PoolCore, TypeOK, ExecutedRowExists, Executing
      <3>3. ExclusiveExecution' /\ ExecutedRowExists'
        BY <1>4, <1>5, <2>7, <3>2, RunsFacts DEF PoolCore, ExclusiveExecution, ExecutedRowExists
      <3>4. \A v \in Workers : pc'[v] = "writing" /\ out'[v] = "queued" =>
                  /\ cur[v] \in JobIds /\ cur[v] # k
                  /\ rows[cur[v]].attempts < rows[cur[v]].max_attempts
        BY <1>5, <3>2, RunsFacts DEF PoolCore, RequeueWithinBudget, Executing
      <3>5. RequeueWithinBudget'
        BY <1>4, <2>7, <3>4 DEF RequeueWithinBudget
      <3>6. AttemptBudget'
        <4>1. 0 <= row.max_attempts
          BY <2>2 DEF Row
        <4> QED BY <2>2, <2>6, <2>7, <4>1, RunsFacts DEF PoolCore, AttemptBudget
      <3> QED BY <1>6, <2>1, <3>1, <3>3, <3>5, <3>6 DEF PoolCore, UniqueIndexes, Active
    <2>9. Dense'
      <3>1. \A i \in JobIds : Inserted(i)' <=> Inserted(i) \/ i = k
        BY <2>2, <2>6, <2>7 DEF Inserted
      <3>2. \A i \in JobIds : i > k => ~Inserted(i)
        BY <2>7 DEF RunsInvariant, Dense, Inserted
      <3>3. \A i, m \in JobIds : i < m /\ Inserted(m)' => Inserted(i)'
        BY <2>7, <3>1, <3>2 DEF RunsInvariant, Dense, JobIds
      <3>4. \A i \in JobIds : rows'[i].max_attempts > 0 /\ payload'[i].after < i
        BY <2>2, <2>5, <2>6, <2>7 DEF RunsInvariant, Dense
      <3> QED BY <3>3, <3>4 DEF Dense
    <2>10. \A i \in JobIds : Inserted(i) => Inserted(i)'
      BY <2>2, <2>6, <2>7 DEF Inserted
    <2>11. RunsTypeOK'
      BY <1>4, <2>6, <2>8, RunsFacts DEF RunsTypeOK, PoolCore, RequestRow
    <2>12. Backed'
      BY <1>4, <1>5, <2>2, <2>6, <2>7 DEF RunsInvariant, Backed
    <2>13. Known'
      BY <1>4, <2>10, RunsFacts DEF RunsInvariant, Known, TypeOK
    <2>14. ASSUME NEW q \in Requests PROVE Asked(req[q])'
      BY <1>4 DEF RunsInvariant, Asked, Asking
    <2> QED BY <2>8, <2>9, <2>11, <2>12, <2>13, <2>14 DEF RunsInvariant
  <1> QED BY <1>7, <1>8

-----------------------------------------------------------------------------
(* The theorems                                                             *)

(* Before the first boot the invariant holds.                               *)
LEMMA RunsInitInv == RunsInit => RunsInvariant
  <1> SUFFICES ASSUME RunsInit PROVE RunsInvariant
    OBVIOUS
  <1>1. PoolCore
    BY InitInv DEF RunsInit, PoolInvariant
  <1>2. RunsTypeOK
    BY <1>1, NoRequestFacts, NoPayloadType DEF RunsInit, RunsTypeOK, PoolCore, RequestRow
  <1>3. Backed /\ Dense /\ Known
    BY NoRequestFacts, NoPayloadType, TableAssumption
       DEF RunsInit, Init, Backed, Dense, Known, Inserted, AbsentRow, JobIds, NoCaller
  <1>4. ASSUME NEW q \in Requests PROVE Asked(req[q])
    BY NoRequestFacts DEF RunsInit
  <1> QED BY <1>1, <1>2, <1>3, <1>4 DEF RunsInvariant

(* Every step of requests, workers and process preserves it.                *)
LEMMA RunsStepInv == RunsInvariant /\ [RunsNext]_allVars => RunsInvariant'
  <1> SUFFICES ASSUME RunsInvariant, [RunsNext]_allVars PROVE RunsInvariant'
    OBVIOUS
  <1>1. CASE RequestStep
    BY <1>1, OpenRequestKeeps, ResumeReplayKeeps, CheckLockKeeps, InsertRunKeeps,
       EndActionKeeps DEF RequestStep
  <1>2. CASE \E w \in Workers : RunsWorkerStep(w) \/ HandlerContinues(w)
    BY <1>2, RunsWorkerStepKeeps, HandlerContinuesKeeps
  <1>3. CASE QueueStep
    BY <1>3, QueueStepKeeps
  <1>4. CASE \E j \in JobIds : RequeueFailed(j)
    BY <1>4, RequeueFailedKeeps
  <1>5. CASE RunsHalt
    BY <1>5, RunsHaltKeeps
  <1>6. CASE UNCHANGED allVars
    <2>1. UNCHANGED <<vars, req, payload, answered, lockSeen>>
      BY <1>6 DEF allVars, runVars
    <2>2. PoolCore'
      BY <2>1, CoreStep, RunsFacts
    <2>3. RunsTypeOK'
      BY <2>1, <2>2, RunsFacts DEF RunsTypeOK, PoolCore, RequestRow
    <2>4. Backed' /\ Dense' /\ Known'
      BY <2>1 DEF vars, RunsInvariant, Backed, Dense, Known, Inserted, Executing
    <2>5. ASSUME NEW q \in Requests PROVE Asked(req[q])'
      BY <2>1 DEF RunsInvariant, Asked, Asking
    <2> QED BY <2>2, <2>3, <2>4, <2>5 DEF RunsInvariant
  <1> QED BY <1>1, <1>2, <1>3, <1>4, <1>5, <1>6 DEF RunsNext

(* The invariant of the retrieval runs, under every disturbance.            *)
THEOREM RunsInductive == RunsSpec => []RunsInvariant
  BY RunsInitInv, RunsStepInv, PTL DEF RunsSpec

(* Requests, payloads and lock copies keep their types, through every       *)
(* replay, chain, retry, requeue and restart: in particular a cursor stays  *)
(* within the table, whatever the number of batches behind it.              *)
THEOREM RunsTypes == RunsSpec => []RunsTypeOK
  <1>1. RunsInvariant => RunsTypeOK
    BY DEF RunsInvariant
  <1> QED BY <1>1, RunsInductive, PTL

(* No retrieval row is executed twice at once, none exceeds its attempts,   *)
(* and behind every running row stands a worker or the request that started *)
(* it, whatever cancels, stalls, requeues, crashes and restarts do.         *)
THEOREM RunsSafeHolds == RunsSpec => []RunsSafe
  <1>1. RunsInvariant => RunsSafe
    BY DEF RunsInvariant, PoolCore, Backed, RunsSafe
  <1> QED BY <1>1, RunsInductive, PTL

=============================================================================
