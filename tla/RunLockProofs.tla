--------------------------- MODULE RunLockProofs ---------------------------
(***************************************************************************)
(* One run at a time works on a vector space, for every pool, table, set   *)
(* of spaces, keys and requests of every kind, as long as nothing but the  *)
(* requests and the workers writes rows.                                   *)
(***************************************************************************)
EXTENDS RetrievalRunsProofs

(* What the property needs: a stall takes the lock of a run that still      *)
(* works, cancel_job writes a status over it, a bulk requeue clones a row   *)
(* without its lock, and a crash hands an action's row to the workers.      *)
Undisturbed == Faults = {} /\ MaxStops = 0

-----------------------------------------------------------------------------
(* The inductive invariant                                                  *)

Locking == {"retire_space", "activate_space"}

(* The row of an action that its own request carries out.                   *)
Direct(type, p) ==
    \/ p.action \in Locking \cup {"compare_quality"} /\ p.names = NoJob
    \/ p.action = "cancel_run"
    \/ type = "vector_maintenance" /\ p.action = "retry_failed"

(* Such a row is never queued and, unless it retires or activates, holds no *)
(* lock; a queued row holds the lock of its space.                          *)
InOrder(row, p) ==
    row.status # "absent" =>
        /\ row.type \in LOCKED_JOB_TYPES
        /\ Direct(row.type, p) =>
            /\ row.status \in {"running", "succeeded", "failed"}
            /\ p.action \in {"cancel_run", "retry_failed"} => row.status # "failed"
            /\ p.action \notin Locking => row.lock_key = NoLock
        /\ ~Direct(row.type, p) /\ row.status = "queued" =>
            /\ row.lock_key = p.space
            /\ p.space \in Spaces

(* An action on the space that succeeded has left its answer.               *)
Stored ==
    \A j \in JobIds :
        /\ rows[j].status = "succeeded"
        /\ Direct(rows[j].type, payload[j])
        /\ payload[j].action \in Locking
        => j \in answered

(* What a request is about to insert.                                       *)
AskInOrder(x) ==
    /\ x.row.type \in LOCKED_JOB_TYPES
    /\ IF x.kind \in SynchronousKinds
       THEN /\ Direct(x.row.type, x.payload)
            /\ x.payload.action \notin Locking => x.row.lock_key = NoLock
            /\ x.payload.action \in {"cancel_run", "retry_failed"} =>
                    x.kind \in NeverFailKinds
       ELSE /\ ~Direct(x.row.type, x.payload)
            /\ x.row.lock_key = x.payload.space
            /\ x.payload.space \in Spaces

(* A request acts on a row of its own, and holds the lock while it does.    *)
ActInOrder(x, row, p) ==
    /\ Direct(row.type, p)
    /\ row.status # "absent"
    /\ p.action \in {"cancel_run", "retry_failed"} => x.kind \in NeverFailKinds
    /\ x.row.lock_key # NoLock =>
        /\ row.status = "running"
        /\ row.lock_key = x.row.lock_key

RequestsInOrder ==
    \A r \in Requests :
        /\ Asking(req[r]) => AskInOrder(req[r])
        /\ req[r].pc = "acting" =>
            ActInOrder(req[r], rows[req[r].job], payload[req[r].job])

(* Nobody acts on the row of a request that holds a lock but that request.  *)
Alone ==
    \A r, q \in Requests :
        /\ r # q /\ req[r].pc = "acting" /\ req[q].pc = "acting"
        /\ req[r].row.lock_key # NoLock
        => req[q].job # req[r].job

(* A worker holds the lock of its row's space, and knows it, until its      *)
(* handler ends; afterwards unless a continuation took it over.             *)
WorkerInOrder(w) ==
    Executing(w) =>
        /\ rows[cur[w]].status = "running"
        /\ ~Direct(rows[cur[w]].type, payload[cur[w]])
        /\ pc[w] \in {"claimed", "running"} \/ out[w] = "queued" =>
            /\ rows[cur[w]].lock_key = payload[cur[w]].space
            /\ payload[cur[w]].space \in Spaces
        /\ pc[w] = "running" /\ seen[w] # "expired" =>
            lockSeen[w] = rows[cur[w]].lock_key

(* The process boots once and stays up.                                     *)
Calm ==
    /\ caller = NoCaller /\ reaper = {}
    /\ phase \in {"down", "up"}
    /\ phase = "down" =>
        /\ \A j \in JobIds : rows[j].status = "absent"
        /\ \A r \in Requests : req[r].pc = "idle"

LockInvariant ==
    /\ \A j \in JobIds : InOrder(rows[j], payload[j])
    /\ Stored
    /\ RequestsInOrder
    /\ Alone
    /\ \A w \in Workers : WorkerInOrder(w)
    /\ Calm

-----------------------------------------------------------------------------
(* Why the invariant is enough                                              *)

(* Two sets of which one is empty and the other holds one element at most.  *)
LEMMA AtMostOne ==
    ASSUME NEW S, NEW T, S = {} \/ T = {},
           \A x, y \in S : x = y, \A x, y \in T : x = y
    PROVE  Cardinality(S) + Cardinality(T) <= 1
  <1>1. ASSUME NEW U, \A x, y \in U : x = y
        PROVE  Cardinality(U) \in {0, 1} /\ (U = {} => Cardinality(U) = 0)
    <2>1. CASE U = {}
      BY <2>1, FS_EmptySet
    <2>2. CASE U # {}
      <3>1. PICK x \in U : TRUE
        BY <2>2
      <3>2. U = {x}
        BY <1>1, <3>1
      <3> QED BY <2>2, <3>2, FS_Singleton
    <2> QED BY <2>1, <2>2
  <1> QED BY <1>1

(* The index on lock_key refuses a second active row of the space.          *)
LEMMA LockGivesOneRun ==
    ASSUME RunsInvariant, LockInvariant
    PROVE  OneRunPerSpace
  <1> SUFFICES ASSUME NEW s \in Spaces
               PROVE  Cardinality(WorkersOn(s)) + Cardinality(ActionsOn(s)) <= 1
    BY DEF OneRunPerSpace
  <1>1. ASSUME NEW i \in JobIds, NEW j \in JobIds, i # j,
               rows[i].status = "running", rows[j].status = "running",
               rows[i].lock_key = s, rows[j].lock_key = s
        PROVE  FALSE
    BY <1>1, RunsFacts, NullAssumption DEF PoolCore, UniqueIndexes, Active, ActiveStatuses
  <1>2. ASSUME NEW w \in WorkersOn(s)
        PROVE  /\ w \in Workers /\ Executing(w) /\ cur[w] \in JobIds
               /\ rows[cur[w]].status = "running" /\ rows[cur[w]].lock_key = s
               /\ ~Direct(rows[cur[w]].type, payload[cur[w]])
    BY <1>2, RunsFacts DEF WorkersOn, LockInvariant, WorkerInOrder, Executing, TypeOK
  <1>3. ASSUME NEW r \in ActionsOn(s)
        PROVE  /\ r \in Requests /\ req[r].pc = "acting" /\ req[r].job \in JobIds
               /\ req[r].row.lock_key = s /\ s # NoLock
               /\ rows[req[r].job].status = "running" /\ rows[req[r].job].lock_key = s
               /\ Direct(rows[req[r].job].type, payload[req[r].job])
    BY <1>3, RunsFacts, NullAssumption
       DEF ActionsOn, LockInvariant, RequestsInOrder, ActInOrder
  <1>4. \A w, v \in WorkersOn(s) : w = v
    BY <1>1, <1>2, RunsFacts DEF PoolCore, ExclusiveExecution
  <1>5. \A r, q \in ActionsOn(s) : r = q
    BY <1>1, <1>3 DEF LockInvariant, Alone
  <1>6. WorkersOn(s) = {} \/ ActionsOn(s) = {}
    BY <1>1, <1>2, <1>3
  <1> QED BY <1>4, <1>5, <1>6, AtMostOne

-----------------------------------------------------------------------------
(* Requests                                                                 *)

(* The types that hold a lock are the vector types but the index jobs.      *)
LEMMA LockedTypes ==
    /\ {"vector_reconcile", "vector_maintenance", "vector_cutover"} \subseteq LOCKED_JOB_TYPES
    /\ "vector_index" \notin LOCKED_JOB_TYPES
    /\ LOCKED_JOB_TYPES \subseteq VECTOR_JOB_TYPES
  BY DEF LOCKED_JOB_TYPES, VECTOR_JOB_TYPES

(* What the constructor is given is what the row holds.                     *)
LEMMA MadeRowFacts ==
    ASSUME NEW type, NEW s, NEW max, NEW lock, NEW key
    PROVE  /\ NewRow(type, s, max, lock, key).type = type
           /\ NewRow(type, s, max, lock, key).status = s
           /\ NewRow(type, s, max, lock, key).lock_key = lock
  BY DEF NewRow, AbsentRow

(* The row and the payload of a synchronous action.                         *)
LEMMA SynchronousFacts ==
    ASSUME NEW kind \in SynchronousKinds, NEW s, NEW k, NEW options,
           NEW target, NEW row, NEW p,
           row = RequestedRow(kind, s, k, target),
           p = RequestPayload(kind, s, options, target)
    PROVE  /\ row.type \in LOCKED_JOB_TYPES
           /\ Direct(row.type, p)
           /\ p.action \notin Locking => row.lock_key = NoLock
           /\ p.action \in {"cancel_run", "retry_failed"} => kind \in NeverFailKinds
           /\ kind = "preview_retry_failed" => p.action = "retry_failed"
           /\ p.action \in Locking =>
                kind \in {"retire_space", "activate_space", "activate_active_space"}
  <1>1. CASE kind = "preview_retry_failed"
    <2>1. row = NewRow("vector_maintenance", "running", 1, NoLock, k)
      BY <1>1 DEF RequestedRow, MaintenanceRow
    <2>2. p.action = "retry_failed"
      BY <1>1 DEF RequestPayload, NoPayload
    <2> QED BY <1>1, <2>1, <2>2, MadeRowFacts, LockedTypes DEF Direct, NeverFailKinds, Locking
  <1>2. CASE kind = "retire_space"
    <2>1. row = NewRow("vector_maintenance", "running", 1, s, k)
      BY <1>2 DEF RequestedRow, RetireRow
    <2>2. p.action = "retire_space" /\ p.names = NoJob
      BY <1>2 DEF RequestPayload, NoPayload
    <2> QED BY <1>2, <2>1, <2>2, MadeRowFacts, LockedTypes DEF Direct, NeverFailKinds, Locking
  <1>3. CASE kind \in {"activate_space", "activate_active_space"}
    <2>1. row.type = "vector_cutover"
      BY <1>3, MadeRowFacts DEF RequestedRow, ActivateRow
    <2>2. p.action = "activate_space" /\ p.names = NoJob
      BY <1>3 DEF RequestPayload, NoPayload
    <2> QED BY <1>3, <2>1, <2>2, LockedTypes DEF Direct, Locking
  <1>4. CASE kind = "compare_quality"
    <2>1. row = NewRow("vector_cutover", "running", 1, NoLock, k)
      BY <1>4 DEF RequestedRow, CompareRow
    <2>2. p.action = "compare_quality" /\ p.names = NoJob
      BY <1>4 DEF RequestPayload, NoPayload
    <2> QED BY <1>4, <2>1, <2>2, MadeRowFacts, LockedTypes DEF Direct, Locking
  <1>5. CASE kind = "cancel_run"
    <2>1. row = NewRow("vector_maintenance", "running", 1, NoLock, k)
      BY <1>5 DEF RequestedRow, CancelRow
    <2>2. p.action = "cancel_run"
      BY <1>5 DEF RequestPayload, NoPayload
    <2> QED BY <1>5, <2>1, <2>2, MadeRowFacts, LockedTypes DEF Direct, NeverFailKinds, Locking
  <1> QED BY <1>1, <1>2, <1>3, <1>4, <1>5 DEF SynchronousKinds

(* The row and the payload of a run that is queued: a retry of a row that   *)
(* failed or was cancelled is a retry of a run, never of an action that     *)
(* cannot fail.                                                             *)
LEMMA QueuedFacts ==
    ASSUME RunsInvariant, LockInvariant, NEW kind \in AllKinds \ SynchronousKinds,
           NEW s \in Spaces, NEW k, NEW options, NEW target \in JobIds \cup {NoJob},
           Target(kind, s, target), NEW row, NEW p,
           row = RequestedRow(kind, s, k, target),
           p = RequestPayload(kind, s, options, target)
    PROVE  /\ row.type \in LOCKED_JOB_TYPES
           /\ ~Direct(row.type, p)
           /\ row.lock_key = p.space /\ p.space \in Spaces
  <1>1. CASE kind = "retry_run"
    <2>1. /\ target \in JobIds /\ rows[target].status \in {"failed", "cancelled"}
          /\ payload[target] \in Payload /\ InOrder(rows[target], payload[target])
      BY <1>1, RunsFacts DEF Target, LockInvariant
    <2>2. /\ rows[target].type \in LOCKED_JOB_TYPES
          /\ ~(/\ rows[target].type = "vector_maintenance"
               /\ payload[target].action = "retry_failed")
          /\ payload[target].action # "cancel_run"
      BY <2>1 DEF InOrder, Direct
    <2>3. /\ row.type = rows[target].type /\ row.lock_key = s
      BY <1>1, <2>2, LockedTypes, MadeRowFacts DEF RequestedRow, RetryRow
    <2>4. /\ p.space = s /\ p.names = target /\ p.action = payload[target].action
      BY <1>1, <2>1, <2>2, LockedTypes DEF RequestPayload, RetryPayload, Payload
    <2>5. target # NoJob
      BY <2>1 DEF JobIds, NoJob
    <2> QED BY <2>2, <2>3, <2>4, <2>5 DEF Direct
  <1>2. CASE kind = "reindex"
    <2>1. row = NewRow("vector_reconcile", "queued", MaxAttempts, s, k)
      BY <1>2 DEF RequestedRow, ReindexRow
    <2>2. p.action = "reindex" /\ p.space = s
      BY <1>2 DEF RequestPayload, NoPayload
    <2> QED BY <2>1, <2>2, MadeRowFacts, LockedTypes DEF Direct, Locking
  <1>3. CASE kind = "run_maintenance"
    <2>1. row = NewRow("vector_maintenance", "queued", MaxAttempts, s, k)
      BY <1>3 DEF RequestedRow, MaintenanceRow
    <2>2. p.action = "run_maintenance" /\ p.space = s
      BY <1>3 DEF RequestPayload, NoPayload
    <2> QED BY <2>1, <2>2, MadeRowFacts, LockedTypes DEF Direct, Locking
  <1>4. CASE kind = "retry_failed"
    <2>1. row = NewRow("vector_reconcile", "queued", MaxAttempts, s, k)
      BY <1>4 DEF RequestedRow, MaintenanceRow
    <2>2. p.action = "retry_failed" /\ p.space = s
      BY <1>4 DEF RequestPayload, NoPayload
    <2> QED BY <2>1, <2>2, MadeRowFacts, LockedTypes DEF Direct, Locking
  <1> QED BY <1>1, <1>2, <1>3, <1>4 DEF AllKinds, SynchronousKinds

(* A step of one request that writes no row and takes no lock.              *)
LEMMA AsksInOrder ==
    ASSUME RunsInvariant, LockInvariant, phase = "up",
           UNCHANGED <<vars, payload, answered, lockSeen>>,
           NEW r \in Requests, NEW x, req' = [req EXCEPT ![r] = x],
           Asking(x) => AskInOrder(x),
           x.pc = "acting" => /\ ActInOrder(x, rows[x.job], payload[x.job])
                              /\ x.row.lock_key = NoLock /\ rows[x.job].lock_key = NoLock
    PROVE  LockInvariant'
  <1>1. /\ req'[r] = x /\ \A q \in Requests : q # r => req'[q] = req[q]
        /\ UNCHANGED <<rows, pc, cur, seen, out, caller, reaper, phase>>
    BY RunsFacts DEF vars
  <1>2. RequestsInOrder'
    BY <1>1 DEF LockInvariant, RequestsInOrder
  <1>3. Alone'
    <2> SUFFICES ASSUME NEW a \in Requests, NEW b \in Requests, a # b,
                        req'[a].pc = "acting", req'[b].pc = "acting",
                        req'[a].row.lock_key # NoLock
                 PROVE  req'[b].job # req'[a].job
      BY DEF Alone
    <2>1. a # r /\ req'[a] = req[a]
      BY <1>1
    <2>2. rows[req[a].job].lock_key # NoLock
      BY <2>1 DEF LockInvariant, RequestsInOrder, ActInOrder
    <2> QED BY <1>1, <2>1, <2>2 DEF LockInvariant, Alone
  <1>4. ASSUME NEW w \in Workers PROVE WorkerInOrder(w)'
    BY <1>1 DEF LockInvariant, WorkerInOrder, Executing
  <1>5. Stored' /\ \A j \in JobIds : InOrder(rows'[j], payload'[j])
    BY <1>1 DEF LockInvariant, Stored
  <1>6. Calm'
    BY <1>1 DEF LockInvariant, Calm
  <1> QED BY <1>2, <1>3, <1>4, <1>5, <1>6 DEF LockInvariant

(* A request asks for the row and the payload of its kind.                  *)
LEMMA OpenRequestInOrder ==
    ASSUME RunsInvariant, LockInvariant, NEW r \in Requests, NEW kind \in RequestKinds,
           NEW s \in Spaces, NEW k \in Keys, NEW target \in JobIds \cup {NoJob},
           OpenRequest(r, kind, s, k, target)
    PROVE  LockInvariant'
  <1>1. PICK options \in Options :
            req' = [req EXCEPT ![r] =
                      [pc |-> "keyed", kind |-> kind,
                       row |-> RequestedRow(kind, s, k, target),
                       payload |-> RequestPayload(kind, s, options, target),
                       job |-> NoJob, target |-> Aim(kind, target)]]
    BY DEF OpenRequest
  <1> DEFINE row == RequestedRow(kind, s, k, target)
             p == RequestPayload(kind, s, options, target)
             aim == Aim(kind, target)
             x == [pc |-> "keyed", kind |-> kind, row |-> row, payload |-> p,
                   job |-> NoJob, target |-> aim]
  <1>2. kind \in AllKinds /\ Target(kind, s, target) /\ phase = "up"
    BY RunsAssumption DEF OpenRequest
  <1> HIDE DEF aim
  <1>3. AskInOrder(x)
    <2>1. CASE kind \in SynchronousKinds
      BY <1>1, <2>1, SynchronousFacts DEF AskInOrder
    <2>2. CASE kind \notin SynchronousKinds
      BY <1>1, <1>2, <2>2, QueuedFacts DEF AskInOrder
    <2> QED BY <2>1, <2>2
  <1>4. req' = [req EXCEPT ![r] = x] /\ x.pc = "keyed"
    BY <1>1 DEF aim
  <1> HIDE DEF x
  <1> QED BY <1>2, <1>3, <1>4, AsksInOrder DEF OpenRequest

(* A replay goes on only on a row without a lock: an action on the space    *)
(* that succeeded has stored its answer, and the others are refused.        *)
LEMMA ResumeReplayInOrder ==
    ASSUME RunsInvariant, LockInvariant, NEW r \in Requests, NEW kind \in RequestKinds,
           NEW s \in Spaces, NEW k \in Keys, NEW target \in JobIds \cup {NoJob},
           ResumeReplay(r, kind, s, k, target)
    PROVE  LockInvariant'
  <1>1. PICK row, p :
            /\ row = RequestedRow(kind, s, k, target)
            /\ p = RequestPayload(kind, s, "none", target)
    OBVIOUS
  <1>2. PICK j \in find_replay(row.type, k) :
            /\ payload[j] = p
            /\ GoesOn(kind, j)
            /\ req' = [req EXCEPT ![r] =
                      [pc |-> "acting", kind |-> kind, row |-> rows[j],
                       payload |-> payload[j], job |-> j, target |-> Aim(kind, target)]]
    BY <1>1 DEF ResumeReplay
  <1>3. /\ j \in JobIds /\ rows[j].status # "absent" /\ rows[j].type = row.type
        /\ kind \in SynchronousKinds /\ phase = "up"
    BY <1>2 DEF find_replay, GoesOn, ResumeReplay
  <1>4. /\ Direct(rows[j].type, p)
        /\ p.action \in {"cancel_run", "retry_failed"} => kind \in NeverFailKinds
        /\ p.action \in Locking =>
                kind \in {"retire_space", "activate_space", "activate_active_space"}
    BY <1>1, <1>3, SynchronousFacts
  <1>5. p.action \notin Locking
    <2> SUFFICES ASSUME p.action \in Locking PROVE FALSE
      OBVIOUS
    <2>1. kind \in {"retire_space", "activate_space", "activate_active_space"}
      BY <1>4
    <2>2. rows[j].status \notin {"running", "failed"} /\ j \notin answered
      BY <1>2, <2>1 DEF GoesOn
    <2>3. rows[j].status = "succeeded"
      BY <1>2, <1>3, <1>4, <2>2 DEF LockInvariant, InOrder
    <2> QED BY <1>2, <1>3, <1>4, <2>2, <2>3 DEF LockInvariant, Stored
  <1>6. rows[j].lock_key = NoLock
    BY <1>2, <1>3, <1>4, <1>5 DEF LockInvariant, InOrder
  <1> DEFINE aim == Aim(kind, target)
             x == [pc |-> "acting", kind |-> kind, row |-> rows[j],
                   payload |-> payload[j], job |-> j, target |-> aim]
  <1>7. req' = [req EXCEPT ![r] = x]
    BY <1>2
  <1> HIDE DEF aim
  <1>8. /\ x.pc = "acting" /\ x.job = j /\ x.kind = kind /\ x.row = rows[j]
        /\ ~Asking(x)
    BY DEF Asking
  <1> HIDE DEF x
  <1>9. ActInOrder(x, rows[x.job], payload[x.job])
    BY <1>2, <1>3, <1>4, <1>6, <1>8 DEF ActInOrder
  <1> QED BY <1>3, <1>6, <1>7, <1>8, <1>9, AsksInOrder DEF ResumeReplay

(* The lock check keeps what a request is about to insert.                  *)
LEMMA CheckLockInOrder ==
    ASSUME RunsInvariant, LockInvariant, NEW r \in Requests, CheckLock(r)
    PROVE  LockInvariant'
  <1>1. /\ req[r].pc = "keyed" /\ req[r] \in RequestRow /\ phase = "up"
        /\ AskInOrder(req[r])
    BY RunsFacts DEF CheckLock, LockInvariant, Calm, RequestsInOrder, Asking
  <1>2. CASE req' = [req EXCEPT ![r] = NoRequest]
    BY <1>1, <1>2, NoRequestFacts, AsksInOrder DEF CheckLock, Asking
  <1>3. CASE req' = [req EXCEPT ![r].pc = "checked"]
    <2> DEFINE x == [req[r] EXCEPT !.pc = "checked"]
    <2>1. req' = [req EXCEPT ![r] = x]
      BY <1>3
    <2>2. x.pc = "checked" /\ x.row = req[r].row /\ x.kind = req[r].kind
          /\ x.payload = req[r].payload
      BY <1>1 DEF RequestRow
    <2> HIDE DEF x
    <2>3. AskInOrder(x)
      BY <1>1, <2>2 DEF AskInOrder
    <2> QED BY <1>1, <2>1, <2>2, <2>3, AsksInOrder DEF CheckLock
  <1> QED BY <1>2, <1>3 DEF CheckLock

(* Nobody works yet on the row that is inserted next.                       *)
LEMMA NobodyOnFree ==
    ASSUME RunsInvariant, NEW k \in JobIds, NextFree(rows, k)
    PROVE  /\ \A w \in Workers : Executing(w) => cur[w] \in JobIds /\ cur[w] # k
           /\ \A r \in Requests : req[r].pc = "acting" =>
                    req[r].job \in JobIds /\ req[r].job # k
  BY RunsFacts DEF NextFree, PoolCore, TypeOK, ExecutedRowExists, Executing, RunsInvariant,
                   Known, Inserted

(* The index on lock_key lets one run in; the row is its request's or       *)
(* queued with the lock.                                                    *)
LEMMA InsertRunInOrder ==
    ASSUME RunsInvariant, LockInvariant, NEW r \in Requests, InsertRun(r)
    PROVE  LockInvariant'
  <1>1. PICK j \in JobIds :
            LET t == [rows EXCEPT ![j] = req[r].row]
            IN  /\ NextFree(rows, j)
                /\ \/ /\ UniqueIndexes(t)
                      /\ rows' = t
                      /\ payload' = [payload EXCEPT ![j] = req[r].payload]
                      /\ req' = IF req[r].kind \in SynchronousKinds
                                THEN [req EXCEPT ![r].pc = "acting", ![r].job = j]
                                ELSE [req EXCEPT ![r] = NoRequest]
                   \/ /\ ~UniqueIndexes(t)
                      /\ req' = [req EXCEPT ![r] = NoRequest]
                      /\ UNCHANGED <<rows, payload>>
    BY DEF InsertRun
  <1>2. /\ req[r].pc = "checked" /\ req[r] \in RequestRow /\ Asked(req[r])
        /\ AskInOrder(req[r]) /\ phase = "up"
        /\ UNCHANGED <<taskVars, caller, reaper, phase, stops, answered, lockSeen>>
    BY RunsFacts DEF InsertRun, RunsInvariant, LockInvariant, RequestsInOrder, Asking, Calm
  <1> DEFINE row == req[r].row
             p == req[r].payload
  <1>3. CASE UNCHANGED <<rows, payload>>
    <2>1. req' = [req EXCEPT ![r] = NoRequest] \/ rows' # rows
      BY <1>1, <1>2, <1>3, RunsFacts DEF NextFree, Asked, Asking
    <2> QED BY <1>2, <1>3, <2>1, NoRequestFacts, AsksInOrder DEF vars, taskVars, Asking
  <1>4. CASE ~UNCHANGED <<rows, payload>>
    <2>1. /\ NextFree(rows, j)
          /\ rows' = [rows EXCEPT ![j] = row] /\ payload' = [payload EXCEPT ![j] = p]
          /\ req' = IF req[r].kind \in SynchronousKinds
                     THEN [req EXCEPT ![r].pc = "acting", ![r].job = j]
                     ELSE [req EXCEPT ![r] = NoRequest]
      BY <1>1, <1>4
    <2>2. /\ row.status = IF req[r].kind \in SynchronousKinds THEN "running" ELSE "queued"
          /\ row \in Row /\ p \in Payload
      BY <1>2 DEF Asked, Asking, RequestRow
    <2>3. InOrder(row, p)
      BY <1>2, <2>2 DEF AskInOrder, InOrder
    <2> HIDE DEF row, p
    <2>4. /\ rows'[j] = row /\ payload'[j] = p
          /\ \A i \in JobIds : i # j => rows'[i] = rows[i] /\ payload'[i] = payload[i]
      BY <2>1, RunsFacts
    <2>5. /\ \A w \in Workers : Executing(w) => cur[w] \in JobIds /\ cur[w] # j
          /\ \A q \in Requests : req[q].pc = "acting" =>
                    req[q].job \in JobIds /\ req[q].job # j
      BY <2>1, NobodyOnFree
    <2>6. \A i \in JobIds : InOrder(rows'[i], payload'[i])
      BY <2>3, <2>4 DEF LockInvariant
    <2>7. Stored'
      BY <1>2, <2>2, <2>4 DEF LockInvariant, Stored
    <2>8. ASSUME NEW w \in Workers PROVE WorkerInOrder(w)'
      BY <1>2, <2>4, <2>5 DEF LockInvariant, WorkerInOrder, Executing, taskVars
    <2>9. \A q \in Requests : q # r => req'[q] = req[q]
      BY <2>1, RunsFacts
    <2>10. \/ req'[r].pc = "idle"
           \/ /\ req'[r].pc = "acting" /\ req'[r].job = j
              /\ ActInOrder(req'[r], row, p)
      <3>1. CASE req[r].kind \in SynchronousKinds
        <4>1. /\ req'[r].pc = "acting" /\ req'[r].job = j
              /\ req'[r].kind = req[r].kind /\ req'[r].row = row
          BY <1>2, <2>1, <3>1, RunsFacts DEF RequestRow, row
        <4>2. ActInOrder(req'[r], row, p)
          BY <1>2, <2>2, <3>1, <4>1 DEF ActInOrder, AskInOrder, row, p
        <4> QED BY <4>1, <4>2
      <3>2. CASE req[r].kind \notin SynchronousKinds
        BY <2>1, <3>2, RunsFacts, NoRequestFacts
      <3> QED BY <3>1, <3>2
    <2>11. RequestsInOrder'
      <3> SUFFICES ASSUME NEW q \in Requests
                   PROVE  /\ Asking(req'[q]) => AskInOrder(req'[q])
                          /\ req'[q].pc = "acting" =>
                              ActInOrder(req'[q], rows'[req'[q].job], payload'[req'[q].job])
        BY DEF RequestsInOrder
      <3>1. CASE q = r
        BY <2>4, <2>10, <3>1 DEF Asking
      <3>2. CASE q # r
        BY <2>4, <2>5, <2>9, <3>2 DEF LockInvariant, RequestsInOrder
      <3> QED BY <3>1, <3>2
    <2>12. Alone'
      BY <2>5, <2>9, <2>10 DEF LockInvariant, Alone
    <2>13. Calm'
      BY <1>2 DEF LockInvariant, Calm
    <2> QED BY <2>6, <2>7, <2>8, <2>11, <2>12, <2>13 DEF LockInvariant
  <1> QED BY <1>3, <1>4

(* An action that ends gives its lock up together with its row.             *)
LEMMA EndActionInOrder ==
    ASSUME RunsInvariant, LockInvariant, NEW r \in Requests,
           NEW status \in {"succeeded", "failed"}, EndAction(r, status)
    PROVE  LockInvariant'
  <1> DEFINE j == req[r].job
  <1>1. /\ j \in JobIds /\ req[r].pc = "acting" /\ phase = "up"
        /\ req' = [req EXCEPT ![r] = NoRequest]
        /\ answered' = IF status = "succeeded" THEN answered \cup {j} ELSE answered
        /\ req[r].kind \in NeverFailKinds => status = "succeeded"
        /\ ActInOrder(req[r], rows[j], payload[j])
        /\ UNCHANGED <<taskVars, caller, reaper, phase, stops, payload, lockSeen>>
    BY RunsFacts DEF EndAction, LockInvariant, Calm, RequestsInOrder
  <1>2. /\ rows'[j].status = status /\ rows'[j].lock_key = NoLock
        /\ \A i \in JobIds :
              /\ i # j => /\ rows'[i].status = rows[i].status
                          /\ rows'[i].lock_key = rows[i].lock_key
              /\ rows'[i].type = rows[i].type
    BY EndActionRows
  <1> HIDE DEF j
  <1>3. \A i \in JobIds : InOrder(rows'[i], payload'[i])
    <2> SUFFICES ASSUME NEW i \in JobIds PROVE InOrder(rows'[i], payload[i])
      BY <1>1
    <2>1. InOrder(rows[i], payload[i])
      BY DEF LockInvariant
    <2>2. CASE i = j
      BY <1>1, <1>2, <2>1, <2>2 DEF InOrder, ActInOrder
    <2>3. CASE i # j
      BY <1>2, <2>1, <2>3 DEF InOrder
    <2> QED BY <2>2, <2>3
  <1>4. Stored'
    BY <1>1, <1>2 DEF LockInvariant, Stored
  <1>5. /\ req'[r].pc = "idle"
        /\ \A q \in Requests : q # r => req'[q] = req[q]
    BY <1>1, RunsFacts, NoRequestFacts
  <1>6. RequestsInOrder'
    <2> SUFFICES ASSUME NEW q \in Requests, q # r
                 PROVE  /\ Asking(req[q]) => AskInOrder(req[q])
                        /\ req[q].pc = "acting" =>
                              ActInOrder(req[q], rows'[req[q].job], payload[req[q].job])
      BY <1>1, <1>5 DEF RequestsInOrder, Asking
    <2>1. Asking(req[q]) => AskInOrder(req[q])
      BY DEF LockInvariant, RequestsInOrder
    <2>2. ASSUME req[q].pc = "acting"
          PROVE  ActInOrder(req[q], rows'[req[q].job], payload[req[q].job])
      <3>1. /\ ActInOrder(req[q], rows[req[q].job], payload[req[q].job])
            /\ req[q].job \in JobIds
        BY <2>2, RunsFacts DEF LockInvariant, RequestsInOrder
      <3>2. CASE req[q].job # j
        BY <1>2, <3>1, <3>2 DEF ActInOrder
      <3>3. CASE req[q].job = j
        <4>1. req[q].row.lock_key = NoLock
          BY <1>1, <2>2, <3>3 DEF LockInvariant, Alone, j
        <4> QED BY <1>2, <3>1, <3>3, <4>1 DEF ActInOrder
      <3> QED BY <3>2, <3>3
    <2> QED BY <2>1, <2>2
  <1>7. Alone'
    BY <1>5 DEF LockInvariant, Alone
  <1>8. ASSUME NEW w \in Workers PROVE WorkerInOrder(w)'
    <2>1. Executing(w) => cur[w] \in JobIds /\ cur[w] # j
      BY <1>1, RunsFacts DEF LockInvariant, WorkerInOrder, ActInOrder, Executing, TypeOK
    <2> QED BY <1>1, <1>2, <2>1 DEF LockInvariant, WorkerInOrder, Executing, taskVars
  <1>9. Calm'
    BY <1>1 DEF LockInvariant, Calm
  <1> QED BY <1>3, <1>4, <1>6, <1>7, <1>8, <1>9 DEF LockInvariant

-----------------------------------------------------------------------------
(* Workers                                                                  *)

(* A step of worker w, which can move the status of its own row only.       *)
LEMMA TaskInOrder ==
    ASSUME RunsInvariant, LockInvariant, phase = "up", NEW w \in Workers,
           NEW j, j = cur[w],
           UNCHANGED <<caller, reaper, phase, req, payload>>,
           \A v \in Workers : v # w =>
              /\ pc'[v] = pc[v] /\ cur'[v] = cur[v] /\ seen'[v] = seen[v]
              /\ out'[v] = out[v] /\ lockSeen'[v] = lockSeen[v],
           \A i \in JobIds :
              /\ rows'[i].type = rows[i].type /\ rows'[i].lock_key = rows[i].lock_key
              /\ rows'[i].status # rows[i].status =>
                    /\ i = j
                    /\ ~Direct(rows[i].type, payload[i])
                    /\ \A v \in Workers : v # w /\ Executing(v) => cur[v] # i
                    /\ InOrder(rows'[i], payload[i])
                    /\ rows'[i].status # "absent",
           \A i \in JobIds : Direct(rows[i].type, payload[i]) /\ i \in answered => i \in answered',
           \A i \in JobIds : Direct(rows[i].type, payload[i]) => rows'[i].status = rows[i].status,
           WorkerInOrder(w)'
    PROVE  LockInvariant'
  <1>1. \A i \in JobIds : InOrder(rows'[i], payload'[i])
    <2> SUFFICES ASSUME NEW i \in JobIds PROVE InOrder(rows'[i], payload[i])
      OBVIOUS
    <2>1. CASE rows'[i].status # rows[i].status
      BY <2>1
    <2>2. CASE rows'[i].status = rows[i].status
      BY <2>2 DEF LockInvariant, InOrder
    <2> QED BY <2>1, <2>2
  <1>2. Stored'
    BY DEF LockInvariant, Stored
  <1>3. RequestsInOrder'
    <2> SUFFICES ASSUME NEW r \in Requests, req[r].pc = "acting"
                 PROVE  ActInOrder(req[r], rows'[req[r].job], payload[req[r].job])
      BY DEF LockInvariant, RequestsInOrder
    <2>1. /\ ActInOrder(req[r], rows[req[r].job], payload[req[r].job])
          /\ req[r].job \in JobIds
      BY RunsFacts DEF LockInvariant, RequestsInOrder
    <2> QED BY <2>1 DEF ActInOrder
  <1>4. Alone'
    BY DEF LockInvariant, Alone
  <1>5. ASSUME NEW v \in Workers PROVE WorkerInOrder(v)'
    <2>1. CASE v # w
      <3> SUFFICES ASSUME Executing(v) PROVE WorkerInOrder(v)'
        BY <2>1 DEF WorkerInOrder, Executing
      <3>1. cur[v] \in JobIds /\ rows'[cur[v]].status = rows[cur[v]].status
        BY <2>1, RunsFacts DEF Executing, TypeOK
      <3> QED BY <2>1, <3>1 DEF LockInvariant, WorkerInOrder, Executing
    <2> QED BY <2>1
  <1>6. Calm'
    BY DEF LockInvariant, Calm
  <1> QED BY <1>1, <1>2, <1>3, <1>4, <1>5, <1>6 DEF LockInvariant

(* Nothing but a claim and the write of an outcome moves a status.          *)
LEMMA RunsWorkerStepInOrder ==
    ASSUME RunsInvariant, LockInvariant, NEW w \in Workers, RunsWorkerStep(w)
    PROVE  LockInvariant'
  <1> DEFINE j == cur[w]
  <1>1. /\ WorkerStep(w) /\ UNCHANGED <<req, payload>>
        /\ rows \in [JobIds -> Row] /\ pc \in [Workers -> PcValues]
        /\ cur \in [Workers -> JobIds \cup {NoJob}]
        /\ seen \in [Workers -> {"set", "clear", "expired"}]
        /\ out \in [Workers -> Outcomes]
        /\ lockSeen \in [Workers -> Spaces \cup {NoLock}]
        /\ pc[w] \in {"selected", "claimed", "running", "writing"} => j \in JobIds
    BY RunsFacts DEF RunsWorkerStep, TypeOK
  <1>2. /\ lockSeen' = IF cur'[w] = NoJob THEN [lockSeen EXCEPT ![w] = NoLock]
                       ELSE IF LoadsRow(w)
                            THEN [lockSeen EXCEPT ![w] = rows[cur[w]].lock_key]
                            ELSE lockSeen
        /\ answered' = IF pc[w] = "writing" /\ out[w] = "succeeded"
                       THEN answered \ {cur[w]}
                       ELSE answered
    BY DEF RunsWorkerStep
  <1>3. pc[w] # "off" /\ phase = "up" /\ w # DrainWorker
    <2>1. pc[w] # "off"
      BY <1>1 DEF WorkerStep, TaskStep, HandlerEnds, Finish, SelectOldest, SelectNone,
                  ClaimWon, ClaimLost, Refresh, Progress, HandlerRollback, CheckCancelled,
                  HandlerReturns, HandlerRaises, WriteOutcome, WriteRefused
    <2>2. phase \notin {"down", "draining"}
      BY <2>1, RunsFacts DEF PoolCore, ProcessShape, LockInvariant, Calm
    <2> QED BY <2>1, <2>2, RunsFacts DEF PoolCore, ProcessShape, LockInvariant, Calm
  <1>4. UNCHANGED <<caller, reaper, phase>>
    BY <1>1, <1>3
       DEF WorkerStep, TaskStep, HandlerEnds, Finish, SelectOldest, SelectNone, NothingRun,
           ClaimWon, ClaimLost, Refresh, Progress, HandlerRollback, CheckCancelled,
           HandlerReturns, HandlerRaises, WriteOutcome, WriteRefused, taskVars
  <1>5. \A v \in Workers : v # w =>
              /\ pc'[v] = pc[v] /\ cur'[v] = cur[v] /\ seen'[v] = seen[v]
              /\ out'[v] = out[v] /\ lockSeen'[v] = lockSeen[v]
    <2>1. \A v \in Workers : v # w => pc'[v] = pc[v] /\ cur'[v] = cur[v]
      BY <1>1
         DEF WorkerStep, TaskStep, HandlerEnds, Finish, SelectOldest, SelectNone, NothingRun,
             ClaimWon, ClaimLost, Refresh, Progress, HandlerRollback, CheckCancelled,
             HandlerReturns, HandlerRaises, WriteOutcome, WriteRefused, taskVars, Drop
    <2>2. \A v \in Workers : v # w => seen'[v] = seen[v] /\ out'[v] = out[v]
      BY <1>1
         DEF WorkerStep, TaskStep, HandlerEnds, Finish, SelectOldest, SelectNone, NothingRun,
             ClaimWon, ClaimLost, Refresh, Progress, HandlerRollback, CheckCancelled,
             HandlerReturns, HandlerRaises, WriteOutcome, WriteRefused, taskVars, Drop
    <2>3. \A v \in Workers : v # w => lockSeen'[v] = lockSeen[v]
      BY <1>1, <1>2
    <2> QED BY <2>1, <2>2, <2>3
  <1>6. WorkerInOrder(w)
    BY DEF LockInvariant
  <1>7. \A i \in JobIds : Direct(rows[i].type, payload[i]) /\ i \in answered => i \in answered'
    BY <1>2, <1>6 DEF WorkerInOrder, Executing
  <1> HIDE DEF j
  <1>8. CASE ClaimWon(w)
    <2>1. /\ j \in JobIds /\ rows[j].status = "queued" /\ pc[w] = "selected"
          /\ rows' = Claim(rows, j) /\ pc'[w] = "claimed" /\ cur' = cur
      BY <1>1, <1>8 DEF ClaimWon, j
    <2>2. InOrder(rows[j], payload[j])
      BY <2>1 DEF LockInvariant
    <2>3. /\ ~Direct(rows[j].type, payload[j])
          /\ rows[j].lock_key = payload[j].space /\ payload[j].space \in Spaces
      BY <2>1, <2>2 DEF InOrder
    <2>4. /\ rows'[j].status = "running"
          /\ rows'[j].lock_key = rows[j].lock_key /\ rows'[j].type = rows[j].type
          /\ \A i \in JobIds : i # j => rows'[i] = rows[i]
      BY <1>1, <2>1, ClaimFacts
    <2>5. \A v \in Workers : Executing(v) => cur[v] # j
      BY <2>1, RunsFacts DEF PoolCore, ExclusiveExecution
    <2>6. InOrder(rows'[j], payload[j])
      BY <2>1, <2>2, <2>3, <2>4 DEF InOrder
    <2>7. WorkerInOrder(w)'
      BY <1>1, <2>1, <2>3, <2>4 DEF WorkerInOrder, j
    <2> QED BY <1>1, <1>3, <1>4, <1>5, <1>7, <2>1, <2>3, <2>4, <2>5, <2>6, <2>7, TaskInOrder
            DEF j
  <1>9. CASE WriteOutcome(w)
    <2>1. /\ j \in JobIds /\ pc[w] = "writing" /\ out[w] \in Outcomes
          /\ rows' = SetStatus(rows, j, out[w]) /\ pc'[w] = "idle"
      BY <1>1, <1>9 DEF WriteOutcome, j
    <2>2. /\ ~Direct(rows[j].type, payload[j]) /\ rows[j].status = "running"
          /\ out[w] = "queued" =>
                rows[j].lock_key = payload[j].space /\ payload[j].space \in Spaces
      BY <1>6, <2>1 DEF WorkerInOrder, Executing, j
    <2>3. /\ rows'[j].status = out[w]
          /\ \A i \in JobIds : i # j => rows'[i] = rows[i]
          /\ \A i \in JobIds : rows'[i].type = rows[i].type /\ rows'[i].lock_key = rows[i].lock_key
      <3>1. out[w] \in Statuses
        BY <2>1 DEF Outcomes, Statuses, ActiveStatuses
      <3> QED BY <1>1, <2>1, <3>1, SetStatusFacts
    <2>4. InOrder(rows'[j], payload[j])
      BY <2>1, <2>2, <2>3 DEF LockInvariant, InOrder
    <2>5. \A v \in Workers : v # w /\ Executing(v) => cur[v] # j
      BY <2>1, RunsFacts DEF PoolCore, ExclusiveExecution, Executing, j
    <2>6. WorkerInOrder(w)'
      BY <2>1 DEF WorkerInOrder, Executing
    <2>7. rows'[j].status # "absent"
      BY <2>1, <2>3 DEF Outcomes, TerminalStatuses
    <2> QED BY <1>1, <1>3, <1>4, <1>5, <1>7, <2>1, <2>2, <2>3, <2>4, <2>5, <2>6, <2>7, TaskInOrder
            DEF j
  <1>10. CASE ~ClaimWon(w) /\ ~WriteOutcome(w)
    <2>1. rows' = rows \/ Progress(w)
      BY <1>1, <1>10
         DEF WorkerStep, TaskStep, HandlerEnds, Finish, SelectOldest, SelectNone, ClaimLost,
             Refresh, HandlerRollback, CheckCancelled, HandlerReturns, HandlerRaises,
             WriteRefused
    <2>2. \A i \in JobIds : /\ rows'[i].type = rows[i].type
                           /\ rows'[i].lock_key = rows[i].lock_key
                           /\ rows'[i].status = rows[i].status
      BY <1>1, <2>1, AlikeFacts DEF Progress, Alike, j
    <2>3. WorkerInOrder(w)'
      <3>1. CASE SelectOldest(w) \/ SelectNone(w) \/ ClaimLost(w) \/ WriteRefused(w)
        BY <1>1, <3>1 DEF SelectOldest, SelectNone, ClaimLost, WriteRefused, NothingRun,
                         WorkerInOrder, Executing
      <3>2. CASE Refresh(w)
        <4>1. /\ pc[w] = "claimed" /\ pc'[w] = "running" /\ cur' = cur /\ out' = out
              /\ cur[w] \in JobIds
          BY <1>1, <3>2 DEF Refresh, j
        <4>2. lockSeen'[w] = rows[cur[w]].lock_key
          BY <1>1, <1>2, <4>1 DEF LoadsRow, JobIds, NoJob
        <4> QED BY <1>1, <1>6, <2>2, <4>1, <4>2 DEF WorkerInOrder, Executing
      <3>3. CASE Progress(w)
        <4>1. /\ pc[w] = "running" /\ UNCHANGED <<pc, cur, out, seen>> /\ cur[w] \in JobIds
          BY <1>1, <3>3 DEF Progress, taskVars, j
        <4>2. lockSeen' = lockSeen
          BY <1>1, <1>2, <4>1 DEF LoadsRow, JobIds, NoJob
        <4> QED BY <1>1, <1>6, <2>2, <4>1, <4>2 DEF WorkerInOrder, Executing
      <3>4. CASE HandlerRollback(w)
        <4>1. /\ pc[w] = "running" /\ UNCHANGED <<pc, cur, out>> /\ cur[w] \in JobIds
              /\ seen'[w] = "expired"
          BY <1>1, <3>4 DEF HandlerRollback, j
        <4> QED BY <1>1, <1>6, <2>2, <4>1 DEF WorkerInOrder, Executing
      <3>5. CASE CheckCancelled(w)
        <4>1. /\ pc[w] = "running" /\ UNCHANGED <<pc, cur, out>> /\ cur[w] \in JobIds
              /\ seen'[w] = Observed(w)
          BY <1>1, <3>5 DEF CheckCancelled, j
        <4>2. seen'[w] # "expired"
          BY <4>1 DEF Observed, Flag
        <4>3. lockSeen'[w] = IF seen[w] = "expired" THEN rows[cur[w]].lock_key ELSE lockSeen[w]
          BY <1>1, <1>2, <4>1, <4>2 DEF LoadsRow, JobIds, NoJob
        <4> QED BY <1>1, <1>6, <2>2, <4>1, <4>2, <4>3 DEF WorkerInOrder, Executing
      <3>6. CASE HandlerReturns(w) \/ HandlerRaises(w)
        <4>1. /\ pc[w] = "running" /\ pc'[w] = "writing" /\ cur' = cur /\ cur[w] \in JobIds
          BY <1>1, <3>6 DEF HandlerReturns, HandlerRaises, j
        <4> QED BY <1>1, <1>6, <2>2, <4>1 DEF WorkerInOrder, Executing
      <3> QED BY <1>1, <1>10, <3>1, <3>2, <3>3, <3>4, <3>5, <3>6
              DEF WorkerStep, TaskStep, HandlerEnds, Finish
    <2> QED BY <1>1, <1>3, <1>4, <1>5, <1>7, <2>2, <2>3, TaskInOrder
  <1> QED BY <1>8, <1>9, <1>10

(* The continuation takes the lock over in the step in which its parent     *)
(* stops working.                                                           *)
LEMMA HandlerContinuesInOrder ==
    ASSUME RunsInvariant, LockInvariant, NEW w \in Workers, HandlerContinues(w)
    PROVE  LockInvariant'
  <1> DEFINE j == cur[w]
             lock == LockObserved(w)
  <1>1. /\ pc[w] = "running" /\ j \in JobIds /\ rows[j] \in Row /\ payload[j] \in Payload
        /\ rows[j].type = "vector_reconcile" /\ Executing(w)
        /\ pc' = [pc EXCEPT ![w] = "writing"]
        /\ pc \in [Workers -> PcValues] /\ out \in [Workers -> Outcomes]
        /\ UNCHANGED <<cur, seen, caller, reaper, phase, stops, req, answered, lockSeen>>
    BY RunsFacts DEF HandlerContinues, TypeOK, Executing
  <1>2. /\ rows[j].status = "running" /\ ~Direct(rows[j].type, payload[j])
        /\ rows[j].lock_key = payload[j].space /\ payload[j].space \in Spaces
        /\ lock = rows[j].lock_key /\ lock # NoLock
    BY <1>1, NullAssumption DEF LockInvariant, WorkerInOrder, LockObserved
  <1>3. phase = "up"
    BY <1>1, RunsFacts DEF LockInvariant, Calm, PoolCore, ProcessShape
  <1>4. PICK k \in JobIds, o \in {"cancelled", "succeeded"} :
            /\ NextFree(rows, k)
            /\ out' = [out EXCEPT ![w] = o]
            /\ \/ /\ rows' = HandOver(rows, j, k, lock)
                  /\ payload' = [payload EXCEPT ![k] = continuation_payload(j)]
               \/ UNCHANGED <<rows, payload>>
    BY DEF HandlerContinues
  <1>5. /\ \A v \in Workers : Executing(v) => cur[v] \in JobIds /\ cur[v] # k
        /\ \A r \in Requests : req[r].pc = "acting" =>
                  req[r].job \in JobIds /\ req[r].job # k
        /\ \A v \in Workers : v # w /\ Executing(v) => cur[v] # j
        /\ j # k
    BY <1>1, <1>4, NobodyOnFree, RunsFacts DEF PoolCore, ExclusiveExecution
  <1>6. /\ pc'[w] = "writing" /\ out'[w] # "queued"
        /\ \A v \in Workers : v # w => pc'[v] = pc[v] /\ out'[v] = out[v]
    BY <1>1, <1>4
  <1> HIDE DEF lock
  <1>7. CASE UNCHANGED <<rows, payload>>
    <2>1. ASSUME NEW v \in Workers PROVE WorkerInOrder(v)'
      <3>1. CASE v = w
        BY <1>1, <1>2, <1>6, <1>7, <3>1 DEF WorkerInOrder
      <3>2. CASE v # w
        BY <1>1, <1>6, <1>7, <3>2 DEF LockInvariant, WorkerInOrder, Executing
      <3> QED BY <3>1, <3>2
    <2>2. /\ \A i \in JobIds : InOrder(rows'[i], payload'[i])
          /\ Stored' /\ RequestsInOrder' /\ Alone' /\ Calm'
      BY <1>1, <1>3, <1>7 DEF LockInvariant, Stored, RequestsInOrder, Alone, Calm
    <2> QED BY <2>1, <2>2 DEF LockInvariant
  <1>8. CASE ~UNCHANGED <<rows, payload>>
    <2> DEFINE row == NewRow("vector_reconcile", "queued", rows[j].max_attempts, lock, NoKey)
               parent == [rows[j] EXCEPT !.lock_key = NoLock]
               p == continuation_payload(j)
    <2>1. /\ rows' = [rows EXCEPT ![j] = parent, ![k] = row]
          /\ payload' = [payload EXCEPT ![k] = p]
      BY <1>2, <1>4, <1>8 DEF HandOver
    <2>2. /\ row.type = "vector_reconcile" /\ row.status = "queued" /\ row.lock_key = lock
      BY MadeRowFacts
    <2>3. /\ parent.type = rows[j].type /\ parent.status = "running"
      BY <1>1, <1>2 DEF Row
    <2>4. /\ p.action = payload[j].action /\ p.names = payload[j].names
          /\ p.space = payload[j].space
      BY <1>1 DEF continuation_payload, Payload
    <2>5. InOrder(row, p)
      BY <1>1, <1>2, <2>2, <2>4, LockedTypes DEF InOrder, Direct
    <2>6. InOrder(parent, payload[j])
      BY <1>1, <1>2, <2>3, LockedTypes DEF InOrder
    <2> HIDE DEF row, parent, p, j
    <2>7. /\ rows'[j] = parent /\ rows'[k] = row /\ payload'[k] = p
          /\ \A i \in JobIds : i # j /\ i # k => rows'[i] = rows[i]
          /\ \A i \in JobIds : i # k => payload'[i] = payload[i]
      BY <1>1, <1>5, <2>1, RunsFacts
    <2>8. \A i \in JobIds : InOrder(rows'[i], payload'[i])
      BY <1>1, <1>5, <2>5, <2>6, <2>7 DEF LockInvariant
    <2>9. Stored'
      BY <1>1, <1>5, <2>2, <2>3, <2>7 DEF LockInvariant, Stored
    <2>10. RequestsInOrder'
      <3> SUFFICES ASSUME NEW r \in Requests, req[r].pc = "acting"
                   PROVE  ActInOrder(req[r], rows'[req[r].job], payload'[req[r].job])
        BY <1>1 DEF LockInvariant, RequestsInOrder
      <3>1. /\ ActInOrder(req[r], rows[req[r].job], payload[req[r].job])
            /\ req[r].job \in JobIds /\ req[r].job # k
        BY <1>5 DEF LockInvariant, RequestsInOrder
      <3>2. req[r].job # j
        BY <1>2, <3>1 DEF ActInOrder
      <3> QED BY <2>7, <3>1, <3>2
    <2>11. Alone' /\ Calm'
      BY <1>1, <1>3 DEF LockInvariant, Alone, Calm
    <2>12. ASSUME NEW v \in Workers PROVE WorkerInOrder(v)'
      <3>1. CASE v = w
        BY <1>1, <1>2, <1>5, <1>6, <2>3, <2>7, <3>1 DEF WorkerInOrder, j
      <3>2. CASE v # w
        BY <1>1, <1>5, <1>6, <2>7, <3>2 DEF LockInvariant, WorkerInOrder, Executing
      <3> QED BY <3>1, <3>2
    <2> QED BY <2>8, <2>9, <2>10, <2>11, <2>12 DEF LockInvariant
  <1> QED BY <1>7, <1>8

-----------------------------------------------------------------------------
(* The process                                                              *)

(* The only boot finds an empty table.                                      *)
LEMMA BootInOrder ==
    ASSUME RunsInvariant, LockInvariant, Boot, UNCHANGED runVars
    PROVE  LockInvariant'
  <1> DEFINE t == Reap(rows, Stalled(rows))
  <1>1. /\ phase = "down" /\ phase' = "up" /\ rows' = RecoverOrphans(t)
        /\ \A w \in Workers : pc'[w] \in {"idle", "off"}
        /\ UNCHANGED <<cur, seen, out, caller, reaper, req, payload, answered, lockSeen>>
    BY DEF Boot, runVars
  <1>2. /\ \A j \in JobIds : rows[j].status = "absent"
        /\ \A r \in Requests : req[r].pc = "idle"
    BY <1>1 DEF LockInvariant, Calm
  <1>3. Stalled(rows) = {} /\ {} \in SUBSET JobIds
    BY <1>2 DEF Stalled
  <1>4. t \in [JobIds -> Row] /\ \A j \in JobIds : t[j] = rows[j]
    BY <1>3, RunsFacts, ReapFacts
  <1> HIDE DEF t
  <1>5. \A j \in JobIds : rows'[j].status = "absent"
    BY <1>1, <1>2, <1>4, RecoverFacts
  <1>6. /\ \A j \in JobIds : InOrder(rows'[j], payload'[j])
        /\ Stored' /\ RequestsInOrder' /\ Alone'
    BY <1>1, <1>2, <1>5 DEF InOrder, Stored, RequestsInOrder, Alone, Asking
  <1>7. ASSUME NEW w \in Workers PROVE WorkerInOrder(w)'
    BY <1>1 DEF WorkerInOrder, Executing
  <1>8. Calm'
    BY <1>1 DEF LockInvariant, Calm
  <1> QED BY <1>6, <1>7, <1>8 DEF LockInvariant

(* With no disturbance the queue and the process do nothing else.           *)
LEMMA UndisturbedFacts ==
    ASSUME Undisturbed, RunsInvariant, LockInvariant
    PROVE  /\ QueueStep => Boot /\ UNCHANGED runVars
           /\ ~RunsHalt
           /\ \A j \in JobIds : ~RequeueFailed(j)
  <1>1. stops \in Nat /\ ~(stops < MaxStops) /\ phase \notin {"draining", "drained"}
    BY RunsFacts DEF Undisturbed, TypeOK, LockInvariant, Calm
  <1> QED BY <1>1 DEF Undisturbed, QueueStep, BeginShutdown, RunsHalt, Crash, StopWorkers,
                      RequeueFailed

(* Before the boot there is nothing in disorder.                            *)
LEMMA LockInit == RunsInit => LockInvariant
  <1> SUFFICES ASSUME RunsInit PROVE LockInvariant
    OBVIOUS
  <1>1. /\ \A j \in JobIds : rows[j].status = "absent"
        /\ \A r \in Requests : req[r].pc = "idle"
        /\ \A w \in Workers : pc[w] = "off"
        /\ caller = NoCaller /\ reaper = {} /\ phase = "down"
    BY NoRequestFacts DEF RunsInit, Init, AbsentRow
  <1>2. \A j \in JobIds : InOrder(rows[j], payload[j])
    BY <1>1 DEF InOrder
  <1>3. Stored /\ RequestsInOrder /\ Alone /\ Calm
    BY <1>1 DEF Stored, RequestsInOrder, Asking, Alone, Calm
  <1>4. \A w \in Workers : WorkerInOrder(w)
    BY <1>1 DEF WorkerInOrder, Executing
  <1> QED BY <1>2, <1>3, <1>4 DEF LockInvariant

(* Without disturbance every step keeps order.                              *)
LEMMA LockStep ==
    ASSUME Undisturbed, RunsInvariant, LockInvariant, [RunsNext]_allVars
    PROVE  LockInvariant'
  <1>1. CASE RequestStep
    BY <1>1, OpenRequestInOrder, ResumeReplayInOrder, CheckLockInOrder, InsertRunInOrder,
       EndActionInOrder DEF RequestStep
  <1>2. CASE \E w \in Workers : RunsWorkerStep(w) \/ HandlerContinues(w)
    BY <1>2, RunsWorkerStepInOrder, HandlerContinuesInOrder
  <1>3. CASE QueueStep
    BY <1>3, UndisturbedFacts, BootInOrder
  <1>4. CASE UNCHANGED allVars
    <2>1. UNCHANGED <<rows, pc, cur, seen, out, caller, reaper, phase, req, payload,
                      answered, lockSeen>>
      BY <1>4 DEF allVars, runVars, vars
    <2>2. /\ \A j \in JobIds : InOrder(rows'[j], payload'[j])
          /\ Stored' /\ RequestsInOrder' /\ Alone' /\ Calm'
      BY <2>1 DEF LockInvariant, Stored, RequestsInOrder, Alone, Calm
    <2>3. ASSUME NEW w \in Workers PROVE WorkerInOrder(w)'
      BY <2>1 DEF LockInvariant, WorkerInOrder, Executing
    <2> QED BY <2>2, <2>3 DEF LockInvariant
  <1> QED BY <1>1, <1>2, <1>3, <1>4, UndisturbedFacts DEF RunsNext

(* The lock arbitrates: whatever requests of every kind, retries, replays   *)
(* and chains of continuations do, no two of them work on one space.        *)
THEOREM OneRunPerSpaceHolds == Undisturbed /\ RunsSpec => []OneRunPerSpace
  <1> SUFFICES ASSUME Undisturbed PROVE RunsSpec => []OneRunPerSpace
    OBVIOUS
  <1>1. RunsInvariant /\ LockInvariant /\ [RunsNext]_allVars => LockInvariant'
    BY LockStep
  <1>2. RunsInvariant /\ LockInvariant => OneRunPerSpace
    BY LockGivesOneRun
  <1> QED BY <1>1, <1>2, LockInit, RunsInductive, PTL DEF RunsSpec

=============================================================================
