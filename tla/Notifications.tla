--------------------------- MODULE Notifications ---------------------------
(***************************************************************************)
(* The notification funnel: emit with its dedup keys, the retrieval alert  *)
(* sweep that releases and emits them in one transaction, the webhook      *)
(* deliveries an emit puts into the job queue, and the deferred emails the *)
(* digest job sends.                                                       *)
(*                                                                         *)
(* A dedup window is live or expired; it may expire at any moment, also    *)
(* between the instant a sweep took as its now and the emits at its end.   *)
(* What an open transaction has staged is kept apart from the table until  *)
(* it commits.  The queue is the one of JobQueue as far as it matters      *)
(* here: one worker executes a job at a time, at most MAX_ATTEMPTS times,  *)
(* and a start of the process recovers what was running.  The sweep and    *)
(* the digest of a user do not run twice at once (the scheduler's overlap  *)
(* guard), every alert kind has a recipient who has not muted it, and      *)
(* fewer than DEDUP_ROW_LIMIT rows carry a key.  Mail that is sent at once *)
(* leaves nothing to be decided later and is not followed.                 *)
(***************************************************************************)
EXTENDS Naturals, FiniteSets

CONSTANTS
    Alerts,        \* dedup keys of retrieval alerts, one per kind
    RunBased,      \* those of RUN_BASED_KINDS
    Others,        \* dedup keys of every other emitter
    Webhook, Email, \* the keys whose recipients want each channel
    Events,        \* ids of notification rows
    MAX_ATTEMPTS,  \* of a webhook delivery job
    MaxFaults      \* bound: crashes, undecodable answers, failed digests and evaluators

ASSUME NotificationAssumption ==
    /\ RunBased \subseteq Alerts
    /\ Alerts \cap Others = {} /\ "no_key" \notin Alerts \cup Others
    /\ Webhook \cup Email \subseteq Alerts \cup Others
    /\ MAX_ATTEMPTS \in Nat \ {0}
    /\ MaxFaults \in Nat

VARIABLES
    raised,  \* the alerts whose condition holds
    note,    \* the notifications with their deliveries and delivery jobs
    worker,  \* where the execution of each delivery job stands
    sweep,   \* the open transaction of the alert sweep
    digest,  \* the open transaction of the digest job
    faults   \* faults so far

vars == <<raised, note, worker, sweep, digest, faults>>

Keys == Alerts \cup Others

NoKey == "no_key"

(* What _deliver_payload makes of the peer: delivered; a permanent refusal  *)
(* (blocked, disabled, 4xx); a transient one (rate limit, 429, 5xx, no      *)
(* answer in time); and an answer httpx cannot decode, whose error no       *)
(* except clause catches.                                                   *)
Answers == {"delivered", "refused", "transient", "undecodable"}

Unused ==
    [key |-> NoKey, ttl |-> "expired", hook |-> "none", job |-> "none",
     attempts |-> 0, mail |-> "none"]

Note ==
    [key : Keys \cup {NoKey}, ttl : {"live", "expired"},
     hook : {"none", "pending", "delivered", "failed"},
     job : {"none", "queued", "running", "succeeded", "failed", "cancelled"},
     attempts : 0..MAX_ATTEMPTS, mail : {"none", "deferred", "closed"}]

(* A row nobody looks at again is forgotten and its id free for another.    *)
Kept(n) ==
    IF n.key = NoKey /\ n.job \notin {"queued", "running"} /\ n.mail # "deferred"
    THEN Unused ELSE n

NoSweep == [open |-> FALSE, todo |-> {}, expired |-> {}, released |-> {},
            staged |-> {}]

NoDigest == [open |-> FALSE, todo |-> {}, closed |-> {}]

Init ==
    /\ raised = {}
    /\ note = [e \in Events |-> Unused]
    /\ worker = [e \in Events |-> "idle"]
    /\ sweep = NoSweep
    /\ digest = NoDigest
    /\ faults = 0

Fault == faults < MaxFaults /\ faults' = faults + 1

-----------------------------------------------------------------------------
(* emit.                                                                    *)

Expired == {e \in Events : note[e].key \in Alerts /\ note[e].ttl = "expired"}

(* The select of emit: an event with this key whose window is live.         *)
Suppressed(k, released) ==
    \E e \in Events \ released : note[e].key = k /\ note[e].ttl = "live"

(* uq_notifications_dedup_key has no TTL: any row with the key is in the    *)
(* way of an insert.                                                        *)
Taken(k, released) == \E e \in Events \ released : note[e].key = k

(* _dispatch and _deliver: a wanted webhook is queued and a wanted email is *)
(* deferred (quiet hours, digest mode), unless the daily cap, a disabled    *)
(* channel or a send at once leaves nothing to be done later.               *)
Dispatched(k) ==
    {[Unused EXCEPT !.key = k, !.ttl = "live",
                    !.hook = IF queued THEN "pending" ELSE "none",
                    !.job = IF queued THEN "queued" ELSE "none",
                    !.mail = IF deferred THEN "deferred" ELSE "none"] :
        queued \in {FALSE, (k \in Webhook)}, deferred \in {FALSE, (k \in Email)}}

(* The table after a transaction has released rows.                         *)
Freed(released) ==
    [e \in Events |-> IF e \in released
                      THEN Kept([note[e] EXCEPT !.key = NoKey, !.ttl = "expired"])
                      ELSE note[e]]

(* Ids for the rows it inserts; which ones does not matter.                 *)
Places(table, staged) ==
    {place \in [staged -> {e \in Events : table[e] = Unused}] :
        \A m, n \in staged : m # n => place[m] # place[n]}

(* Its commit.                                                              *)
Commit(released, staged) ==
    LET table == Freed(released)
        places == Places(table, staged)
        place == CHOOSE p \in places : TRUE
    IN  /\ places # {}
        /\ note' = [e \in Events |-> IF \E n \in staged : place[n] = e
                                     THEN CHOOSE n \in staged : place[n] = e
                                     ELSE table[e]]

(* An emitter other than the alerts.  A live key suppresses the event.  No  *)
(* such emitter releases a key, so after its window the key is still taken: *)
(* the index refuses the insert and the caller's transaction is lost.       *)
emit(k) ==
    /\ ~Taken(k, {})
    /\ \E n \in Dispatched(k) : Commit({}, {n})
    /\ UNCHANGED <<raised, worker, sweep, digest, faults>>

(* The window of a row's key ends.                                          *)
Expires(e) ==
    /\ note[e].key # NoKey /\ note[e].ttl = "live"
    /\ note' = [note EXCEPT ![e].ttl = "expired"]
    /\ UNCHANGED <<raised, worker, sweep, digest, faults>>

(* What an alert watches starts or stops to hold.                           *)
Changes(k) ==
    /\ raised' = IF k \in raised THEN raised \ {k} ELSE raised \cup {k}
    /\ UNCHANGED <<note, worker, sweep, digest, faults>>

-----------------------------------------------------------------------------
(* RetrievalAlertService.evaluate: one transaction over every kind.         *)

(* self.now is taken here: these windows are the expired ones for the whole *)
(* pass.                                                                    *)
evaluate ==
    /\ ~sweep.open
    /\ sweep' = [NoSweep EXCEPT !.open = TRUE, !.todo = Alerts,
                                !.expired = Expired]
    /\ UNCHANGED <<raised, note, worker, digest, faults>>

(* Mutant: only recovered alerts give their key back.                       *)
Released_recovered_only(k, truncated) ==
    {e \in Events : note[e].key = k /\ k \notin raised /\ ~truncated}

(* Mutant: every key of the kind is given back.                             *)
Released_all(k, truncated) == {e \in Events : note[e].key = k}

(* The rows _sync releases: recovered or expired ones; nothing counts as    *)
(* recovered when the run scan behind the kind was truncated.               *)
Released(k, truncated) ==
    {e \in Events :
        /\ note[e].key = k
        /\ IF k \in raised THEN e \in sweep.expired ELSE ~truncated}

(* The kinds are evaluated in a fixed order.                                *)
Evaluates(k) ==
    sweep.open /\ sweep.todo # {} /\ k = CHOOSE kind \in sweep.todo : TRUE

(* _sync of one kind.                                                       *)
Sync(k) ==
    /\ Evaluates(k)
    /\ \E truncated \in {FALSE, (k \in RunBased)}, n \in Dispatched(k) :
        LET released == Released(k, truncated)
            emits == k \in raised /\ ~Suppressed(k, released)
        IN  /\ emits => ~Taken(k, released)
            /\ sweep' = [sweep EXCEPT
                            !.todo = @ \ {k},
                            !.released = @ \cup released,
                            !.staged = @ \cup IF emits THEN {n} ELSE {}]
    /\ UNCHANGED <<raised, note, worker, digest, faults>>

(* The evaluator raises: its kind is skipped.                               *)
EvaluatorFails(k) ==
    /\ Evaluates(k)
    /\ Fault
    /\ sweep' = [sweep EXCEPT !.todo = @ \ {k}]
    /\ UNCHANGED <<raised, note, worker, digest>>

(* The key expired after self.now: _sync kept it, emit does not see it and  *)
(* the index refuses the insert.  The session is lost: every later kind     *)
(* fails, and so does the commit.                                           *)
SyncCollides(k) ==
    /\ Evaluates(k)
    /\ k \in raised
    /\ ~Suppressed(k, Released(k, FALSE)) /\ Taken(k, Released(k, FALSE))
    /\ sweep' = NoSweep
    /\ UNCHANGED <<raised, note, worker, digest, faults>>

SweepCommit ==
    /\ sweep.open /\ sweep.todo = {}
    /\ Commit(sweep.released, sweep.staged)
    /\ sweep' = NoSweep
    /\ UNCHANGED <<raised, worker, digest, faults>>

-----------------------------------------------------------------------------
(* One webhook delivery through the job queue.                              *)

ClaimDelivery(e) ==
    /\ note[e].job = "queued"
    /\ note' = [note EXCEPT ![e].job = "running", ![e].attempts = @ + 1]
    /\ worker' = [worker EXCEPT ![e] = "start"]
    /\ UNCHANGED <<raised, sweep, digest, faults>>

(* cancel_job on a queued delivery.                                         *)
CancelDelivery(e) ==
    /\ note[e].job = "queued"
    /\ note' = [note EXCEPT ![e] = Kept([@ EXCEPT !.job = "cancelled"])]
    /\ UNCHANGED <<raised, worker, sweep, digest, faults>>

Post(e, a) ==
    /\ worker[e] = "start"
    /\ worker' = [worker EXCEPT ![e] = a]
    /\ IF a = "undecodable" THEN Fault ELSE UNCHANGED faults
    /\ UNCHANGED <<raised, note, sweep, digest>>

(* Mutant: a repeated execution does not look at the row.                   *)
process_delivery_again(e) ==
    \E a \in Answers : Post(e, a)

(* process_delivery up to the answer: a row that is already delivered is    *)
(* skipped.                                                                 *)
process_delivery(e) ==
    /\ note[e].hook # "delivered"
    /\ \E a \in Answers : Post(e, a)

AlreadyDelivered(e) ==
    /\ worker[e] = "start"
    /\ note[e].hook = "delivered"
    /\ worker' = [worker EXCEPT ![e] = "idle"]
    /\ note' = [note EXCEPT ![e] = Kept([@ EXCEPT !.job = "succeeded"])]
    /\ UNCHANGED <<raised, sweep, digest, faults>>

(* Mutant: a permanent refusal returns without _mark.                       *)
Mark_unmarked(e) ==
    /\ worker[e] \in Answers \ {"undecodable"}
    /\ note' = [note EXCEPT ![e].hook =
                    CASE worker[e] = "delivered" -> "delivered"
                      [] worker[e] = "transient" -> "failed"
                      [] OTHER                   -> @]
    /\ worker' = [worker EXCEPT ![e] = IF worker[e] = "transient"
                                       THEN "raises" ELSE "returns"]
    /\ UNCHANGED <<raised, sweep, digest, faults>>

(* _mark and its commit, before the job ends.                               *)
Mark(e) ==
    /\ worker[e] \in Answers \ {"undecodable"}
    /\ note' = [note EXCEPT ![e].hook =
                    IF worker[e] = "delivered" THEN "delivered" ELSE "failed"]
    /\ worker' = [worker EXCEPT ![e] = IF worker[e] = "transient"
                                       THEN "raises" ELSE "returns"]
    /\ UNCHANGED <<raised, sweep, digest, faults>>

(* Mutant: the attempts are not looked at.                                  *)
Retried_always(n) == [n EXCEPT !.job = "queued"]

(* _fail, and recover_orphans: back to the queue while attempts are left.   *)
Retried(n) ==
    [n EXCEPT !.job = IF n.attempts < MAX_ATTEMPTS THEN "queued" ELSE "failed"]

(* The end of execute.                                                      *)
EndDelivery(e) ==
    /\ worker[e] \in {"returns", "raises", "undecodable"}
    /\ note' = [note EXCEPT ![e] = Kept(IF worker[e] = "returns"
                                        THEN [@ EXCEPT !.job = "succeeded"]
                                        ELSE Retried(@))]
    /\ worker' = [worker EXCEPT ![e] = "idle"]
    /\ UNCHANGED <<raised, sweep, digest, faults>>

-----------------------------------------------------------------------------
(* The deferred emails.                                                     *)

(* Mutant: every email that ever was deferred is read.                      *)
Deferred_all == {e \in Events : note[e].mail # "none"}

Deferred == {e \in Events : note[e].mail = "deferred"}

(* flush_deferred_email reads them ...                                      *)
build_and_emit_digest ==
    /\ ~digest.open
    /\ digest' = [NoDigest EXCEPT !.open = TRUE, !.todo = Deferred]
    /\ UNCHANGED <<raised, note, worker, sweep, faults>>

(* ... and sends one after the other; sent or refused, it is closed.        *)
SendDeferred(e) ==
    /\ e \in digest.todo
    /\ digest' = [digest EXCEPT !.todo = @ \ {e}, !.closed = @ \cup {e}]
    /\ UNCHANGED <<raised, note, worker, sweep, faults>>

(* Mutant: the statuses are not written back.                               *)
DigestCommit_unwritten ==
    /\ digest.open /\ digest.todo = {}
    /\ digest' = NoDigest
    /\ UNCHANGED <<raised, note, worker, sweep, faults>>

(* The job's end commits the statuses and the digest's own event.           *)
DigestCommit ==
    /\ digest.open /\ digest.todo = {}
    /\ note' = [e \in Events |-> IF e \in digest.closed
                                 THEN Kept([note[e] EXCEPT !.mail = "closed"])
                                 ELSE note[e]]
    /\ digest' = NoDigest
    /\ UNCHANGED <<raised, worker, sweep, faults>>

(* The job raises and is rolled back; mail already sent stays sent.         *)
DigestFails ==
    /\ digest.open
    /\ Fault
    /\ digest' = NoDigest
    /\ UNCHANGED <<raised, note, worker, sweep>>

-----------------------------------------------------------------------------
(* Mutant: deliveries that were running are not put back.                   *)
Crash_forgets ==
    /\ Fault
    /\ worker' = [e \in Events |-> "idle"]
    /\ sweep' = NoSweep /\ digest' = NoDigest
    /\ UNCHANGED <<raised, note>>

(* The process dies, with every open transaction, and is started again.     *)
Crash ==
    /\ Fault
    /\ note' = [e \in Events |-> IF note[e].job = "running"
                                 THEN Kept(Retried(note[e])) ELSE note[e]]
    /\ worker' = [e \in Events |-> "idle"]
    /\ sweep' = NoSweep /\ digest' = NoDigest
    /\ UNCHANGED raised

SweepStep ==
    \/ evaluate
    \/ SweepCommit
    \/ \E k \in Alerts : Sync(k) \/ SyncCollides(k)

Deliver(e) ==
    ClaimDelivery(e) \/ process_delivery(e) \/ AlreadyDelivered(e)
        \/ Mark(e) \/ EndDelivery(e)

DigestStep ==
    \/ build_and_emit_digest
    \/ \E e \in Events : SendDeferred(e)
    \/ DigestCommit

Next ==
    \/ \E k \in Others : emit(k)
    \/ \E k \in Alerts : Changes(k) \/ EvaluatorFails(k)
    \/ \E e \in Events : Expires(e) \/ Deliver(e) \/ CancelDelivery(e)
    \/ SweepStep
    \/ DigestStep
    \/ DigestFails
    \/ Crash

Spec == Init /\ [][Next]_vars

(* The scheduler runs the sweep and the digest again and again, and the     *)
(* pool executes what is queued.                                            *)
FairSpec ==
    /\ Spec
    /\ WF_vars(SweepStep)
    /\ WF_vars(DigestStep)
    /\ \A e \in Events : WF_vars(Deliver(e))

-----------------------------------------------------------------------------
(* The rows, the executions and the two transactions keep their types.      *)
NotifyTypeOK ==
    /\ raised \subseteq Alerts
    /\ note \in [Events -> Note]
    /\ worker \in [Events -> {"idle", "start", "returns", "raises"} \cup Answers]
    /\ sweep.todo \subseteq Alerts /\ sweep.released \subseteq Events
    /\ digest.todo \subseteq Events /\ digest.closed \subseteq Events
    /\ faults \in 0..MaxFaults

(* What is recorded as sent is not sent again: neither a crash between the  *)
(* commit of process_delivery and the end of its job nor a later digest     *)
(* repeats it.                                                              *)
SentOnce ==
    \A e \in Events :
        /\ note[e].hook = "delivered" => worker[e] \notin Answers
        /\ note[e].mail = "closed" => e \notin digest.todo

(* uq_notifications_dedup_key, which the release and the emit of one sweep  *)
(* rely on, and the outbox: a webhook row that is still pending belongs to  *)
(* a job that is active, was cancelled, or lost each of its attempts.       *)
OutboxHolds ==
    \A e \in Events :
        /\ \A f \in Events : (e # f /\ note[e].key = note[f].key)
                                 => note[e].key = NoKey
        /\ note[e].hook = "pending" =>
            \/ note[e].job \in {"queued", "running", "cancelled"}
            \/ note[e].job = "failed" /\ faults >= MAX_ATTEMPTS

Announced(k) == \E e \in Events : note[e].key = k /\ note[e].ttl = "live"

(* An alert is announced once per window: a sweep never announces again     *)
(* what it found announced and still live, whatever expires meanwhile.      *)
QuietWhileLive ==
    \A n \in sweep.staged, e \in Events :
        note[e].key = n.key => e \in sweep.released /\ note[e].ttl = "expired"

(* An alert that stays raised is announced, and again whenever its window   *)
(* has passed, although a key that expires during a sweep costs that sweep  *)
(* everything it staged, for every kind.                                    *)
RaisedIsAnnounced ==
    \A k \in Alerts : <>[](k \in raised) => []<>Announced(k)

(* A queued webhook is delivered or reported failed, through retries and    *)
(* crashes, unless it is cancelled.                                         *)
DeliveryEnds ==
    \A e \in Events : note[e].hook = "pending" ~>
        \/ note[e].hook # "pending"
        \/ note[e].job = "cancelled"
        \/ faults >= MAX_ATTEMPTS

(* A deferred email goes out or is reported failed.                         *)
DeferredGoesOut ==
    \A e \in Events : note[e].mail = "deferred" ~> note[e].mail # "deferred"
=============================================================================
