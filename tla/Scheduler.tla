------------------------------ MODULE Scheduler ------------------------------
(***************************************************************************)
(* The scheduler loop: one pass per time unit (scheduler_interval_seconds) *)
(* claims the due schedules and, for each, skips a misfire, waits for an   *)
(* overlapping run, backs off after failures, or enqueues a job.  A row of *)
(* failures raises an alert inside the pass, under a dedup key of its      *)
(* schedule and count.                                                     *)
(*                                                                         *)
(* Times are kept relative to the present: wait is next_run_at - now, age  *)
(* is now - last_run_at.  Both stop counting where no decision tells the   *)
(* values apart any more.  A pass is shorter than a time unit, but its     *)
(* transactions interleave with the admin's requests and the worker pool.  *)
(***************************************************************************)
EXTENDS Integers, FiniteSets

CONSTANTS
    Schedules,
    Banner,      \* the schedules without a task (user_checkin)
    Locked,      \* those whose task takes a space lock (vector_reconcile)
    Asap,        \* those whose misfire policy is asap; the others skip
    UserOwned,   \* those a user attaches and removes
    Slots,       \* how far ahead of now next_after puts the next slot
    GRACE,       \* the lateness, max(period * 2, 2 h), after which a run is skipped
    OVERLAP_RETRY,           \* the five minutes until an overlapped slot retries
    BACKOFF_BASE_SECONDS, BACKOFF_MAX_SECONDS,
    MaxRung,     \* the exponent at which the ladder stops doubling
    FAILURE_ALERT_THRESHOLD, \* the failures from which every count alerts
    MaxFaults    \* bound: lost passes and re-attached schedules

ASSUME SchedulerAssumption ==
    /\ Banner \subseteq Schedules /\ Locked \subseteq Schedules \ Banner
    /\ Asap \subseteq Schedules /\ UserOwned \subseteq Schedules
    /\ Slots \subseteq Nat \ {0} /\ Slots # {}
    /\ GRACE \in Nat /\ OVERLAP_RETRY \in Nat \ {0}
    /\ BACKOFF_BASE_SECONDS \in Nat \ {0} /\ BACKOFF_MAX_SECONDS \in Nat \ {0}
    /\ MaxRung \in Nat \ {0} /\ MaxFaults \in Nat
    /\ FAILURE_ALERT_THRESHOLD \in 1..MaxRung

AtMost(a, b) == IF a <= b THEN a ELSE b

(* 2 ** n, as a recursive function, which can be proved about.              *)
Doubled[n \in Nat] == IF n = 0 THEN 1 ELSE 2 * Doubled[n - 1]

(* The ladder: exponential in the failures, capped.                         *)
Delay(f) ==
    AtMost(BACKOFF_MAX_SECONDS, BACKOFF_BASE_SECONDS * Doubled[AtMost(f, MaxRung)])

MaxLate == GRACE + 1

MaxAge == Delay(MaxRung)

VARIABLES
    sched,   \* the schedules table
    last,    \* the status of the job last_job_id names
    stray,   \* active jobs of a schedule that its row does not name
    streak,  \* history: how many recorded runs in a row have failed
    alerts,  \* the dedup keys of a schedule's failure alerts, by count
    pass,    \* the pass of the loop
    ticked,  \* whether this time unit had its pass
    asleep,  \* the host sleeps, or the application is not running
    faults

envVars == <<asleep, faults>>

vars == <<sched, last, stray, streak, alerts, pass, ticked, asleep, faults>>

(* next_run_at lies no further ahead than a slot, a retry or a delay.       *)
Waits ==
    {w \in Int :
        /\ -MaxLate <= w
        /\ w <= MaxAge \/ w <= OVERLAP_RETRY \/ \E slot \in Slots : w <= slot}

SchedRow ==
    [exists : BOOLEAN, enabled : BOOLEAN, wait : Waits, age : 0..MaxAge,
     failures : 0..MaxRung]

(* queued and running are one status here, succeeded and cancelled another. *)
JobStatuses == {"none", "active", "succeeded", "failed"}

(* A key is free, or an alert has it, in its window or after it: nothing    *)
(* releases the key of a failure alert.  At MaxRung one key stands for all  *)
(* the counts the ladder does not tell apart.                               *)
Counts == FAILURE_ALERT_THRESHOLD..MaxRung

Keys == [Counts -> {"free", "live", "spent"}]

NoAlerts == [n \in Counts |-> "free"]

(* What the pass holds: the schedules still to claim, the one it handles,   *)
(* how late the copy it read says that one is, and the job it enqueued.     *)
NoPass ==
    [pc |-> "idle", todo |-> {}, cur |-> {}, late |-> 0, job |-> "none",
     gone |-> FALSE]

(* Types of the table, of the pass and of the clocks: no branch leaves a    *)
(* next_run_at outside the range the misfire and backoff rules allow.       *)
SchedTypeOK ==
    /\ sched \in [Schedules -> SchedRow]
    /\ last \in [Schedules -> JobStatuses]
    /\ stray \in [Schedules -> Nat]
    /\ streak \in [Schedules -> 0..MaxRung]
    /\ alerts \in [Schedules -> Keys]
    /\ pass \in [pc : {"idle", "claiming", "handling", "enqueued"},
                 todo : SUBSET Schedules, cur : SUBSET Schedules,
                 late : 0..MaxLate, job : JobStatuses, gone : BOOLEAN]
    /\ ticked \in BOOLEAN /\ asleep \in BOOLEAN /\ faults \in 0..MaxFaults

(* ensure_schedule's new row: its first slot lies ahead.                    *)
NewSchedule(slot) ==
    [exists |-> TRUE, enabled |-> TRUE, wait |-> slot, age |-> MaxAge,
     failures |-> 0]

Init ==
    /\ \E slot \in Slots : sched = [s \in Schedules |-> NewSchedule(slot)]
    /\ last = [s \in Schedules |-> "none"]
    /\ stray = [s \in Schedules |-> 0]
    /\ streak = [s \in Schedules |-> 0]
    /\ alerts = [s \in Schedules |-> NoAlerts]
    /\ pass = NoPass
    /\ ticked = FALSE /\ asleep = FALSE /\ faults = 0

-----------------------------------------------------------------------------
(* tick                                                                     *)

Due(s) == sched[s].exists /\ sched[s].wait <= 0

(* The SELECT of the enabled schedules that are due.                        *)
TickStart ==
    LET due == {s \in Schedules : Due(s) /\ sched[s].enabled}
    IN  /\ ~asleep /\ ~ticked /\ pass.pc = "idle"
        /\ ticked' = TRUE
        /\ pass' = IF due = {} THEN NoPass
                   ELSE [NoPass EXCEPT !.pc = "claiming", !.todo = due]
        /\ UNCHANGED <<sched, last, stray, streak, alerts, envVars>>

(* The loop goes on with the schedules not claimed yet, or ends.            *)
Remaining(todo) ==
    IF todo = {} THEN NoPass ELSE [NoPass EXCEPT !.pc = "claiming", !.todo = todo]

(* The conditional UPDATE asks again whether the row is due, not whether it *)
(* is enabled; then the row is read.                                        *)
ClaimDue(s) ==
    /\ pass.pc = "claiming" /\ s \in pass.todo
    /\ Due(s)
    /\ pass' = [pass EXCEPT !.pc = "handling", !.todo = @ \ {s}, !.cur = {s},
                            !.late = -sched[s].wait]
    /\ UNCHANGED <<sched, last, stray, streak, alerts, ticked, envVars>>

ClaimMissed(s) ==
    /\ pass.pc = "claiming" /\ s \in pass.todo
    /\ ~Due(s)
    /\ pass' = Remaining(pass.todo \ {s})
    /\ UNCHANGED <<sched, last, stray, streak, alerts, ticked, envVars>>

-----------------------------------------------------------------------------
(* _handle_due                                                              *)

Handling(s) == pass.pc = "handling" /\ s \in pass.cur /\ ~pass.gone

(* A branch that ends without a job writes the changed columns by id.       *)
SettleRow(s, row) ==
    /\ sched' = [sched EXCEPT ![s] = row]
    /\ pass' = Remaining(pass.todo)
    /\ UNCHANGED <<last, stray, streak, ticked, envVars>>

Reslot(s, row) == SettleRow(s, row) /\ UNCHANGED alerts

TooLate(s) == s \notin Asap /\ pass.late > GRACE

Misfire(s) ==
    /\ Handling(s)
    /\ TooLate(s)
    /\ \E slot \in Slots : Reslot(s, [sched[s] EXCEPT !.wait = slot])

BannerDue(s) ==
    /\ Handling(s)
    /\ ~TooLate(s)
    /\ s \in Banner
    /\ \E slot \in Slots : Reslot(s, [sched[s] EXCEPT !.wait = slot])

(* Mutant: only the catch-up schedules look for a previous run.             *)
Overlapping_asap(s) == last[s] = "active" /\ s \in Asap

(* The overlap guard: the job last_job_id names is queued or running.       *)
Overlapping(s) == last[s] = "active"

Overlap(s) ==
    /\ Handling(s)
    /\ ~TooLate(s) /\ s \notin Banner
    /\ Overlapping(s)
    /\ Reslot(s, [sched[s] EXCEPT !.wait = OVERLAP_RETRY])

(* Mutant: a failure is noted, not counted.                                 *)
Folded_once(s) ==
    CASE last[s] = "none"   -> sched[s].failures
      [] last[s] = "failed" -> 1
      [] OTHER              -> 0

(* The previous run's outcome folded into consecutive_failures.             *)
Folded(s) ==
    CASE last[s] = "none"   -> sched[s].failures
      [] last[s] = "failed" -> AtMost(sched[s].failures + 1, MaxRung)
      [] OTHER              -> 0

(* _alert_failure: each count of failures from the threshold on.            *)
AlertDue(s) == last[s] = "failed" /\ Folded(s) >= FAILURE_ALERT_THRESHOLD

(* The alert takes a free key, unless its kind is muted or nobody is to be  *)
(* told; in its window the key suppresses the next one.  It is committed    *)
(* with the row.                                                            *)
AlertFailure(s) ==
    \/ UNCHANGED alerts
    \/ /\ AlertDue(s)
       /\ alerts[s][Folded(s)] = "free"
       /\ alerts' = [alerts EXCEPT ![s][Folded(s)] = "live"]

InBackoff(s) == Folded(s) > 0 /\ sched[s].age < Delay(Folded(s))

(* Free to run, or to back off.                                             *)
Clear(s) ==
    /\ Handling(s)
    /\ ~TooLate(s) /\ s \notin Banner
    /\ ~Overlapping(s)

(* Mutant: the back-off counts from the last look, not from the last run.   *)
BackOff_rearmed(s) ==
    /\ Clear(s)
    /\ InBackoff(s)
    /\ SettleRow(s, [sched[s] EXCEPT !.failures = Folded(s), !.age = 0,
                                     !.wait = Delay(Folded(s)) - sched[s].age])
    /\ AlertFailure(s)

(* Mutant: the remaining delay with its sign turned.                        *)
BackOff_elapsed(s) ==
    /\ Clear(s)
    /\ InBackoff(s)
    /\ SettleRow(s, [sched[s] EXCEPT !.failures = Folded(s),
                                     !.wait = sched[s].age - Delay(Folded(s))])
    /\ AlertFailure(s)

(* next_run_at becomes last_run_at + delay.                                 *)
BackOff(s) ==
    /\ Clear(s)
    /\ InBackoff(s)
    /\ SettleRow(s, [sched[s] EXCEPT !.failures = Folded(s),
                                     !.wait = Delay(Folded(s)) - sched[s].age])
    /\ AlertFailure(s)

(* The space lock is taken: the slot is retried like an overlap.            *)
LockConflict(s) ==
    /\ Clear(s)
    /\ ~InBackoff(s)
    /\ s \in Locked
    /\ SettleRow(s, [sched[s] EXCEPT !.failures = Folded(s), !.wait = OVERLAP_RETRY])
    /\ AlertFailure(s)

(* Or it is taken between the look and the insert: the rollback takes the   *)
(* fold and its alert along.                                                *)
LockCollision(s) ==
    /\ Clear(s)
    /\ ~InBackoff(s)
    /\ s \in Locked
    /\ Reslot(s, [sched[s] EXCEPT !.wait = OVERLAP_RETRY])

(* enqueue commits the job, and with it the folded failures ...             *)
EnqueueRun(s) ==
    /\ Clear(s)
    /\ ~InBackoff(s)
    /\ sched' = [sched EXCEPT ![s].failures = Folded(s)]
    /\ pass' = [pass EXCEPT !.pc = "enqueued", !.job = "active"]
    /\ AlertFailure(s)
    /\ UNCHANGED <<last, stray, streak, ticked, envVars>>

(* A recorded run that has ended lengthens or breaks the row of failures.   *)
StreakAfter(s, status) ==
    CASE status = "failed"    -> AtMost(streak[s] + 1, MaxRung)
      [] status = "succeeded" -> 0
      [] OTHER                -> streak[s]

(* ... and a second commit names the job and moves on to the next slot.     *)
RecordRun(s) ==
    /\ pass.pc = "enqueued" /\ s \in pass.cur /\ ~pass.gone
    /\ last' = [last EXCEPT ![s] = pass.job]
    /\ streak' = [streak EXCEPT ![s] = StreakAfter(s, pass.job)]
    /\ \E slot \in Slots :
        sched' = [sched EXCEPT ![s].age = 0, ![s].wait = slot]
    /\ pass' = Remaining(pass.todo)
    /\ UNCHANGED <<stray, alerts, ticked, envVars>>

(* The pass raises: the session is rolled back, the loop logs the error and *)
(* sleeps.  A job it had enqueued stays, without a row that names it.       *)
LosePass ==
    /\ pass' = NoPass
    /\ stray' = [s \in Schedules |->
                    IF s \in pass.cur /\ pass.job = "active" THEN stray[s] + 1
                    ELSE stray[s]]
    /\ UNCHANGED <<sched, last, streak, alerts, ticked, asleep>>

(* A database error, a trigger whose next_after raises, or the end of the   *)
(* process, between two commits.                                            *)
PassFails ==
    /\ pass.pc # "idle"
    /\ faults < MaxFaults
    /\ faults' = faults + 1
    /\ LosePass

(* The row the pass handles was deleted: its commit finds nothing to write. *)
RowVanished ==
    /\ pass.gone
    /\ LosePass
    /\ UNCHANGED faults

(* The window of the key has passed, and the unique index still has it: the *)
(* insert of the alert raises, on this pass and on each that follows.       *)
AlertRefused(s) ==
    /\ Clear(s)
    /\ AlertDue(s) /\ alerts[s][Folded(s)] = "spent"
    /\ LosePass
    /\ UNCHANGED faults

(* The next slot is asked for: a trigger may raise however often.  A pass   *)
(* that leaves an active job behind counts as a fault.                      *)
TriggerRaises(s) ==
    /\ \/ Handling(s) /\ (TooLate(s) \/ s \in Banner)
       \/ pass.pc = "enqueued" /\ s \in pass.cur /\ pass.job # "active"
    /\ LosePass
    /\ UNCHANGED faults

-----------------------------------------------------------------------------
(* Requests                                                                 *)

run_now(s) ==
    /\ ~asleep
    /\ sched[s].exists /\ s \notin Banner
    /\ sched' = [sched EXCEPT ![s].wait = 0, ![s].enabled = TRUE]
    /\ UNCHANGED <<last, stray, streak, alerts, pass, ticked, envVars>>

set_enabled(s, enabled) ==
    /\ ~asleep
    /\ sched[s].exists
    /\ sched' = [sched EXCEPT ![s].enabled = enabled]
    /\ UNCHANGED <<last, stray, streak, alerts, pass, ticked, envVars>>

(* The old row goes, with what it knew of its last run and of its alerts,   *)
(* whose keys hold its id.                                                  *)
Forget(s) ==
    /\ pass' = IF s \in pass.cur THEN [pass EXCEPT !.gone = TRUE] ELSE pass
    /\ last' = [last EXCEPT ![s] = "none"]
    /\ streak' = [streak EXCEPT ![s] = 0]
    /\ alerts' = [alerts EXCEPT ![s] = NoAlerts]
    /\ stray' = [stray EXCEPT ![s] = IF last[s] = "active" THEN @ + 1 ELSE @]

(* set_radar_schedule and its siblings with no trigger: detached.           *)
Detach(s) ==
    /\ ~asleep
    /\ s \in UserOwned /\ sched[s].exists
    /\ faults < MaxFaults
    /\ faults' = faults + 1
    /\ sched' = [sched EXCEPT ![s].exists = FALSE]
    /\ Forget(s)
    /\ UNCHANGED <<ticked, asleep>>

(* With a trigger: any old row is deleted and a new one made.               *)
Attach(s) ==
    /\ ~asleep
    /\ s \in UserOwned
    /\ faults < MaxFaults
    /\ faults' = faults + 1
    /\ \E slot \in Slots : sched' = [sched EXCEPT ![s] = NewSchedule(slot)]
    /\ Forget(s)
    /\ UNCHANGED <<ticked, asleep>>

-----------------------------------------------------------------------------
(* The worker pool, the clock and the host                                  *)

JobEnds(s, status) ==
    /\ last[s] = "active"
    /\ last' = [last EXCEPT ![s] = status]
    /\ streak' = [streak EXCEPT ![s] = StreakAfter(s, status)]
    /\ UNCHANGED <<sched, stray, alerts, pass, ticked, envVars>>

(* A job may end before the pass has recorded it.                           *)
NewJobEnds(status) ==
    /\ pass.job = "active"
    /\ pass' = [pass EXCEPT !.job = status]
    /\ UNCHANGED <<sched, last, stray, streak, alerts, ticked, envVars>>

StrayEnds(s) ==
    /\ stray[s] > 0
    /\ stray' = [stray EXCEPT ![s] = @ - 1]
    /\ UNCHANGED <<sched, last, streak, alerts, pass, ticked, envVars>>

(* The windows of some alerts end; a pass is too short for that to matter.  *)
WindowsEnd ==
    \E ended \in SUBSET (Schedules \X Counts) :
        alerts' = [s \in Schedules |->
                      [n \in Counts |->
                          IF <<s, n>> \in ended /\ alerts[s][n] = "live" THEN "spent"
                          ELSE alerts[s][n]]]

(* A time unit passes: awake, after the pass of this unit has ended.        *)
Advance ==
    /\ asleep \/ (ticked /\ pass.pc = "idle")
    /\ sched' = [s \in Schedules |->
                    [sched[s] EXCEPT
                        !.wait = IF @ = -MaxLate THEN @ ELSE @ - 1,
                        !.age = AtMost(@ + 1, MaxAge)]]
    /\ ticked' = FALSE
    /\ WindowsEnd
    /\ UNCHANGED <<last, stray, streak, pass, envVars>>

Sleep ==
    /\ ~asleep /\ pass.pc = "idle"
    /\ asleep' = TRUE
    /\ UNCHANGED <<sched, last, stray, streak, alerts, pass, ticked, faults>>

Wake ==
    /\ asleep
    /\ asleep' = FALSE
    /\ ticked' = FALSE
    /\ UNCHANGED <<sched, last, stray, streak, alerts, pass, faults>>

Handle(s) ==
    \/ Misfire(s) \/ BannerDue(s) \/ Overlap(s) \/ BackOff(s)
    \/ LockConflict(s) \/ LockCollision(s) \/ EnqueueRun(s) \/ RecordRun(s)

(* The pass ends at this schedule, and may again whenever it comes to it.   *)
Jams(s) == AlertRefused(s) \/ TriggerRaises(s)

PassStep ==
    \/ TickStart \/ RowVanished
    \/ \E s \in Schedules : ClaimDue(s) \/ ClaimMissed(s) \/ Handle(s) \/ Jams(s)

RequestStep ==
    \E s \in Schedules :
        \/ run_now(s) \/ Detach(s) \/ Attach(s)
        \/ \E enabled \in BOOLEAN : set_enabled(s, enabled)

LastJobEnds(s) == \E status \in {"succeeded", "failed"} : JobEnds(s, status)

JobStep ==
    \/ \E s \in Schedules : LastJobEnds(s) \/ StrayEnds(s)
    \/ \E status \in {"succeeded", "failed"} : NewJobEnds(status)

Next == PassStep \/ PassFails \/ RequestStep \/ JobStep \/ Advance \/ Sleep \/ Wake

Spec == Init /\ [][Next]_vars

(* The loop's awaits end, time passes, the pool settles every job, and a    *)
(* host that sleeps wakes again.  Strong for the pass: the loop ticks as    *)
(* soon as the application starts or resumes, however short it stays awake; *)
(* and for the clock, which sleeps do not stop.                             *)
Fairness ==
    /\ SF_vars(PassStep)
    /\ SF_vars(Advance)
    /\ \A s \in Schedules : WF_vars(LastJobEnds(s))
    /\ WF_vars(Wake)

FairSpec == Spec /\ Fairness

-----------------------------------------------------------------------------
(* Properties                                                               *)

ActiveJobs(s) ==
    stray[s]
        + (IF last[s] = "active" THEN 1 ELSE 0)
        + (IF s \in pass.cur /\ pass.job = "active" THEN 1 ELSE 0)

(* The overlap guard: a schedule has one job at a time, and each lost pass  *)
(* or re-attached row can slip at most one more past it.                    *)
OneJobPerSchedule == \A s \in Schedules : ActiveJobs(s) <= 1 + faults

(* A schedule whose last runs failed is not run again before the ladder's   *)
(* delay for that many failures has passed since its last run, whatever     *)
(* run_now, pauses, lost passes and sleeps come in between.                 *)
BackoffRespected ==
    [][\A s \in Schedules :
        (EnqueueRun(s) /\ streak[s] > 0) => sched[s].age >= Delay(streak[s])]_vars

Tasked == Schedules \ Banner

Gone(s) == ~sched[s].exists \/ ~sched[s].enabled

(* A run, or the attempt at one that the holder of the space lock stops.    *)
Tried(s) == EnqueueRun(s) \/ LockConflict(s) \/ LockCollision(s)

(* A schedule that stays enabled is run again and again once the host stays *)
(* awake: neither overlap, misfire nor the failure ladder holds it for ever.*)
(* A schedule whose task takes a space lock gets to the lock again and again.*)
(* What starves it is a pass that is lost again and again where it comes to *)
(* an alert whose key is spent, or to a trigger that raises.                *)
RunsAgain ==
    <>[]~asleep =>
        \/ \A s \in Tasked : []<>Gone(s) \/ []<><<Tried(s)>>_vars
        \/ []<><<\E s \in Schedules : Jams(s)>>_vars
=============================================================================
