--------------------------- MODULE SchedulerProofs ---------------------------
(***************************************************************************)
(* Proofs about the scheduler loop: the types of its table, one job per    *)
(* schedule but for the faults that let one slip, and the failure ladder.  *)
(***************************************************************************)
EXTENDS Scheduler, WellFoundedInduction, TLAPS

-----------------------------------------------------------------------------
(* The ladder                                                               *)

(* Every set of naturals that is not empty has a least element: induction   *)
(* over data, as a descent to the least counterexample.                     *)
LEMMA Least ==
    ASSUME NEW T, T \subseteq Nat, T # {}
    PROVE  \E x \in T : \A y \in T : x <= y
  <1>1. IsWellFoundedOn(OpToRel(<,Nat), Nat)
    BY NatLessThanWellFounded
  <1>2. PICK x \in T : \A y \in T : ~(<<y, x>> \in OpToRel(<,Nat))
    BY <1>1, WFMin
  <1>3. ASSUME NEW y \in T PROVE x <= y
    <2>1. <<y, x>> \in OpToRel(<,Nat) <=> y < x
      BY DEF OpToRel
    <2>2. ~(y < x)
      BY <1>2, <2>1
    <2>3. x \in Nat /\ y \in Nat
      OBVIOUS
    <2> QED BY <2>2, <2>3
  <1>4. QED BY <1>3

(* A table of the powers of two up to m.                                    *)
Table(m, f) == /\ f \in [0..m -> Nat]
               /\ f[0] = 1
               /\ \A i \in 0..m : i # 0 => f[i] = 2 * f[i - 1]

(* One exists for every m, by extending the one for m - 1 ...               *)
LEMMA TableExists == \A m \in Nat : \E f : Table(m, f)
  <1> DEFINE T == {m \in Nat : ~ \E f : Table(m, f)}
  <1>1. SUFFICES ASSUME T # {} PROVE FALSE
    OBVIOUS
  <1>2. PICK m \in T : \A y \in T : m <= y
    <2> HIDE DEF T
    <2>1. T \subseteq Nat
      BY DEF T
    <2> QED BY <2>1, <1>1, Least
  <1>3. m # 0
    <2>1. Table(0, [i \in 0..0 |-> 1])
      BY DEF Table
    <2> QED BY <2>1
  <1>4. m - 1 \in Nat /\ m - 1 \notin T
    BY <1>2, <1>3
  <1>5. PICK f : Table(m - 1, f)
    BY <1>4
  <1>6. Table(m, [i \in 0..m |-> IF i = m THEN 2 * f[m - 1] ELSE f[i]])
    BY <1>3, <1>4, <1>5 DEF Table
  <1> QED BY <1>6

(* ... and two agree wherever both are defined.                             *)
LEMMA TablesAgree ==
    ASSUME NEW f, NEW g, NEW m \in Nat, NEW n \in Nat, Table(m, f), Table(n, g)
    PROVE  \A i \in Nat : i <= m /\ i <= n => f[i] = g[i]
  <1> DEFINE T == {i \in Nat : i <= m /\ i <= n /\ f[i] # g[i]}
  <1>1. SUFFICES ASSUME T # {} PROVE FALSE
    OBVIOUS
  <1>2. PICK i \in T : \A j \in T : i <= j
    <2> HIDE DEF T
    <2>1. T \subseteq Nat
      BY DEF T
    <2> QED BY <2>1, <1>1, Least
  <1>3. CASE i = 0
    BY <1>2, <1>3 DEF Table
  <1>4. CASE i # 0
    <2>1. i - 1 \in Nat /\ i - 1 \notin T
      BY <1>2, <1>4
    <2>2. f[i - 1] = g[i - 1]
      BY <2>1, <1>2
    <2>3. f[i] = 2 * f[i - 1] /\ g[i] = 2 * g[i - 1]
      BY <1>2, <1>4 DEF Table
    <2> QED BY <2>2, <2>3, <1>2
  <1> QED BY <1>3, <1>4

(* So the recursive function exists and satisfies its own equation.         *)
LEMMA DoubledUnfolds ==
    Doubled = [n \in Nat |-> IF n = 0 THEN 1 ELSE 2 * Doubled[n - 1]]
  <1> DEFINE The(n) == CHOOSE f : Table(n, f)
             F == [n \in Nat |-> The(n)[n]]
  <1>1. \A n \in Nat : Table(n, The(n))
    BY TableExists
  <1>2. ASSUME NEW n \in Nat PROVE F[n] = IF n = 0 THEN 1 ELSE 2 * F[n - 1]
    <2>1. CASE n = 0
      BY <1>1, <2>1 DEF Table
    <2>2. CASE n # 0
      <3>1. n - 1 \in Nat
        BY <2>2
      <3>2. The(n)[n] = 2 * The(n)[n - 1]
        <4> HIDE DEF The
        <4> QED BY <1>1, <2>2 DEF Table
      <3>3. The(n)[n - 1] = The(n - 1)[n - 1]
        <4> HIDE DEF The
        <4>1. Table(n, The(n)) /\ Table(n - 1, The(n - 1))
          BY <1>1, <3>1
        <4>2. n - 1 <= n /\ n - 1 <= n - 1
          BY <3>1
        <4> QED BY <4>1, <4>2, <3>1, TablesAgree
      <3>4. F[n] = The(n)[n] /\ F[n - 1] = The(n - 1)[n - 1]
        <4> HIDE DEF The
        <4> QED BY <3>1
      <3> HIDE DEF F, The
      <3> QED BY <3>2, <3>3, <3>4, <2>2
    <2> QED BY <2>1, <2>2
  <1>3. F = [n \in Nat |-> IF n = 0 THEN 1 ELSE 2 * F[n - 1]]
    <2> DEFINE G == [n \in Nat |-> IF n = 0 THEN 1 ELSE 2 * F[n - 1]]
    <2>1. F = [n \in Nat |-> F[n]]
      OBVIOUS
    <2> HIDE DEF F
    <2>2. \A n \in Nat : F[n] = G[n]
      BY <1>2
    <2> HIDE DEF G
    <2>3. G = [n \in Nat |-> G[n]]
      BY DEF G
    <2>4. F = G
      BY <2>1, <2>2, <2>3
    <2> QED BY <2>4 DEF G
  <1> HIDE DEF F
  <1> QED BY <1>3 DEF Doubled

(* Powers of two are positive naturals ...                                  *)
LEMMA DoubledType == \A n \in Nat : Doubled[n] \in Nat \ {0}
  <1> DEFINE T == {n \in Nat : Doubled[n] \notin Nat \ {0}}
  <1>1. SUFFICES ASSUME T # {} PROVE FALSE
    OBVIOUS
  <1>2. PICK n \in T : \A j \in T : n <= j
    <2> HIDE DEF T
    <2>1. T \subseteq Nat
      BY DEF T
    <2> QED BY <2>1, <1>1, Least
  <1>3. Doubled[n] = IF n = 0 THEN 1 ELSE 2 * Doubled[n - 1]
    BY DoubledUnfolds
  <1>4. n # 0 => n - 1 \in Nat /\ n - 1 \notin T
    BY <1>2
  <1> QED BY <1>2, <1>3, <1>4

(* ... and grow with the exponent.                                          *)
LEMMA DoubledGrows == \A m, n \in Nat : m <= n => Doubled[m] <= Doubled[n]
  <1> SUFFICES ASSUME NEW m \in Nat PROVE \A n \in Nat : m <= n => Doubled[m] <= Doubled[n]
    OBVIOUS
  <1> DEFINE T == {n \in Nat : m <= n /\ ~(Doubled[m] <= Doubled[n])}
  <1>1. SUFFICES ASSUME T # {} PROVE FALSE
    OBVIOUS
  <1>2. PICK n \in T : \A j \in T : n <= j
    <2> HIDE DEF T
    <2>1. T \subseteq Nat
      BY DEF T
    <2> QED BY <2>1, <1>1, Least
  <1>3. Doubled[m] \in Nat /\ Doubled[n] \in Nat
    BY DoubledType
  <1>4. CASE n = m
    BY <1>2, <1>3, <1>4
  <1>5. CASE n # m
    <2>1. n - 1 \in Nat /\ n - 1 \notin T /\ n # 0 /\ m <= n - 1
      BY <1>2, <1>5
    <2>2. Doubled[n] = 2 * Doubled[n - 1]
      BY <2>1, DoubledUnfolds
    <2>3. Doubled[n - 1] \in Nat
      BY <2>1, DoubledType
    <2> QED BY <1>2, <1>3, <2>1, <2>2, <2>3
  <1> QED BY <1>4, <1>5

(* The numbers the code's constants are scaled to.                          *)
LEMMA ConstantsType ==
    /\ GRACE \in Nat /\ OVERLAP_RETRY \in Nat \ {0} /\ MaxRung \in Nat \ {0}
    /\ MaxFaults \in Nat /\ Slots \subseteq Nat \ {0} /\ MaxLate \in Nat \ {0}
  BY SchedulerAssumption DEF MaxLate

(* A rung's delay is a natural, and no rung waits less than one below it.   *)
LEMMA DelayGrows ==
    ASSUME NEW e \in 0..MaxRung, NEW f \in 0..MaxRung, e <= f
    PROVE  Delay(e) \in Nat /\ Delay(f) \in Nat /\ Delay(e) <= Delay(f)
  <1>1. MaxRung \in Nat /\ e \in Nat /\ f \in Nat
    BY ConstantsType
  <1>2. AtMost(e, MaxRung) = e /\ AtMost(f, MaxRung) = f
    BY <1>1 DEF AtMost
  <1>3. Doubled[e] \in Nat /\ Doubled[f] \in Nat /\ Doubled[e] <= Doubled[f]
    BY <1>1, DoubledType, DoubledGrows
  <1>4. ASSUME NEW b \in Nat, NEW x \in Nat, NEW y \in Nat, x <= y
        PROVE  b * x \in Nat /\ b * y \in Nat /\ b * x <= b * y
    <2>1. PICK d \in Nat : y = x + d
      <3>1. y - x \in Nat /\ y = x + (y - x)
        BY <1>4
      <3> QED BY <3>1
    <2>2. b * y = b * x + b * d
      BY <1>4, <2>1
    <2>3. b * x \in Nat /\ b * d \in Nat
      BY <1>4, <2>1
    <2> QED BY <2>2, <2>3
  <1>5. BACKOFF_BASE_SECONDS \in Nat /\ BACKOFF_MAX_SECONDS \in Nat
    BY SchedulerAssumption
  <1>6. /\ BACKOFF_BASE_SECONDS * Doubled[e] \in Nat
        /\ BACKOFF_BASE_SECONDS * Doubled[f] \in Nat
        /\ BACKOFF_BASE_SECONDS * Doubled[e] <= BACKOFF_BASE_SECONDS * Doubled[f]
    BY <1>3, <1>4, <1>5
  <1>7. /\ Delay(e) = AtMost(BACKOFF_MAX_SECONDS, BACKOFF_BASE_SECONDS * Doubled[e])
        /\ Delay(f) = AtMost(BACKOFF_MAX_SECONDS, BACKOFF_BASE_SECONDS * Doubled[f])
    BY <1>2 DEF Delay
  <1> QED BY <1>5, <1>6, <1>7 DEF AtMost

(* The top rung's delay is the greatest.                                    *)
LEMMA MaxAgeBounds ==
    MaxAge \in Nat /\ \A f \in 0..MaxRung : Delay(f) \in 0..MaxAge
  <1>1. MaxRung \in 0..MaxRung
    BY ConstantsType
  <1>2. ASSUME NEW f \in 0..MaxRung PROVE f <= MaxRung
    BY ConstantsType
  <1> QED BY <1>1, <1>2, DelayGrows DEF MaxAge

(* What next_run_at may be set to.                                          *)
LEMMA WaitsHold ==
    /\ Slots \subseteq Waits
    /\ OVERLAP_RETRY \in Waits
    /\ 0..MaxAge \subseteq Waits
  BY ConstantsType, MaxAgeBounds DEF Waits

-----------------------------------------------------------------------------
(* The inductive invariant                                                  *)

InHand(s) == s \in pass.cur /\ pass.job = "active"

(* The pass handles one schedule, and enqueues for one whose recorded run   *)
(* has ended.                                                               *)
PassHoldsOne ==
    /\ \A s, t \in pass.cur : s = t
    /\ pass.job # "none" <=> pass.pc = "enqueued"
    /\ pass.pc = "enqueued" => \A s \in pass.cur : last[s] # "active"
    /\ pass.pc \notin {"handling", "enqueued"} => pass.cur = {} /\ ~pass.gone

(* Each job no row names, and the one a deleted row leaves in hand, cost a  *)
(* fault.                                                                   *)
SlipsCounted ==
    \A s \in Schedules :
        stray[s] + (IF InHand(s) /\ pass.gone THEN 1 ELSE 0) <= faults

(* The failures the row will count once its last run is folded in, which    *)
(* may be again: a back-off writes the folded count and leaves the run.     *)
Counted(s) ==
    CASE last[s] = "failed"    -> AtMost(sched[s].failures + 1, MaxRung)
      [] last[s] = "succeeded" -> 0
      [] OTHER                 -> sched[s].failures

FailuresCounted ==
    \A s \in Schedules :
        /\ streak[s] <= Counted(s)
        /\ pass.pc = "enqueued" /\ s \in pass.cur /\ ~pass.gone
               => streak[s] <= sched[s].failures

(* The types of everything but the alerts, which no other table depends on. *)
TablesTypeOK ==
    /\ sched \in [Schedules -> SchedRow]
    /\ last \in [Schedules -> JobStatuses]
    /\ stray \in [Schedules -> Nat]
    /\ streak \in [Schedules -> 0..MaxRung]
    /\ pass \in [pc : {"idle", "claiming", "handling", "enqueued"},
                 todo : SUBSET Schedules, cur : SUBSET Schedules,
                 late : 0..MaxLate, job : JobStatuses, gone : BOOLEAN]
    /\ ticked \in BOOLEAN /\ asleep \in BOOLEAN /\ faults \in 0..MaxFaults

SchedulerInvariant ==
    /\ TablesTypeOK
    /\ PassHoldsOne
    /\ SlipsCounted
    /\ FailuresCounted

Passes ==
    [pc : {"idle", "claiming", "handling", "enqueued"},
     todo : SUBSET Schedules, cur : SUBSET Schedules,
     late : 0..MaxLate, job : JobStatuses, gone : BOOLEAN]

(* A pass that handles nothing.                                             *)
AtRest(p) ==
    /\ p \in Passes
    /\ p.cur = {} /\ p.job = "none" /\ ~p.gone /\ p.pc # "enqueued"

(* A pass between two ticks.                                                *)
LEMMA RestingPass ==
    ASSUME NEW todo \in SUBSET Schedules
    PROVE  AtRest(NoPass) /\ AtRest(Remaining(todo))
           /\ AtRest([NoPass EXCEPT !.pc = "claiming", !.todo = todo])
  <1> DEFINE Claiming == [NoPass EXCEPT !.pc = "claiming", !.todo = todo]
  <1>1. 0 \in 0..MaxLate
    BY ConstantsType
  <1>2. AtRest(NoPass)
    BY <1>1 DEF AtRest, NoPass, Passes, JobStatuses
  <1>3. /\ Claiming.pc = "claiming" /\ Claiming.cur = {}
        /\ Claiming.job = "none" /\ Claiming.gone = FALSE /\ Claiming \in Passes
    BY <1>1 DEF NoPass, Passes, JobStatuses
  <1>4. AtRest(Claiming)
    <2> HIDE DEF Claiming
    <2> QED BY <1>3 DEF AtRest
  <1>5. Remaining(todo) = NoPass \/ Remaining(todo) = Claiming
    BY DEF Remaining
  <1> HIDE DEF Claiming
  <1>6. AtRest(Remaining(todo))
    BY <1>2, <1>4, <1>5
  <1> QED BY <1>2, <1>4, <1>6 DEF Claiming

(* Once the pass rests, its two invariants say nothing of it.               *)
LEMMA RestingPassHolds ==
    ASSUME AtRest(pass')
    PROVE  /\ PassHoldsOne'
           /\ \A s \in Schedules : ~(InHand(s)' /\ pass.gone')
  BY DEF AtRest, PassHoldsOne, InHand

(* What the invariant says of the types, in the shape the steps need.       *)
LEMMA TypeFacts ==
    ASSUME TablesTypeOK, NEW s \in Schedules
    PROVE  /\ sched[s] \in SchedRow
           /\ sched[s].wait \in Waits /\ sched[s].wait \in Int
           /\ sched[s].age \in 0..MaxAge /\ sched[s].failures \in 0..MaxRung
           /\ last[s] \in JobStatuses /\ stray[s] \in Nat
           /\ streak[s] \in 0..MaxRung /\ faults \in Nat
           /\ pass \in Passes
  BY ConstantsType DEF TablesTypeOK, SchedRow, Waits, Passes

(* The folded count is one the row can hold, and no less than the runs that *)
(* failed, unless the recorded run is still active.                         *)
LEMMA FoldedCounts ==
    ASSUME SchedulerInvariant, NEW s \in Schedules
    PROVE  /\ Folded(s) \in 0..MaxRung
           /\ last[s] # "active" => streak[s] <= Folded(s)
  <1>1. /\ streak[s] <= Counted(s)
        /\ last[s] \in JobStatuses /\ streak[s] \in 0..MaxRung
        /\ sched[s].failures \in 0..MaxRung /\ MaxRung \in Nat \ {0}
    BY TypeFacts, ConstantsType DEF SchedulerInvariant, FailuresCounted
  <1>2. CASE last[s] = "failed"
    BY <1>1, <1>2 DEF Counted, Folded, AtMost
  <1>3. CASE last[s] = "none"
    BY <1>1, <1>3 DEF Counted, Folded
  <1>4. CASE last[s] \in {"active", "succeeded"}
    BY <1>1, <1>4 DEF Counted, Folded
  <1> QED BY <1>1, <1>2, <1>3, <1>4 DEF JobStatuses

(* A branch that ends without a job keeps the invariant, if the row it      *)
(* writes has its type and still counts the failures.                       *)
LEMMA SettleKeeps ==
    ASSUME SchedulerInvariant, NEW s \in Schedules, NEW row \in SchedRow,
           SettleRow(s, row),
           \/ row.failures = sched[s].failures
           \/ last[s] # "active" /\ row.failures = Folded(s)
    PROVE  SchedulerInvariant'
  <1>1. AtRest(pass')
    BY RestingPass DEF SettleRow, SchedulerInvariant, TablesTypeOK
  <1>2. TablesTypeOK'
    BY <1>1 DEF SettleRow, SchedulerInvariant, TablesTypeOK, envVars, AtRest, Passes
  <1>3. PassHoldsOne'
    BY <1>1, RestingPassHolds
  <1>4. SlipsCounted'
    <2> SUFFICES ASSUME NEW t \in Schedules PROVE stray'[t] + 0 <= faults'
      BY <1>1, RestingPassHolds DEF SlipsCounted
    <2>1. stray'[t] = stray[t] /\ faults' = faults
      BY DEF SettleRow, envVars
    <2> QED BY <2>1, TypeFacts DEF SchedulerInvariant, SlipsCounted
  <1>5. FailuresCounted'
    <2> SUFFICES ASSUME NEW t \in Schedules PROVE streak'[t] <= Counted(t)'
      BY <1>1 DEF FailuresCounted, AtRest
    <2>1. streak'[t] = streak[t] /\ last'[t] = last[t]
      BY DEF SettleRow
    <2>2. CASE t # s
      <3>1. sched'[t] = sched[t]
        BY <2>2 DEF SettleRow, SchedulerInvariant, TablesTypeOK
      <3> QED BY <2>1, <3>1 DEF SchedulerInvariant, FailuresCounted, Counted
    <2>3. CASE t = s
      <3>1. sched'[s] = row
        BY DEF SettleRow, SchedulerInvariant, TablesTypeOK
      <3>2. CASE row.failures = sched[s].failures
        BY <2>1, <2>3, <3>1, <3>2 DEF SchedulerInvariant, FailuresCounted, Counted
      <3>3. CASE last[s] # "active" /\ row.failures = Folded(s)
        <4>1. streak[s] <= Folded(s) /\ Folded(s) \in 0..MaxRung
          BY <3>3, FoldedCounts
        <4>2. last[s] = "succeeded" => streak[s] <= 0
          BY DEF SchedulerInvariant, FailuresCounted, Counted
        <4>3. Folded(s) <= AtMost(Folded(s) + 1, MaxRung)
          BY <4>1, ConstantsType DEF AtMost
        <4>4. streak[s] \in Nat /\ MaxRung \in Nat
          BY TypeFacts, ConstantsType DEF SchedulerInvariant
        <4>5. streak[s] <= AtMost(Folded(s) + 1, MaxRung)
          BY <4>1, <4>3, <4>4 DEF AtMost
        <4> QED BY <2>1, <2>3, <3>1, <3>3, <4>1, <4>2, <4>5 DEF Counted
      <3> QED BY <3>2, <3>3
    <2> QED BY <2>2, <2>3
  <1> QED BY <1>2, <1>3, <1>4, <1>5 DEF SchedulerInvariant

-----------------------------------------------------------------------------
(* One lemma per action                                                     *)

(* At the first start the invariant holds.                                  *)
LEMMA InitHolds == Init => SchedulerInvariant
  <1> SUFFICES ASSUME Init PROVE SchedulerInvariant
    OBVIOUS
  <1>1. PICK slot \in Slots : sched = [s \in Schedules |-> NewSchedule(slot)]
    BY DEF Init
  <1>2. NewSchedule(slot) \in SchedRow /\ NewSchedule(slot).failures = 0
    BY WaitsHold, MaxAgeBounds, ConstantsType DEF NewSchedule, SchedRow
  <1>3. AtRest(pass)
    BY RestingPass DEF Init
  <1>4. TablesTypeOK
    <2>1. sched \in [Schedules -> SchedRow]
      BY <1>1, <1>2
    <2>2. last \in [Schedules -> JobStatuses]
      BY DEF Init, JobStatuses
    <2>3. stray \in [Schedules -> Nat] /\ streak \in [Schedules -> 0..MaxRung]
      BY ConstantsType DEF Init
    <2>4. faults \in 0..MaxFaults
      BY ConstantsType DEF Init
    <2>5. ticked \in BOOLEAN /\ asleep \in BOOLEAN
      BY DEF Init
    <2> QED BY <1>3, <2>1, <2>2, <2>3, <2>4, <2>5 DEF TablesTypeOK, AtRest, Passes
  <1>5. PassHoldsOne /\ SlipsCounted
    BY <1>3 DEF Init, AtRest, PassHoldsOne, SlipsCounted, InHand
  <1>6. FailuresCounted
    BY <1>1, <1>2, <1>3 DEF Init, FailuresCounted, Counted, AtRest
  <1> QED BY <1>4, <1>5, <1>6 DEF SchedulerInvariant

(* Steps that only move the pass, without a job in it.                      *)
LEMMA PassMovesKeeps ==
    ASSUME SchedulerInvariant, UNCHANGED <<sched, last, stray, streak, envVars>>,
           ticked' \in BOOLEAN, pass' \in Passes, pass'.pc # "enqueued",
           pass'.job = "none", ~pass'.gone, \A s, t \in pass'.cur : s = t,
           pass'.cur = {} \/ pass'.pc = "handling"
    PROVE  SchedulerInvariant'
  <1>1. TablesTypeOK'
    BY DEF SchedulerInvariant, TablesTypeOK, envVars, Passes
  <1>2. PassHoldsOne'
    BY DEF PassHoldsOne
  <1>3. SlipsCounted'
    <2> SUFFICES ASSUME NEW t \in Schedules PROVE stray'[t] + 0 <= faults'
      BY DEF SlipsCounted, InHand
    <2>1. stray'[t] = stray[t] /\ faults' = faults
      BY DEF envVars
    <2> QED BY <2>1, TypeFacts DEF SchedulerInvariant, SlipsCounted
  <1>4. FailuresCounted'
    BY DEF SchedulerInvariant, FailuresCounted, Counted
  <1> QED BY <1>1, <1>2, <1>3, <1>4 DEF SchedulerInvariant

(* A tick starts with the schedules it found.                               *)
LEMMA TickStartKeeps ==
    ASSUME SchedulerInvariant, TickStart
    PROVE  SchedulerInvariant'
  <1>1. AtRest(pass')
    BY RestingPass DEF TickStart
  <1>2. UNCHANGED <<sched, last, stray, streak, envVars>> /\ ticked' \in BOOLEAN
    BY DEF TickStart
  <1> QED BY <1>1, <1>2, PassMovesKeeps DEF AtRest

(* The claim of a schedule that is due, or was missed.                      *)
LEMMA ClaimKeeps ==
    ASSUME SchedulerInvariant, NEW s \in Schedules, ClaimDue(s) \/ ClaimMissed(s)
    PROVE  SchedulerInvariant'
  <1>1. UNCHANGED <<sched, last, stray, streak, envVars>> /\ ticked' \in BOOLEAN
    BY DEF ClaimDue, ClaimMissed, SchedulerInvariant, TablesTypeOK
  <1>2. CASE ClaimMissed(s)
    <2>1. pass.todo \ {s} \in SUBSET Schedules
      BY DEF SchedulerInvariant, TablesTypeOK
    <2>2. AtRest(pass')
      BY <1>2, <2>1, RestingPass DEF ClaimMissed
    <2> QED BY <1>1, <2>2, PassMovesKeeps DEF AtRest
  <1>3. CASE ClaimDue(s)
    <2>1. -sched[s].wait \in 0..MaxLate
      BY <1>3, TypeFacts, ConstantsType DEF ClaimDue, Due, SchedulerInvariant, Waits
    <2>2. pass.job = "none" /\ pass \in Passes
      BY <1>3, TypeFacts DEF ClaimDue, SchedulerInvariant, PassHoldsOne
    <2>3. /\ pass' \in Passes /\ pass'.pc = "handling" /\ pass'.cur = {s}
          /\ pass'.job = "none" /\ pass'.gone = pass.gone
      BY <1>3, <2>1, <2>2 DEF ClaimDue, Passes
    <2>4. ~pass.gone
      BY <1>3 DEF ClaimDue, SchedulerInvariant, PassHoldsOne
    <2> QED BY <1>1, <2>3, <2>4, PassMovesKeeps
  <1> QED BY <1>2, <1>3

(* The row a branch writes.                                                 *)
LEMMA RowsHold ==
    ASSUME TablesTypeOK, NEW s \in Schedules
    PROVE  /\ \A w \in Waits : [sched[s] EXCEPT !.wait = w] \in SchedRow
           /\ \A w \in Waits, f \in 0..MaxRung :
                [sched[s] EXCEPT !.failures = f, !.wait = w] \in SchedRow
  BY DEF TablesTypeOK, SchedRow

(* Misfire, BannerDue, Overlap and LockCollision write the next slot only.  *)
LEMMA WaitOnlyKeeps ==
    ASSUME SchedulerInvariant, NEW s \in Schedules,
           Misfire(s) \/ BannerDue(s) \/ Overlap(s) \/ LockCollision(s)
    PROVE  SchedulerInvariant'
  <1>1. PICK w \in Waits : SettleRow(s, [sched[s] EXCEPT !.wait = w])
    BY WaitsHold DEF Misfire, BannerDue, Overlap, LockCollision, Reslot
  <1>2. /\ [sched[s] EXCEPT !.wait = w] \in SchedRow
        /\ [sched[s] EXCEPT !.wait = w].failures = sched[s].failures
    BY <1>1, RowsHold, TypeFacts DEF SchedulerInvariant, SchedRow
  <1> QED BY <1>1, <1>2, SettleKeeps

(* BackOff and LockConflict write the folded failures too.                  *)
LEMMA FoldingKeeps ==
    ASSUME SchedulerInvariant, NEW s \in Schedules, BackOff(s) \/ LockConflict(s)
    PROVE  SchedulerInvariant'
  <1>1. Folded(s) \in 0..MaxRung
    BY FoldedCounts
  <1>2. last[s] # "active"
    BY DEF BackOff, LockConflict, Clear, Overlapping
  <1>3. \E w \in Waits :
            SettleRow(s, [sched[s] EXCEPT !.failures = Folded(s), !.wait = w])
    <2>1. CASE LockConflict(s)
      BY <2>1, WaitsHold DEF LockConflict
    <2>2. CASE BackOff(s)
      <3>1. sched[s].age \in 0..MaxAge /\ sched[s].age < Delay(Folded(s))
        BY <2>2, TypeFacts DEF BackOff, InBackoff, SchedulerInvariant
      <3>2. Delay(Folded(s)) \in 0..MaxAge /\ MaxAge \in Nat
        BY <1>1, MaxAgeBounds
      <3>3. Delay(Folded(s)) - sched[s].age \in 0..MaxAge
        BY <3>1, <3>2
      <3> QED BY <2>2, <3>3, WaitsHold DEF BackOff
    <2> QED BY <2>1, <2>2
  <1>4. PICK w \in Waits :
            SettleRow(s, [sched[s] EXCEPT !.failures = Folded(s), !.wait = w])
    BY <1>3
  <1>5. /\ [sched[s] EXCEPT !.failures = Folded(s), !.wait = w] \in SchedRow
        /\ [sched[s] EXCEPT !.failures = Folded(s), !.wait = w].failures = Folded(s)
    BY <1>1, RowsHold, TypeFacts DEF SchedulerInvariant, SchedRow
  <1> QED BY <1>2, <1>4, <1>5, SettleKeeps

(* The job of a due schedule is committed before the schedule names it.     *)
LEMMA EnqueueRunKeeps ==
    ASSUME SchedulerInvariant, NEW s \in Schedules, EnqueueRun(s)
    PROVE  SchedulerInvariant'
  <1>1. /\ Folded(s) \in 0..MaxRung /\ last[s] # "active"
        /\ streak[s] <= Folded(s)
    BY FoldedCounts DEF EnqueueRun, Clear, Overlapping
  <1>2. /\ pass.pc = "handling" /\ s \in pass.cur /\ ~pass.gone
        /\ pass \in Passes /\ pass.job = "none"
    BY TypeFacts DEF EnqueueRun, Clear, Handling, SchedulerInvariant, PassHoldsOne
  <1>3. /\ pass' \in Passes /\ pass'.pc = "enqueued" /\ pass'.job = "active"
        /\ pass'.cur = pass.cur /\ ~pass'.gone
    BY <1>2 DEF EnqueueRun, Passes, JobStatuses
  <1>4. /\ UNCHANGED <<last, stray, streak, ticked, asleep, faults>>
    BY DEF EnqueueRun, envVars
  <1>5. \A t \in pass.cur : t = s
    BY <1>2 DEF SchedulerInvariant, PassHoldsOne
  <1>6. /\ sched' \in [Schedules -> SchedRow]
        /\ sched'[s].failures = Folded(s)
        /\ \A t \in Schedules : t # s => sched'[t] = sched[t]
    BY <1>1 DEF EnqueueRun, SchedulerInvariant, TablesTypeOK, SchedRow
  <1>7. TablesTypeOK'
    BY <1>3, <1>4, <1>6 DEF SchedulerInvariant, TablesTypeOK, Passes
  <1>8. PassHoldsOne'
    BY <1>1, <1>3, <1>4, <1>5 DEF PassHoldsOne
  <1>9. SlipsCounted'
    <2> SUFFICES ASSUME NEW t \in Schedules PROVE stray'[t] + 0 <= faults'
      BY <1>3 DEF SlipsCounted
    <2>1. ~(InHand(t) /\ pass.gone)
      BY <1>2
    <2> QED BY <1>4, <2>1, TypeFacts DEF SchedulerInvariant, SlipsCounted
  <1>10. FailuresCounted'
    <2> SUFFICES ASSUME NEW t \in Schedules
                 PROVE  /\ streak'[t] <= Counted(t)'
                        /\ t \in pass'.cur => streak'[t] <= sched'[t].failures
      BY DEF FailuresCounted
    <2>1. CASE t = s
      <3>1. last[s] = "succeeded" => streak[s] <= 0
        BY DEF SchedulerInvariant, FailuresCounted, Counted
      <3>2. streak[s] \in 0..MaxRung /\ MaxRung \in Nat
        BY TypeFacts, ConstantsType DEF SchedulerInvariant
      <3>3. streak[s] <= AtMost(Folded(s) + 1, MaxRung)
        BY <1>1, <3>2 DEF AtMost
      <3> QED BY <1>1, <1>4, <1>6, <2>1, <3>1, <3>3 DEF Counted
    <2>2. CASE t # s
      BY <1>3, <1>4, <1>5, <1>6, <2>2
         DEF SchedulerInvariant, FailuresCounted, Counted
    <2> QED BY <2>1, <2>2
  <1> QED BY <1>7, <1>8, <1>9, <1>10 DEF SchedulerInvariant

(* The row of failures grows by one when a run that had not failed fails.   *)
LEMMA StreakCounted ==
    ASSUME SchedulerInvariant, NEW s \in Schedules,
           NEW status \in JobStatuses \ {"none"}, NEW f \in 0..MaxRung, streak[s] <= f
    PROVE  /\ StreakAfter(s, status) \in 0..MaxRung
           /\ status = "failed" => StreakAfter(s, status) <= AtMost(f + 1, MaxRung)
           /\ status = "succeeded" => StreakAfter(s, status) = 0
           /\ status = "active" => StreakAfter(s, status) <= f
  <1>1. streak[s] \in 0..MaxRung /\ MaxRung \in Nat
    BY TypeFacts, ConstantsType DEF SchedulerInvariant
  <1>2. CASE status = "failed"
    BY <1>1, <1>2 DEF StreakAfter, AtMost
  <1>3. CASE status = "succeeded"
    BY <1>1, <1>3 DEF StreakAfter
  <1>4. CASE status = "active"
    BY <1>1, <1>4 DEF StreakAfter
  <1> QED BY <1>2, <1>3, <1>4 DEF JobStatuses

(* The schedule names the job its pass has committed.                       *)
LEMMA RecordRunKeeps ==
    ASSUME SchedulerInvariant, NEW s \in Schedules, RecordRun(s)
    PROVE  SchedulerInvariant'
  <1>1. PICK slot \in Slots : sched' = [sched EXCEPT ![s].age = 0, ![s].wait = slot]
    BY DEF RecordRun
  <1>2. AtRest(pass')
    BY RestingPass DEF RecordRun, SchedulerInvariant, TablesTypeOK
  <1>3. /\ pass.pc = "enqueued" /\ s \in pass.cur /\ ~pass.gone
        /\ last' = [last EXCEPT ![s] = pass.job]
        /\ streak' = [streak EXCEPT ![s] = StreakAfter(s, pass.job)]
        /\ UNCHANGED <<stray, ticked, asleep, faults>>
    BY DEF RecordRun, envVars
  <1>4. pass.job \in JobStatuses /\ pass.job # "none"
    BY <1>3, TypeFacts DEF SchedulerInvariant, Passes, PassHoldsOne
  <1>5. streak[s] <= sched[s].failures /\ sched[s].failures \in 0..MaxRung
    BY <1>3, TypeFacts DEF SchedulerInvariant, FailuresCounted
  <1>6. /\ StreakAfter(s, pass.job) \in 0..MaxRung
        /\ pass.job = "failed"
              => StreakAfter(s, pass.job) <= AtMost(sched[s].failures + 1, MaxRung)
        /\ pass.job = "succeeded" => StreakAfter(s, pass.job) = 0
        /\ pass.job = "active" => StreakAfter(s, pass.job) <= sched[s].failures
    BY <1>4, <1>5, StreakCounted
  <1>7. /\ sched' \in [Schedules -> SchedRow]
        /\ \A t \in Schedules : sched'[t].failures = sched[t].failures
    <2>1. sched \in [Schedules -> SchedRow] /\ slot \in Waits /\ 0 \in 0..MaxAge
      BY WaitsHold, MaxAgeBounds DEF SchedulerInvariant, TablesTypeOK
    <2>2. sched' = [sched EXCEPT ![s] = [sched[s] EXCEPT !.age = 0, !.wait = slot]]
      BY <1>1, <2>1
    <2>3. /\ [sched[s] EXCEPT !.age = 0, !.wait = slot] \in SchedRow
          /\ [sched[s] EXCEPT !.age = 0, !.wait = slot].failures = sched[s].failures
      BY <2>1 DEF SchedRow
    <2> QED BY <2>1, <2>2, <2>3
  <1>8. TablesTypeOK'
    BY <1>2, <1>3, <1>4, <1>6, <1>7
       DEF SchedulerInvariant, TablesTypeOK, AtRest, Passes
  <1>9. PassHoldsOne' /\ SlipsCounted'
    <2> SUFFICES ASSUME NEW t \in Schedules PROVE stray'[t] + 0 <= faults'
      BY <1>2, RestingPassHolds DEF SlipsCounted
    <2> QED BY <1>3, TypeFacts DEF SchedulerInvariant, SlipsCounted
  <1>10. FailuresCounted'
    <2> SUFFICES ASSUME NEW t \in Schedules PROVE streak'[t] <= Counted(t)'
      BY <1>2 DEF FailuresCounted, AtRest
    <2>1. CASE t # s
      <3>1. streak'[t] = streak[t] /\ last'[t] = last[t]
        BY <1>3, <2>1 DEF SchedulerInvariant, TablesTypeOK
      <3> QED BY <1>7, <3>1 DEF SchedulerInvariant, FailuresCounted, Counted
    <2>2. CASE t = s
      <3>1. streak'[t] = StreakAfter(s, pass.job) /\ last'[t] = pass.job
        BY <1>3, <2>2 DEF SchedulerInvariant, TablesTypeOK
      <3> QED BY <1>4, <1>6, <1>7, <2>2, <3>1 DEF Counted, JobStatuses
    <2> QED BY <2>1, <2>2
  <1> QED BY <1>8, <1>9, <1>10 DEF SchedulerInvariant

(* A lost pass: the job in hand becomes one no row names.                   *)
LEMMA LosePassKeeps ==
    ASSUME SchedulerInvariant, LosePass,
           \/ faults' = faults + 1 /\ faults < MaxFaults
           \/ faults' = faults /\ (pass.gone \/ pass.job # "active")
    PROVE  SchedulerInvariant'
  <1>1. AtRest(pass')
    BY RestingPass DEF LosePass
  <1>2. /\ UNCHANGED <<sched, last, streak, ticked, asleep>>
        /\ \A s \in Schedules :
              stray'[s] = IF InHand(s) THEN stray[s] + 1 ELSE stray[s]
    BY DEF LosePass, InHand
  <1>3. stray' \in [Schedules -> Nat]
    BY DEF LosePass, SchedulerInvariant, TablesTypeOK
  <1>4. faults' \in 0..MaxFaults /\ faults \in Nat
    BY ConstantsType DEF SchedulerInvariant, TablesTypeOK
  <1>5. TablesTypeOK'
    BY <1>1, <1>2, <1>3, <1>4 DEF SchedulerInvariant, TablesTypeOK, AtRest, Passes
  <1>6. PassHoldsOne' /\ SlipsCounted'
    <2> SUFFICES ASSUME NEW t \in Schedules PROVE stray'[t] + 0 <= faults'
      BY <1>1, RestingPassHolds DEF SlipsCounted
    <2>1. stray[t] + (IF InHand(t) /\ pass.gone THEN 1 ELSE 0) <= faults
      BY DEF SchedulerInvariant, SlipsCounted
    <2>2. stray[t] \in Nat /\ stray'[t] = IF InHand(t) THEN stray[t] + 1 ELSE stray[t]
      BY <1>2, TypeFacts DEF SchedulerInvariant
    <2>3. CASE InHand(t)
      <3>1. pass.job = "active"
        BY <2>3 DEF InHand
      <3> QED BY <1>4, <2>1, <2>2, <2>3, <3>1
    <2>4. CASE ~InHand(t)
      BY <1>4, <2>1, <2>2, <2>4
    <2> QED BY <2>3, <2>4
  <1>7. FailuresCounted'
    BY <1>1, <1>2 DEF SchedulerInvariant, FailuresCounted, Counted, AtRest
  <1> QED BY <1>5, <1>6, <1>7 DEF SchedulerInvariant

(* A pass lost to an alert or a trigger holds no active job.                *)
LEMMA JamsKeeps ==
    ASSUME SchedulerInvariant, NEW s \in Schedules, Jams(s)
    PROVE  SchedulerInvariant'
  <1>1. LosePass /\ faults' = faults
    BY DEF Jams, AlertRefused, TriggerRaises
  <1>2. pass.job # "active"
    BY DEF Jams, AlertRefused, TriggerRaises, Clear, Handling, SchedulerInvariant, PassHoldsOne
  <1> QED BY <1>1, <1>2, LosePassKeeps

(* Steps that keep the pass, the last runs and every row's failures.        *)
LEMMA RowsOnlyKeeps ==
    ASSUME SchedulerInvariant, sched' \in [Schedules -> SchedRow],
           \A s \in Schedules : sched'[s].failures = sched[s].failures,
           UNCHANGED <<last, stray, streak, pass, faults>>,
           ticked' \in BOOLEAN, asleep' \in BOOLEAN
    PROVE  SchedulerInvariant'
  <1>1. TablesTypeOK'
    BY DEF SchedulerInvariant, TablesTypeOK
  <1>2. PassHoldsOne' /\ SlipsCounted'
    BY DEF SchedulerInvariant, PassHoldsOne, SlipsCounted, InHand
  <1>3. FailuresCounted'
    BY DEF SchedulerInvariant, FailuresCounted, Counted
  <1> QED BY <1>1, <1>2, <1>3 DEF SchedulerInvariant

(* An admin's run_now and set_enabled.                                      *)
LEMMA RequestKeeps ==
    ASSUME SchedulerInvariant, NEW s \in Schedules,
           run_now(s) \/ \E enabled \in BOOLEAN : set_enabled(s, enabled)
    PROVE  SchedulerInvariant'
  <1>1. 0 \in Waits
    BY WaitsHold, MaxAgeBounds
  <1>2. PICK row \in SchedRow :
            row.failures = sched[s].failures /\ sched' = [sched EXCEPT ![s] = row]
    <2>1. sched[s] \in SchedRow
      BY DEF SchedulerInvariant, TablesTypeOK
    <2>2. CASE run_now(s)
      <3> DEFINE row == [sched[s] EXCEPT !.wait = 0, !.enabled = TRUE]
      <3>1. row \in SchedRow /\ row.failures = sched[s].failures
        BY <1>1, <2>1 DEF SchedRow
      <3>2. sched' = [sched EXCEPT ![s] = row]
        BY <2>2 DEF run_now, SchedulerInvariant, TablesTypeOK
      <3> QED BY <3>1, <3>2
    <2>3. CASE \E enabled \in BOOLEAN : set_enabled(s, enabled)
      <3>1. PICK enabled \in BOOLEAN : set_enabled(s, enabled)
        BY <2>3
      <3> DEFINE row == [sched[s] EXCEPT !.enabled = enabled]
      <3>2. row \in SchedRow /\ row.failures = sched[s].failures
        BY <2>1 DEF SchedRow
      <3>3. sched' = [sched EXCEPT ![s] = row]
        BY <3>1 DEF set_enabled
      <3> QED BY <3>2, <3>3
    <2> QED BY <2>2, <2>3
  <1>3. /\ sched' \in [Schedules -> SchedRow]
        /\ \A t \in Schedules : sched'[t].failures = sched[t].failures
    BY <1>2 DEF SchedulerInvariant, TablesTypeOK
  <1>4. /\ UNCHANGED <<last, stray, streak, pass, faults>>
        /\ ticked' \in BOOLEAN /\ asleep' \in BOOLEAN
    BY DEF run_now, set_enabled, envVars, SchedulerInvariant, TablesTypeOK
  <1> QED BY <1>3, <1>4, RowsOnlyKeeps

(* Time passes, awake or asleep.                                            *)
LEMMA ClockKeeps ==
    ASSUME SchedulerInvariant, Advance \/ Sleep \/ Wake
    PROVE  SchedulerInvariant'
  <1>1. /\ UNCHANGED <<last, stray, streak, pass, faults>>
        /\ ticked' \in BOOLEAN /\ asleep' \in BOOLEAN
    BY DEF Advance, Sleep, Wake, envVars, SchedulerInvariant, TablesTypeOK
  <1>2. CASE Sleep \/ Wake
    <2>1. sched' = sched
      BY <1>2 DEF Sleep, Wake
    <2> QED BY <1>1, <2>1, RowsOnlyKeeps DEF SchedulerInvariant, TablesTypeOK
  <1>3. CASE Advance
    <2> DEFINE NextWait(s) ==
                  IF sched[s].wait = -MaxLate THEN sched[s].wait ELSE sched[s].wait - 1
               NextAge(s) == AtMost(sched[s].age + 1, MaxAge)
    <2>1. ASSUME NEW s \in Schedules PROVE NextWait(s) \in Waits /\ NextAge(s) \in 0..MaxAge
      <3>1. sched[s].wait \in Waits /\ sched[s].age \in 0..MaxAge
        BY TypeFacts DEF SchedulerInvariant
      <3>2. NextWait(s) \in Waits
        BY <3>1, ConstantsType, MaxAgeBounds DEF Waits
      <3>3. NextAge(s) \in 0..MaxAge
        BY <3>1, MaxAgeBounds DEF AtMost
      <3> QED BY <3>2, <3>3
    <2>2. sched' = [s \in Schedules |->
                      [sched[s] EXCEPT !.wait = NextWait(s), !.age = NextAge(s)]]
      BY <1>3 DEF Advance
    <2> HIDE DEF NextWait, NextAge
    <2>3. /\ sched' \in [Schedules -> SchedRow]
          /\ \A s \in Schedules : sched'[s].failures = sched[s].failures
      BY <2>1, <2>2 DEF SchedulerInvariant, TablesTypeOK, SchedRow
    <2> QED BY <1>1, <2>3, RowsOnlyKeeps
  <1> QED BY <1>2, <1>3

(* A detached or replaced row costs a fault: its active run goes astray, or *)
(* the job in hand will.                                                    *)
LEMMA ForgetKeeps ==
    ASSUME SchedulerInvariant, NEW s \in Schedules, Detach(s) \/ Attach(s)
    PROVE  SchedulerInvariant'
  <1>1. /\ UNCHANGED <<ticked, asleep>> /\ Forget(s)
        /\ faults < MaxFaults /\ faults' = faults + 1
    BY DEF Detach, Attach
  <1>2. sched' \in [Schedules -> SchedRow]
        /\ \A t \in Schedules : t # s => sched'[t] = sched[t]
    <2>1. \A slot \in Slots : NewSchedule(slot) \in SchedRow
      BY WaitsHold, MaxAgeBounds, ConstantsType DEF NewSchedule, SchedRow
    <2>2. sched \in [Schedules -> SchedRow]
      BY DEF SchedulerInvariant, TablesTypeOK
    <2>3. \E row \in SchedRow : sched' = [sched EXCEPT ![s] = row]
      <3>1. CASE Attach(s)
        BY <2>1, <3>1 DEF Attach
      <3>2. CASE Detach(s)
        <4>1. [sched[s] EXCEPT !.exists = FALSE] \in SchedRow
          BY <2>2 DEF SchedRow
        <4> QED BY <2>2, <3>2, <4>1 DEF Detach
      <3> QED BY <3>1, <3>2
    <2> QED BY <2>2, <2>3
  <1>3. faults \in Nat /\ faults' \in 0..MaxFaults
    BY <1>1, ConstantsType DEF SchedulerInvariant, TablesTypeOK
  <1>4. /\ pass' \in Passes /\ pass'.cur = pass.cur /\ pass'.pc = pass.pc
        /\ pass'.job = pass.job
        /\ s \in pass.cur => pass'.gone
        /\ s \notin pass.cur => pass'.gone = pass.gone
        /\ pass.gone => pass'.gone
    BY <1>1, TypeFacts DEF Forget, SchedulerInvariant, Passes
  <1>5. /\ last' = [last EXCEPT ![s] = "none"]
        /\ streak' = [streak EXCEPT ![s] = 0]
        /\ stray' = [stray EXCEPT ![s] = IF last[s] = "active" THEN @ + 1 ELSE @]
    BY <1>1 DEF Forget
  <1>6. /\ last' \in [Schedules -> JobStatuses] /\ stray' \in [Schedules -> Nat]
        /\ streak' \in [Schedules -> 0..MaxRung]
    BY <1>5, ConstantsType DEF SchedulerInvariant, TablesTypeOK, JobStatuses
  <1>7. TablesTypeOK'
    BY <1>1, <1>2, <1>3, <1>4, <1>6 DEF SchedulerInvariant, TablesTypeOK, Passes
  <1>8. PassHoldsOne'
    BY <1>4, <1>5 DEF SchedulerInvariant, TablesTypeOK, PassHoldsOne
  <1>9. SlipsCounted'
    <2> SUFFICES ASSUME NEW t \in Schedules
                 PROVE  stray'[t] + (IF InHand(t)' /\ pass'.gone THEN 1 ELSE 0) <= faults'
      BY DEF SlipsCounted
    <2>1. /\ stray[t] + (IF InHand(t) /\ pass.gone THEN 1 ELSE 0) <= faults
          /\ stray[t] \in Nat /\ stray'[t] \in Nat
      BY <1>6, TypeFacts DEF SchedulerInvariant, SlipsCounted
    <2>2. CASE t # s
      <3>1. stray'[t] = stray[t]
        BY <1>5, <2>2 DEF SchedulerInvariant, TablesTypeOK
      <3> QED BY <1>1, <1>3, <2>1, <3>1
    <2>3. CASE t = s /\ last[s] = "active"
      <3>1. ~InHand(t)'
        BY <1>4, <2>3 DEF InHand, SchedulerInvariant, PassHoldsOne
      <3>2. stray'[t] = stray[t] + 1
        BY <1>5, <2>3 DEF SchedulerInvariant, TablesTypeOK
      <3> QED BY <1>1, <1>3, <2>1, <3>1, <3>2
    <2>4. CASE t = s /\ last[s] # "active"
      <3>1. stray'[t] = stray[t]
        BY <1>5, <2>4 DEF SchedulerInvariant, TablesTypeOK
      <3> QED BY <1>1, <1>3, <2>1, <3>1
    <2> QED BY <2>2, <2>3, <2>4
  <1>10. FailuresCounted'
    <2> SUFFICES ASSUME NEW t \in Schedules
                 PROVE  /\ streak'[t] <= Counted(t)'
                        /\ pass'.pc = "enqueued" /\ t \in pass'.cur /\ ~pass'.gone
                              => streak'[t] <= sched'[t].failures
      BY DEF FailuresCounted
    <2>1. CASE t # s
      <3>1. streak'[t] = streak[t] /\ last'[t] = last[t] /\ sched'[t] = sched[t]
        BY <1>2, <1>5, <2>1 DEF SchedulerInvariant, TablesTypeOK
      <3> QED BY <1>4, <3>1 DEF SchedulerInvariant, FailuresCounted, Counted
    <2>2. CASE t = s
      <3>1. streak'[t] = 0 /\ last'[t] = "none"
        BY <1>5, <2>2 DEF SchedulerInvariant, TablesTypeOK
      <3>2. sched'[t].failures \in 0..MaxRung
        BY <1>2 DEF SchedRow
      <3> QED BY <3>1, <3>2, ConstantsType DEF Counted
    <2> QED BY <2>1, <2>2
  <1> QED BY <1>7, <1>8, <1>9, <1>10 DEF SchedulerInvariant

(* The job a schedule names settles.                                        *)
LEMMA JobEndsKeeps ==
    ASSUME SchedulerInvariant, NEW s \in Schedules,
           NEW status \in {"succeeded", "failed"}, JobEnds(s, status)
    PROVE  SchedulerInvariant'
  <1>1. /\ last[s] = "active" /\ last' = [last EXCEPT ![s] = status]
        /\ streak' = [streak EXCEPT ![s] = StreakAfter(s, status)]
        /\ UNCHANGED <<sched, stray, pass, ticked, asleep, faults>>
    BY DEF JobEnds, envVars
  <1>2. streak[s] <= sched[s].failures /\ sched[s].failures \in 0..MaxRung
    BY <1>1, TypeFacts DEF SchedulerInvariant, FailuresCounted, Counted
  <1>3. /\ StreakAfter(s, status) \in 0..MaxRung
        /\ status = "failed"
              => StreakAfter(s, status) <= AtMost(sched[s].failures + 1, MaxRung)
        /\ status = "succeeded" => StreakAfter(s, status) = 0
    BY <1>2, StreakCounted DEF JobStatuses
  <1>4. TablesTypeOK'
    BY <1>1, <1>3 DEF SchedulerInvariant, TablesTypeOK, JobStatuses
  <1>5. PassHoldsOne' /\ SlipsCounted'
    BY <1>1 DEF SchedulerInvariant, TablesTypeOK, PassHoldsOne, SlipsCounted, InHand
  <1>6. FailuresCounted'
    <2> SUFFICES ASSUME NEW t \in Schedules
                 PROVE  /\ streak'[t] <= Counted(t)'
                        /\ pass'.pc = "enqueued" /\ t \in pass'.cur /\ ~pass'.gone
                              => streak'[t] <= sched'[t].failures
      BY DEF FailuresCounted
    <2>1. CASE t # s
      <3>1. streak'[t] = streak[t] /\ last'[t] = last[t]
        BY <1>1, <2>1 DEF SchedulerInvariant, TablesTypeOK
      <3> QED BY <1>1, <3>1 DEF SchedulerInvariant, FailuresCounted, Counted
    <2>2. CASE t = s
      <3>1. streak'[t] = StreakAfter(s, status) /\ last'[t] = status
        BY <1>1, <2>2 DEF SchedulerInvariant, TablesTypeOK
      <3>2. ~(pass'.pc = "enqueued" /\ t \in pass'.cur)
        BY <1>1, <2>2 DEF SchedulerInvariant, PassHoldsOne
      <3> QED BY <1>1, <1>3, <2>2, <3>1, <3>2 DEF Counted
    <2> QED BY <2>1, <2>2
  <1> QED BY <1>4, <1>5, <1>6 DEF SchedulerInvariant

(* A job that no schedule names settles.                                    *)
LEMMA OtherEndsKeeps ==
    ASSUME SchedulerInvariant,
           \/ \E status \in {"succeeded", "failed"} : NewJobEnds(status)
           \/ \E s \in Schedules : StrayEnds(s)
    PROVE  SchedulerInvariant'
  <1>1. UNCHANGED <<sched, last, streak, ticked, asleep, faults>>
    BY DEF NewJobEnds, StrayEnds, envVars
  <1>2. /\ pass' \in Passes /\ pass'.pc = pass.pc /\ pass'.cur = pass.cur
        /\ pass'.gone = pass.gone /\ (pass'.job = "none" <=> pass.job = "none")
        /\ pass'.job = "active" => pass.job = "active"
    BY TypeFacts DEF NewJobEnds, StrayEnds, SchedulerInvariant, TablesTypeOK,
                     Passes, JobStatuses
  <1>3. /\ stray' \in [Schedules -> Nat]
        /\ \A t \in Schedules : stray'[t] <= stray[t]
    BY DEF NewJobEnds, StrayEnds, SchedulerInvariant, TablesTypeOK
  <1>4. TablesTypeOK'
    BY <1>1, <1>2, <1>3 DEF SchedulerInvariant, TablesTypeOK, Passes
  <1>5. PassHoldsOne'
    BY <1>1, <1>2 DEF SchedulerInvariant, PassHoldsOne
  <1>6. SlipsCounted'
    <2> SUFFICES ASSUME NEW t \in Schedules
                 PROVE  stray'[t] + (IF InHand(t)' /\ pass'.gone THEN 1 ELSE 0) <= faults'
      BY DEF SlipsCounted
    <2>1. /\ stray[t] + (IF InHand(t) /\ pass.gone THEN 1 ELSE 0) <= faults
          /\ stray[t] \in Nat /\ stray'[t] \in Nat /\ stray'[t] <= stray[t]
          /\ faults \in Nat
      BY <1>3, TypeFacts DEF SchedulerInvariant, SlipsCounted
    <2>2. InHand(t)' /\ pass'.gone => InHand(t) /\ pass.gone
      BY <1>2 DEF InHand
    <2> QED BY <1>1, <2>1, <2>2
  <1>7. FailuresCounted'
    BY <1>1, <1>2 DEF SchedulerInvariant, FailuresCounted, Counted
  <1> QED BY <1>4, <1>5, <1>6, <1>7 DEF SchedulerInvariant

(* Every step of the scheduler preserves the invariant.                     *)
LEMMA StepHolds == SchedulerInvariant /\ [Next]_vars => SchedulerInvariant'
  <1> SUFFICES ASSUME SchedulerInvariant, [Next]_vars PROVE SchedulerInvariant'
    OBVIOUS
  <1>1. CASE PassStep
    <2>1. CASE TickStart
      BY <2>1, TickStartKeeps
    <2>2. CASE RowVanished
      BY <2>2, LosePassKeeps DEF RowVanished
    <2>3. ASSUME NEW s \in Schedules,
                 ClaimDue(s) \/ ClaimMissed(s) \/ Handle(s) \/ Jams(s)
          PROVE  SchedulerInvariant'
      <3>1. CASE ClaimDue(s) \/ ClaimMissed(s)
        BY <3>1, ClaimKeeps
      <3>2. CASE Misfire(s) \/ BannerDue(s) \/ Overlap(s) \/ LockCollision(s)
        BY <3>2, WaitOnlyKeeps
      <3>3. CASE BackOff(s) \/ LockConflict(s)
        BY <3>3, FoldingKeeps
      <3>4. CASE EnqueueRun(s)
        BY <3>4, EnqueueRunKeeps
      <3>5. CASE RecordRun(s)
        BY <3>5, RecordRunKeeps
      <3>6. CASE Jams(s)
        BY <3>6, JamsKeeps
      <3> QED BY <2>3, <3>1, <3>2, <3>3, <3>4, <3>5, <3>6 DEF Handle
    <2> QED BY <1>1, <2>1, <2>2, <2>3 DEF PassStep
  <1>2. CASE PassFails
    BY <1>2, LosePassKeeps DEF PassFails
  <1>3. CASE RequestStep
    BY <1>3, RequestKeeps, ForgetKeeps DEF RequestStep
  <1>4. CASE JobStep
    BY <1>4, JobEndsKeeps, OtherEndsKeeps DEF JobStep, LastJobEnds
  <1>5. CASE Advance \/ Sleep \/ Wake
    BY <1>5, ClockKeeps
  <1>6. CASE UNCHANGED vars
    BY <1>6 DEF vars, SchedulerInvariant, TablesTypeOK, PassHoldsOne, SlipsCounted,
                InHand, FailuresCounted, Counted
  <1> QED BY <1>1, <1>2, <1>3, <1>4, <1>5, <1>6 DEF Next

(* The inductive invariant holds in every reachable state.                  *)
LEMMA InvariantHolds == Spec => []SchedulerInvariant
  BY InitHolds, StepHolds, PTL DEF Spec

(* The keys of the alerts: an alert takes a free one, windows end, and a    *)
(* new row starts without.                                                  *)
AlertsTypeOK == alerts \in [Schedules -> Keys]

LEMMA AlertsKeep ==
    ASSUME AlertsTypeOK, [Next]_vars
    PROVE  AlertsTypeOK'
  <1>1. CASE alerts' = alerts
    BY <1>1 DEF AlertsTypeOK
  <1>2. ASSUME NEW s \in Schedules, AlertFailure(s)
        PROVE  AlertsTypeOK'
    BY <1>2 DEF AlertFailure, AlertsTypeOK, Keys
  <1>3. ASSUME NEW s \in Schedules, Forget(s)
        PROVE  AlertsTypeOK'
    BY <1>3 DEF Forget, AlertsTypeOK, Keys, NoAlerts
  <1>4. CASE WindowsEnd
    BY <1>4 DEF WindowsEnd, AlertsTypeOK, Keys
  <1>5. CASE PassStep \/ PassFails
    <2>1. ASSUME NEW s \in Schedules, ClaimDue(s) \/ ClaimMissed(s) \/ Handle(s) \/ Jams(s)
          PROVE  AlertsTypeOK'
      BY <1>1, <1>2, <2>1
         DEF ClaimDue, ClaimMissed, Handle, Misfire, BannerDue, Overlap, LockCollision, Reslot,
             BackOff, LockConflict, EnqueueRun, RecordRun, Jams, AlertRefused, TriggerRaises,
             LosePass
    <2> QED BY <1>1, <1>5, <2>1 DEF PassStep, PassFails, TickStart, RowVanished, LosePass
  <1>6. CASE RequestStep
    BY <1>1, <1>3, <1>6 DEF RequestStep, run_now, set_enabled, Detach, Attach
  <1>7. CASE JobStep
    BY <1>1, <1>7 DEF JobStep, LastJobEnds, JobEnds, NewJobEnds, StrayEnds
  <1>8. CASE Advance \/ Sleep \/ Wake \/ UNCHANGED vars
    BY <1>1, <1>4, <1>8 DEF Advance, Sleep, Wake, vars
  <1> QED BY <1>5, <1>6, <1>7, <1>8 DEF Next

-----------------------------------------------------------------------------
(* Theorems                                                                 *)

(* The table, the pass and the clocks keep their types: no branch of a pass *)
(* leaves a next_run_at beyond the longest delay, retry or slot.            *)
THEOREM SchedTypes == Spec => []SchedTypeOK
  <1>1. Init => AlertsTypeOK
    BY DEF Init, AlertsTypeOK, NoAlerts, Keys
  <1>2. AlertsTypeOK /\ [Next]_vars => AlertsTypeOK'
    BY AlertsKeep
  <1>3. SchedulerInvariant /\ AlertsTypeOK => SchedTypeOK
    BY DEF SchedulerInvariant, TablesTypeOK, AlertsTypeOK, SchedTypeOK
  <1> QED BY <1>1, <1>2, <1>3, InvariantHolds, PTL DEF Spec

(* A schedule has one job at a time, and one more at most for each pass     *)
(* lost between its two commits or row replaced under its run.              *)
THEOREM OneJobPerScheduleHolds == Spec => []OneJobPerSchedule
  <1>1. ASSUME SchedulerInvariant PROVE OneJobPerSchedule
    <2> SUFFICES ASSUME NEW s \in Schedules PROVE ActiveJobs(s) <= 1 + faults
      BY DEF OneJobPerSchedule
    <2>1. /\ stray[s] + (IF InHand(s) /\ pass.gone THEN 1 ELSE 0) <= faults
          /\ stray[s] \in Nat /\ faults \in Nat
      BY <1>1, TypeFacts DEF SchedulerInvariant, SlipsCounted
    <2>2. ~(last[s] = "active" /\ InHand(s))
      BY <1>1 DEF SchedulerInvariant, PassHoldsOne, InHand
    <2>3. ActiveJobs(s) = stray[s] + (IF last[s] = "active" THEN 1 ELSE 0)
                                   + (IF InHand(s) THEN 1 ELSE 0)
      BY DEF ActiveJobs, InHand
    <2>4. stray[s] <= faults
      BY <2>1
    <2> QED BY <2>1, <2>2, <2>3, <2>4
  <1> QED BY <1>1, InvariantHolds, PTL

(* A schedule whose last runs failed is not run again before the delay for  *)
(* that many failures has passed since the last of them.                    *)
THEOREM BackoffRespectedHolds == Spec => BackoffRespected
  <1>1. ASSUME SchedulerInvariant, NEW s \in Schedules, EnqueueRun(s), streak[s] > 0
        PROVE  sched[s].age >= Delay(streak[s])
    <2>1. last[s] # "active" /\ ~InBackoff(s)
      BY <1>1 DEF EnqueueRun, Clear, Overlapping
    <2>2. streak[s] <= Folded(s) /\ Folded(s) \in 0..MaxRung
      BY <1>1, <2>1, FoldedCounts
    <2>3. streak[s] \in 0..MaxRung /\ sched[s].age \in 0..MaxAge
      BY <1>1, TypeFacts DEF SchedulerInvariant
    <2>4. /\ Delay(streak[s]) <= Delay(Folded(s))
          /\ Delay(streak[s]) \in Nat /\ Delay(Folded(s)) \in Nat
      BY <2>2, <2>3, DelayGrows
    <2>5. Folded(s) > 0
      BY <1>1, <2>2, <2>3, ConstantsType
    <2>6. ~(sched[s].age < Delay(Folded(s)))
      BY <2>1, <2>5 DEF InBackoff
    <2>7. sched[s].age \in Nat
      BY <2>3, MaxAgeBounds
    <2> QED BY <2>4, <2>6, <2>7
  <1> DEFINE Respected ==
                \A s \in Schedules :
                    (EnqueueRun(s) /\ streak[s] > 0) => sched[s].age >= Delay(streak[s])
  <1>2. SchedulerInvariant /\ [Next]_vars => [Respected]_vars
    BY <1>1
  <1> QED BY <1>2, InvariantHolds, PTL DEF Spec, BackoffRespected
=============================================================================
