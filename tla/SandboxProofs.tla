---------------------------- MODULE SandboxProofs ----------------------------
(* The safety of the fetch sandboxes, for every number of syncs, every cap  *)
(* and every tolerance of protocol violations.                              *)
EXTENDS Sandbox, FiniteSetTheorems, TLAPS

Resting == {"idle", "done"}

Running == Calling \cup {"exit"}

(* What run has raised as a death, the session has recorded, and the row    *)
(* was open until _close_run_row took it over; a child belongs to a fetch.  *)
SessionRecorded(s) ==
    /\ s.child = "running" => s.main \notin Resting
    /\ s.main \in Starting \cup Running => ~s.disposed
    /\ s.main \in Starting => s.row = "none"
    /\ s.main \in Running \cup {"ending"} => s.row = "running"
    /\ s.main = "ending" /\ s.raised \in Deaths => s.death # "none" /\ ~s.disposed
    /\ s.main \in Resting \cup {"terminating"} /\ s.raised \in Deaths
            => s.row # "completed"

ActiveFetches == {f \in Fetches : Active(f)}

(* The inductive invariant.                                                 *)
SandboxInvariant ==
    /\ SandboxTypeOK
    /\ live = Cardinality(ActiveFetches)
    /\ live <= max_concurrent
    /\ \A f \in Fetches : SessionRecorded(run[f])

-----------------------------------------------------------------------------
(* What one session becomes.                                                *)

(* A fetch that has not run is a session.                                   *)
LEMMA NoSessionFacts == NoSession \in Session
<1>1. 0 \in 0..MAX_PROTOCOL_VIOLATIONS
    BY SandboxAssumption
<1>2. QED
    BY <1>1 DEF NoSession, Session

(* A killed child is the only difference _kill makes.                       *)
LEMMA KilledFacts ==
    ASSUME NEW s \in Session
    PROVE  /\ Killed(s) \in Session
           /\ Killed(s).child # "running"
           /\ Killed(s) = [s EXCEPT !.child = Killed(s).child]
BY DEF Killed, Session

(* _mark_eof touches the reader, the death and the future only, and never   *)
(* takes a recorded death back.                                             *)
LEMMA MarkedEofFacts ==
    ASSUME NEW s \in Session
    PROVE  /\ MarkedEof(s) \in Session
           /\ MarkedEof(s).main = s.main
           /\ MarkedEof(s).child = s.child
           /\ MarkedEof(s).disposed = s.disposed
           /\ MarkedEof(s).raised = s.raised
           /\ MarkedEof(s).row = s.row
           /\ s.death # "none" => MarkedEof(s).death = s.death
<1> DEFINE crash == ~s.identity_error /\ s.death = "none" /\ ~s.disposed
           cause == s.identity_error \/ crash \/ s.death # "none"
           d == IF crash THEN "crashed" ELSE s.death
           u == IF s.future = "waiting" /\ cause THEN "failed" ELSE s.future
           n == [s EXCEPT !.reader = "ended", !.death = d, !.future = u]
<1>1. d \in Deaths \cup {"none"} /\ (s.death # "none" => d = s.death)
  <2>1. s.death \in Deaths \cup {"none"} /\ "crashed" \in Deaths
    BY DEF Session, Deaths
  <2>2. QED
    BY <2>1
<1>2. u \in {"none", "waiting", "answered", "refused", "failed"}
    BY DEF Session
<1>3. MarkedEof(s) = n
    BY DEF MarkedEof
<1> HIDE DEF d, u
<1>4. n \in Session
    BY <1>1, <1>2 DEF Session
<1>5. /\ n.main = s.main /\ n.child = s.child /\ n.disposed = s.disposed
      /\ n.raised = s.raised /\ n.row = s.row /\ n.death = d
    BY DEF Session
<1> HIDE DEF n
<1>6. QED
    BY <1>1, <1>3, <1>4, <1>5

-----------------------------------------------------------------------------
(* Steps of one session that neither start nor give back a sandbox.         *)

(* They keep the invariant if the new session is in order and the fetch is  *)
(* under way after the step just when it was before.                        *)
LEMMA StepsInv ==
    ASSUME SandboxInvariant, NEW f \in Fetches, NEW s \in Session, Steps(f, s),
           SessionRecorded(s), s.main \in Resting <=> run[f].main \in Resting
    PROVE  SandboxInvariant'
<1>1. /\ run' = [run EXCEPT ![f] = s] /\ run \in [Fetches -> Session]
      /\ live' = live /\ strays' = strays
    BY DEF Steps, Becomes, SandboxInvariant, SandboxTypeOK
<1>2. SandboxTypeOK'
    BY <1>1 DEF SandboxInvariant, SandboxTypeOK
<1>3. ActiveFetches' = ActiveFetches
    BY <1>1 DEF ActiveFetches, Active, AtRest, Resting
<1>4. \A g \in Fetches : SessionRecorded(run'[g])
  <2>1. \A g \in Fetches : run'[g] = IF g = f THEN s ELSE run[g]
    BY <1>1
  <2>2. QED
    BY <2>1 DEF SandboxInvariant
<1>5. (\A g \in Fetches : SessionRecorded(run[g]))'
    BY <1>4 DEF SessionRecorded
<1>6. QED
    BY <1>1, <1>2, <1>3, <1>5 DEF SandboxInvariant

(* A fetch over the cap, the steps of a start and an exiting child.         *)
LEMMA OutsideInv ==
    ASSUME SandboxInvariant, NEW f \in Fetches,
           RunFetchBusy(f) \/ Spawned(f) \/ Started(f) \/ ChildExits(f)
    PROVE  SandboxInvariant'
<1> DEFINE s == run[f]
<1>1. s \in Session /\ SessionRecorded(s)
    BY DEF SandboxInvariant, SandboxTypeOK
<1>2. CASE RunFetchBusy(f)
  <2> DEFINE n == [NoSession EXCEPT !.main = "done", !.raised = "busy"]
  <2>1. n \in Session /\ SessionRecorded(n)
    BY NoSessionFacts
       DEF NoSession, Session, SessionRecorded, Resting, Starting, Running, Calling, Deaths,
           Outcomes
  <2>2. n.main \in Resting <=> s.main \in Resting
    BY <1>2 DEF RunFetchBusy, AtRest, Resting, NoSession
  <2>3. Steps(f, n)
    BY <1>2 DEF RunFetchBusy
  <2> HIDE DEF n
  <2>4. QED
    BY <2>1, <2>2, <2>3, StepsInv
<1>3. CASE Spawned(f)
  <2> DEFINE n == [s EXCEPT !.main = "starting", !.child = "running"]
  <2>1. n \in Session /\ n.main = "starting" /\ n.disposed = s.disposed /\ n.row = s.row
    BY <1>1 DEF Session, Starting
  <2>2. s.main = "spawning" /\ Steps(f, n)
    BY <1>3 DEF Spawned
  <2> HIDE DEF n
  <2>3. SessionRecorded(n) /\ (n.main \in Resting <=> s.main \in Resting)
    BY <1>1, <2>1, <2>2 DEF SessionRecorded, Resting, Starting, Running, Calling
  <2>4. QED
    BY <2>1, <2>2, <2>3, StepsInv
<1>4. CASE Started(f)
  <2> DEFINE n == [s EXCEPT !.main = "hello", !.reader = "reading",
                            !.future = "waiting", !.row = "running"]
  <2>1. /\ n \in Session /\ n.main = "hello" /\ n.disposed = s.disposed
        /\ n.row = "running"
    BY <1>1 DEF Session, Calling, Outcomes
  <2>2. s.main = "starting" /\ Steps(f, n)
    BY <1>4 DEF Started
  <2> HIDE DEF n
  <2>3. SessionRecorded(n) /\ (n.main \in Resting <=> s.main \in Resting)
    BY <1>1, <2>1, <2>2 DEF SessionRecorded, Resting, Starting, Running, Calling
  <2>4. QED
    BY <2>1, <2>2, <2>3, StepsInv
<1>5. CASE ChildExits(f)
  <2> DEFINE n == [s EXCEPT !.child = "exited"]
  <2>1. n \in Session /\ SessionRecorded(n)
    BY <1>1 DEF Session, SessionRecorded
  <2>2. n.main = s.main /\ Steps(f, n)
    BY <1>1, <1>5 DEF ChildExits, Session
  <2> HIDE DEF n
  <2>3. QED
    BY <2>1, <2>2, StepsInv
<1>6. QED
    BY <1>2, <1>3, <1>4, <1>5

(* The reader task: it records deaths and kills, and never moves main.      *)
LEMMA ReaderInv ==
    ASSUME SandboxInvariant, NEW f \in Fetches, ReaderStep(f)
    PROVE  SandboxInvariant'
<1> DEFINE s == run[f]
<1>1. s \in Session /\ SessionRecorded(s)
    BY DEF SandboxInvariant, SandboxTypeOK
<1> DEFINE Follows(n) ==
        /\ n \in Session
        /\ n.main = s.main /\ n.disposed = s.disposed
        /\ n.raised = s.raised /\ n.row = s.row
        /\ n.child \in {s.child, "killed"}
        /\ s.death # "none" => n.death # "none"
<1>2. \E n : Follows(n) /\ Steps(f, n)
  <2>1. ASSUME NEW answer \in {"answered", "refused"}, ReadAnswer(f, answer)
        PROVE  \E n : Follows(n) /\ Steps(f, n)
    <3>1. Follows([s EXCEPT !.future = answer])
      BY <1>1 DEF Session
    <3>2. QED
      BY <2>1, <3>1 DEF ReadAnswer
  <2>2. CASE ReadViolation(f)
    <3> DEFINE k == IF s.violations < MAX_PROTOCOL_VIOLATIONS THEN s.violations + 1
                    ELSE s.violations
               c == [s EXCEPT !.violations = k, !.death = "protocol-violation"]
               d == [s EXCEPT !.violations = k]
    <3>1. k \in 0..MAX_PROTOCOL_VIOLATIONS
      BY <1>1, SandboxAssumption DEF Session
    <3>2. Follows(d)
      BY <1>1, <3>1 DEF Session
    <3>3. c \in Session /\ Follows(c)
      BY <1>1, <3>1 DEF Session, Deaths
    <3>4. Follows(Killed(c))
      <4> HIDE DEF c
      <4>1. QED
        BY <3>3 DEF Killed, Session
    <3>5. Steps(f, IF k = MAX_PROTOCOL_VIOLATIONS THEN Killed(c) ELSE d)
      BY <2>2 DEF ReadViolation
    <3> HIDE DEF k, c, d, Follows
    <3>6. QED
      BY <3>2, <3>4, <3>5
  <2>3. CASE ReadVersion(f)
    <3> DEFINE c == [s EXCEPT !.identity_error = TRUE]
    <3>1. c \in Session /\ Follows(c)
      BY <1>1 DEF Session
    <3>2. Killed(c) \in Session /\ Follows(Killed(c))
      <4> HIDE DEF c
      <4>1. QED
        BY <3>1 DEF Killed, Session
    <3>3. Follows(MarkedEof(Killed(c)))
      <4> HIDE DEF c
      <4>1. QED
        BY <3>2, MarkedEofFacts
    <3>4. Steps(f, MarkedEof(Killed(c)))
      BY <2>3 DEF ReadVersion
    <3>5. QED
      BY <3>3, <3>4
  <2>4. CASE ReadEof(f)
    <3>1. Follows(MarkedEof(s))
      BY <1>1, MarkedEofFacts
    <3>2. QED
      BY <2>4, <3>1 DEF ReadEof
  <2>5. CASE ReadCall(f)
    <3>1. Follows([s EXCEPT !.reader = "serving"])
      BY <1>1 DEF Session
    <3>2. QED
      BY <2>5, <3>1 DEF ReadCall
  <2>6. CASE ServeAnswers(f)
    <3>1. Follows([s EXCEPT !.reader = "reading"])
      BY <1>1 DEF Session
    <3>2. QED
      BY <2>6, <3>1 DEF ServeAnswers
  <2>7. CASE ServeTimesOut(f)
    <3> DEFINE c == [s EXCEPT !.reader = "reading", !.death = "watchdog"]
    <3>1. "watchdog" \in Deaths /\ "watchdog" # "none"
      BY DEF Deaths
    <3>2. c \in Session
      BY <1>1, <3>1 DEF Session
    <3>3. Follows(c)
      BY <1>1, <3>1, <3>2 DEF Session
    <3>4. Follows(Killed(c))
      <4> HIDE DEF c
      <4>1. QED
        BY <3>2, <3>3 DEF Killed, Session
    <3>5. Steps(f, Killed(c))
      BY <2>7 DEF ServeTimesOut
    <3>6. QED
      BY <3>4, <3>5
  <2>8. CASE ServeOversized(f)
    <3>1. Follows([s EXCEPT !.reader = "failed"])
      BY <1>1 DEF Session
    <3>2. QED
      BY <2>8, <3>1 DEF ServeOversized
  <2> HIDE DEF Follows
  <2>9. QED
    BY <2>1, <2>2, <2>3, <2>4, <2>5, <2>6, <2>7, <2>8 DEF ReaderStep
<1>3. PICK n : Follows(n) /\ Steps(f, n)
    BY <1>2
<1>4. SessionRecorded(n)
    BY <1>1, <1>3 DEF SessionRecorded
<1>5. QED
    BY <1>3, <1>4, StepsInv

(* run ends: what it raises as a death is the one the session has recorded. *)
LEMMA EndsFacts ==
    ASSUME NEW s \in Session, NEW r \in Deaths \cup {"none", "identity", "invoke", "unexpected"},
           ~(s.main \in Resting), ~s.disposed \/ r \notin Deaths,
           s.row = "running", r \in Deaths => s.death # "none"
    PROVE  /\ Ends(s, r) \in Session
           /\ SessionRecorded(Ends(s, r))
           /\ ~(Ends(s, r).main \in Resting)
<1> DEFINE n == Ends(s, r)
<1>1. /\ n \in Session /\ n.main = "ending" /\ n.raised = r /\ n.row = s.row
      /\ n.death = s.death /\ n.disposed = s.disposed
    BY DEF Ends, Session
<1> HIDE DEF n
<1>2. SessionRecorded(n) /\ ~(n.main \in Resting)
    BY <1>1 DEF SessionRecorded, Resting, Starting, Running, Calling
<1>3. QED
    BY <1>1, <1>2 DEF n

(* The caller's task, up to the finally block of run.                       *)
LEMMA CallerInv ==
    ASSUME SandboxInvariant, NEW f \in Fetches,
           \/ CallFailed(f) \/ HelloAnswered(f) \/ HelloRefused(f)
           \/ FetchAnswered(f) \/ FetchRefused(f) \/ WatchdogExpires(f)
           \/ DisposeAnswered(f) \/ ChildGone(f) \/ DisposeExpires(f)
    PROVE  SandboxInvariant'
<1> DEFINE s == run[f]
           Fine(n) == n \in Session /\ SessionRecorded(n) /\ ~(n.main \in Resting)
<1>1. /\ s \in Session /\ SessionRecorded(s) /\ ~(s.main \in Resting)
      /\ s.main \in Running /\ s.row = "running" /\ ~s.disposed
    BY DEF SandboxInvariant, SandboxTypeOK, SessionRecorded, Resting, Starting, Running, Calling,
           CallFailed, HelloAnswered, HelloRefused, FetchAnswered, FetchRefused,
           WatchdogExpires, DisposeAnswered, ChildGone, DisposeExpires
<1>0. ASSUME NEW n, Fine(n), Steps(f, n) PROVE SandboxInvariant'
    BY <1>0, <1>1, StepsInv
<1>2. CASE CallFailed(f)
  <2>1. Fine(Ends(s, Cause(s)))
    BY <1>1, EndsFacts DEF Cause, Session, Deaths
  <2>2. QED
    BY <1>0, <1>2, <2>1 DEF CallFailed
<1>3. CASE HelloAnswered(f)
  <2> DEFINE c == [s EXCEPT !.identity_error = TRUE]
  <2>1. Fine(Sends(s, "fetch"))
    BY <1>1 DEF Sends, Session, SessionRecorded, Resting, Starting, Running, Calling
  <2>2. /\ c \in Session /\ ~(c.main \in Resting) /\ ~c.disposed /\ c.row = "running"
    BY <1>1 DEF Session
  <2>3. Fine(Ends(c, "identity"))
    <3> HIDE DEF c
    <3>1. QED
      BY <2>2, EndsFacts DEF Deaths
  <2>4. Fine(Ends(s, "unexpected"))
    BY <1>1, EndsFacts DEF Deaths
  <2>5. QED
    BY <1>0, <1>3, <2>1, <2>3, <2>4 DEF HelloAnswered
<1>4. CASE HelloRefused(f)
  <2>1. Fine(Ends(s, "identity"))
    BY <1>1, EndsFacts DEF Deaths
  <2>2. QED
    BY <1>0, <1>4, <2>1 DEF HelloRefused
<1>5. CASE FetchAnswered(f)
  <2>1. Fine(Sends(s, "dispose"))
    BY <1>1 DEF Sends, Session, SessionRecorded, Resting, Starting, Running, Calling
  <2>2. s.death # "none" => Fine(Ends(s, s.death))
    BY <1>1, EndsFacts DEF Session, Deaths
  <2> HIDE DEF Fine
  <2>3. QED
    BY <1>0, <1>5, <2>1, <2>2 DEF FetchAnswered
<1>6. CASE FetchRefused(f)
  <2>1. Fine(Ends(s, "invoke"))
    BY <1>1, EndsFacts DEF Deaths
  <2>2. QED
    BY <1>0, <1>6, <2>1 DEF FetchRefused
<1>7. CASE WatchdogExpires(f)
  <2> DEFINE c == [s EXCEPT !.death = "watchdog"]
  <2>1. /\ c \in Session /\ ~(c.main \in Resting) /\ ~c.disposed /\ c.row = "running"
        /\ c.death = "watchdog"
    BY <1>1 DEF Session, Deaths
  <2>2. /\ Killed(c) \in Session /\ ~(Killed(c).main \in Resting) /\ ~Killed(c).disposed
        /\ Killed(c).row = "running" /\ Killed(c).death = "watchdog"
    <3> HIDE DEF c
    <3>1. QED
      BY <2>1 DEF Killed, Session
  <2>3. Fine(Ends(Killed(c), "watchdog"))
    <3> HIDE DEF c
    <3>1. QED
      BY <2>2, EndsFacts DEF Deaths
  <2>4. QED
    BY <1>0, <1>7, <2>3 DEF WatchdogExpires
<1>8. CASE DisposeAnswered(f)
  <2>1. Fine([s EXCEPT !.main = "exit"])
    BY <1>1 DEF Session, SessionRecorded, Resting, Starting, Running, Calling
  <2>2. QED
    BY <1>0, <1>8, <2>1 DEF DisposeAnswered
<1>9. CASE ChildGone(f)
  <2> DEFINE c == [s EXCEPT !.disposed = TRUE]
  <2>1. c \in Session /\ ~(c.main \in Resting) /\ c.row = "running"
    BY <1>1 DEF Session
  <2>2. Fine(Ends(c, "none"))
    <3> HIDE DEF c
    <3>1. QED
      BY <2>1, EndsFacts DEF Deaths
  <2>3. QED
    BY <1>0, <1>9, <2>2 DEF ChildGone
<1>10. CASE DisposeExpires(f)
  <2>1. Killed(s) \in Session /\ ~(Killed(s).main \in Resting) /\ Killed(s).row = "running"
    BY <1>1 DEF Killed, Session
  <2>2. Fine(Ends(Killed(s), "none"))
    BY <2>1, EndsFacts DEF Deaths
  <2>3. QED
    BY <1>0, <1>10, <2>2 DEF DisposeExpires
<1>11. QED
    BY <1>2, <1>3, <1>4, <1>5, <1>6, <1>7, <1>8, <1>9, <1>10

(* The row is closed: whatever was raised as a death is on record, and the  *)
(* outcome is then never completed.                                         *)
LEMMA EndRunInv ==
    ASSUME SandboxInvariant, NEW f \in Fetches, EndRun(f)
    PROVE  SandboxInvariant'
<1> DEFINE s == run[f]
           Fine(n) == n \in Session /\ SessionRecorded(n) /\ ~(n.main \in Resting)
<1>1. s \in Session /\ SessionRecorded(s) /\ s.main = "ending" /\ ~(s.main \in Resting)
    BY DEF SandboxInvariant, SandboxTypeOK, EndRun, Resting
<1>2. CASE s.reader = "failed"
  <2> DEFINE n == [s EXCEPT !.main = "terminating", !.reader = "none",
                            !.raised = "unexpected"]
  <2>1. Fine(n)
    BY <1>1 DEF Session, SessionRecorded, Resting, Starting, Running, Calling, Deaths
  <2>2. Steps(f, n)
    BY <1>2 DEF EndRun
  <2> HIDE DEF n
  <2>3. QED
    BY <1>1, <2>1, <2>2, StepsInv
<1>3. CASE s.reader # "failed"
  <2>1. PICK outcome \in Outcome(s) :
            Steps(f, [s EXCEPT !.main = "terminating", !.reader = "none", !.row = outcome])
    BY <1>3 DEF EndRun
  <2> DEFINE n == [s EXCEPT !.main = "terminating", !.reader = "none", !.row = outcome]
  <2>2. outcome \in Outcomes
    BY <1>1 DEF Outcome, Outcomes, Session, Deaths
  <2>3. s.raised \in Deaths => outcome # "completed"
    BY <1>1 DEF Outcome, SessionRecorded, Session, Deaths
  <2>4. Fine(n)
    BY <1>1, <2>2, <2>3 DEF Session, SessionRecorded, Resting, Starting, Running, Calling
  <2> HIDE DEF n
  <2>5. QED
    BY <1>1, <2>1, <2>4, StepsInv DEF n
<1>4. QED
    BY <1>2, <1>3

-----------------------------------------------------------------------------
(* Taking a slot, giving it back, and the host's death.                     *)

(* The active fetches are finitely many, so that the counter is a number.   *)
LEMMA ActiveFinite == IsFiniteSet(ActiveFetches) /\ Cardinality(ActiveFetches) \in Nat
<1>1. IsFiniteSet(ActiveFetches)
    BY SandboxAssumption, FS_Subset DEF ActiveFetches
<1>2. QED
    BY <1>1, FS_CardinalityType

(* A fetch under the cap takes one slot.                                    *)
LEMMA RunFetchInv ==
    ASSUME SandboxInvariant, NEW f \in Fetches, RunFetch(f)
    PROVE  SandboxInvariant'
<1> DEFINE n == [NoSession EXCEPT !.main = "spawning"]
<1>1. n \in Session /\ SessionRecorded(n) /\ ~(n.main \in Resting)
    BY NoSessionFacts
       DEF NoSession, Session, SessionRecorded, Resting, Starting, Running, Calling, Deaths,
           Outcomes
<1>2. /\ run' = [run EXCEPT ![f] = n] /\ live' = live + 1 /\ strays' = strays
      /\ run \in [Fetches -> Session] /\ live \in Nat
      /\ run[f].main \in Resting /\ live < max_concurrent
    BY SandboxAssumption
       DEF RunFetch, Becomes, SandboxInvariant, SandboxTypeOK, AtRest, Resting, Busy
<1> HIDE DEF n
<1>3. SandboxTypeOK'
    BY <1>1, <1>2 DEF SandboxInvariant, SandboxTypeOK
<1>4. f \notin ActiveFetches /\ ActiveFetches' = ActiveFetches \cup {f}
    BY <1>1, <1>2 DEF ActiveFetches, Active, AtRest, Resting
<1>5. Cardinality(ActiveFetches') = Cardinality(ActiveFetches) + 1
    BY <1>4, ActiveFinite, FS_AddElement
<1>6. live' = Cardinality(ActiveFetches') /\ live' <= max_concurrent
    BY <1>2, <1>5, SandboxAssumption DEF SandboxInvariant
<1>7. \A g \in Fetches : SessionRecorded(run'[g])
    BY <1>1, <1>2 DEF SandboxInvariant
<1>8. (\A g \in Fetches : SessionRecorded(run[g]))'
    BY <1>7 DEF SessionRecorded
<1>9. QED
    BY <1>3, <1>6, <1>8 DEF SandboxInvariant

(* A fetch that ends gives back exactly one slot.                           *)
LEMMA SlotBackInv ==
    ASSUME SandboxInvariant, NEW f \in Fetches, NEW n \in Session, SessionRecorded(n),
           run[f].main \notin Resting, n.main \in Resting,
           Becomes(f, n), live' = live - 1, strays' \in 0..MaxStrays
    PROVE  SandboxInvariant'
<1>1. run \in [Fetches -> Session] /\ live \in Nat /\ run' = [run EXCEPT ![f] = n]
    BY DEF SandboxInvariant, SandboxTypeOK, Becomes
<1>2. f \in ActiveFetches /\ ActiveFetches' = ActiveFetches \ {f}
    BY <1>1 DEF ActiveFetches, Active, AtRest, Resting
<1>3. Cardinality(ActiveFetches') = Cardinality(ActiveFetches) - 1
    BY <1>2, ActiveFinite, FS_RemoveElement
<1>4. live' = Cardinality(ActiveFetches') /\ live' <= max_concurrent
    BY <1>1, <1>3, SandboxAssumption DEF SandboxInvariant
<1>5. live' \in Nat
  <2>1. IsFiniteSet(ActiveFetches')
    BY <1>2, ActiveFinite, FS_RemoveElement
  <2>2. QED
    BY <1>4, <2>1, FS_CardinalityType
<1>6. SandboxTypeOK'
    BY <1>1, <1>5 DEF SandboxTypeOK
<1>7. \A g \in Fetches : SessionRecorded(run'[g])
    BY <1>1 DEF SandboxInvariant
<1>8. (\A g \in Fetches : SessionRecorded(run[g]))'
    BY <1>7 DEF SessionRecorded
<1>9. QED
    BY <1>4, <1>6, <1>8 DEF SandboxInvariant

(* A start that fails: at the spawn, or after it, with a child astray.      *)
LEMMA StartEndsInv ==
    ASSUME SandboxInvariant, NEW f \in Fetches, SpawnFails(f) \/ StartFails(f)
    PROVE  SandboxInvariant'
<1>1. PICK cause \in {"unavailable", "crashed", "unexpected"} :
          Becomes(f, [NoSession EXCEPT !.main = "done", !.raised = cause])
    BY DEF SpawnFails, StartFails
<1> DEFINE n == [NoSession EXCEPT !.main = "done", !.raised = cause]
<1>2. n \in Session /\ SessionRecorded(n) /\ n.main \in Resting
    BY NoSessionFacts
       DEF NoSession, Session, SessionRecorded, Resting, Starting, Running, Calling, Deaths,
           Outcomes
<1>3. Becomes(f, n)
    BY <1>1
<1> HIDE DEF n
<1>4. run[f].main \notin Resting /\ live' = live - 1
    BY DEF SpawnFails, StartFails, Resting
<1>5. strays' \in 0..MaxStrays
    BY SandboxAssumption DEF SpawnFails, StartFails, SandboxInvariant, SandboxTypeOK
<1>6. QED
    BY <1>2, <1>3, <1>4, <1>5, SlotBackInv

(* The last finally block leaves no child.                                  *)
LEMMA TerminateInv ==
    ASSUME SandboxInvariant, NEW f \in Fetches, Terminate(f)
    PROVE  SandboxInvariant'
<1> DEFINE s == run[f]
           k == Killed(s)
           n == [NoSession EXCEPT !.main = "done", !.child = k.child, !.raised = k.raised,
                                  !.row = k.row]
<1>1. s \in Session /\ SessionRecorded(s) /\ s.main = "terminating"
    BY DEF SandboxInvariant, SandboxTypeOK, Terminate
<1>2. /\ k \in Session /\ k.child # "running" /\ k.raised = s.raised /\ k.row = s.row
    BY <1>1, KilledFacts DEF Session
<1>3. /\ Becomes(f, n) /\ live' = live - 1 /\ strays' = strays
    BY DEF Terminate, Remains
<1> HIDE DEF k
<1>4. /\ n \in Session /\ n.main = "done" /\ n.child = k.child /\ n.raised = k.raised
      /\ n.row = k.row
    BY <1>2, NoSessionFacts DEF NoSession, Session
<1> HIDE DEF n
<1>5. SessionRecorded(n)
    BY <1>1, <1>2, <1>4 DEF SessionRecorded, Resting, Starting, Running, Calling
<1>6. s.main \notin Resting /\ n.main \in Resting /\ strays' \in 0..MaxStrays
    BY <1>1, <1>3, <1>4 DEF Resting, SandboxInvariant, SandboxTypeOK
<1>7. QED
    BY <1>3, <1>4, <1>5, <1>6, SlotBackInv

(* A stray child exits by itself.                                           *)
LEMMA StrayExitsInv ==
    ASSUME SandboxInvariant, StrayExits
    PROVE  SandboxInvariant'
<1>1. run' = run /\ live' = live
    BY DEF StrayExits
<1>2. strays' \in 0..MaxStrays
    BY SandboxAssumption DEF StrayExits, SandboxInvariant, SandboxTypeOK
<1>3. QED
    BY <1>1, <1>2 DEF SandboxInvariant, SandboxTypeOK, SessionRecorded, ActiveFetches, Active,
                      AtRest

(* With the host die all sandboxes; what rows remain were committed.        *)
LEMMA HostRestartsInv ==
    ASSUME SandboxInvariant, HostRestarts
    PROVE  SandboxInvariant'
<1> DEFINE RowAfter(f) == IF run[f].main \notin {"idle", "done"} THEN "none"
                          ELSE IF run[f].row = "running" THEN "interrupted"
                          ELSE run[f].row
           After(f) == [NoSession EXCEPT !.row = RowAfter(f)]
<1>1. /\ run' = [f \in Fetches |-> After(f)] /\ live' = 0 /\ strays' = 0
      /\ run \in [Fetches -> Session]
    BY DEF HostRestarts, SandboxInvariant, SandboxTypeOK
<1>2. ASSUME NEW f \in Fetches
      PROVE  After(f) \in Session /\ SessionRecorded(After(f)) /\ After(f).main = "idle"
  <2>1. RowAfter(f) \in Outcomes \cup {"none"}
    BY <1>1 DEF Session, Outcomes
  <2> HIDE DEF RowAfter
  <2>2. QED
    BY <2>1, NoSessionFacts
       DEF NoSession, Session, SessionRecorded, Resting, Starting, Running, Calling, Deaths
<1> HIDE DEF After
<1>3. SandboxTypeOK'
    BY <1>1, <1>2, SandboxAssumption DEF SandboxTypeOK
<1>4. ActiveFetches' = {}
    BY <1>1, <1>2 DEF ActiveFetches, Active, AtRest
<1>5. live' = Cardinality(ActiveFetches') /\ live' <= max_concurrent
    BY <1>1, <1>4, FS_EmptySet, SandboxAssumption
<1>6. \A g \in Fetches : SessionRecorded(run'[g])
    BY <1>1, <1>2
<1>7. (\A g \in Fetches : SessionRecorded(run[g]))'
    BY <1>6 DEF SessionRecorded
<1>8. QED
    BY <1>3, <1>5, <1>7 DEF SandboxInvariant

-----------------------------------------------------------------------------

(* Before the first fetch no slot is taken.                                 *)
LEMMA InitInv == Init => SandboxInvariant
<1> SUFFICES ASSUME Init PROVE SandboxInvariant
    OBVIOUS
<1>1. NoSession \in Session /\ SessionRecorded(NoSession)
    BY NoSessionFacts
       DEF NoSession, Session, SessionRecorded, Resting, Starting, Running, Calling, Deaths,
           Outcomes
<1>2. \A f \in Fetches : run[f] = NoSession
    BY DEF Init
<1>3. ActiveFetches = {}
    BY <1>2 DEF ActiveFetches, Active, AtRest, NoSession
<1>4. live = Cardinality(ActiveFetches) /\ live <= max_concurrent
    BY <1>3, FS_EmptySet, SandboxAssumption DEF Init
<1>5. SandboxTypeOK
    BY <1>1, SandboxAssumption DEF Init, SandboxTypeOK
<1>6. QED
    BY <1>1, <1>2, <1>4, <1>5 DEF SandboxInvariant

(* Every step keeps the invariant.                                          *)
LEMMA NextInv == SandboxInvariant /\ [Next]_vars => SandboxInvariant'
<1> SUFFICES ASSUME SandboxInvariant, [Next]_vars PROVE SandboxInvariant'
    OBVIOUS
<1>1. ASSUME NEW f \in Fetches,
             \/ RunFetch(f) \/ RunFetchBusy(f) \/ ChildExits(f) \/ ReaderStep(f) \/ MainStep(f)
      PROVE  SandboxInvariant'
    BY <1>1, RunFetchInv, OutsideInv, StartEndsInv, ReaderInv, CallerInv, EndRunInv,
       TerminateInv
       DEF MainStep
<1>2. CASE HostRestarts \/ StrayExits
    BY <1>2, HostRestartsInv, StrayExitsInv
<1>3. CASE UNCHANGED vars
    BY <1>3 DEF vars, SandboxInvariant, SandboxTypeOK, SessionRecorded, ActiveFetches,
                Active, AtRest
<1>4. QED
    BY <1>1, <1>2, <1>3 DEF Next

(* The sandbox counter, the sessions and the rows keep their types.         *)
THEOREM SandboxTypes == Spec => []SandboxTypeOK
<1>1. SandboxInvariant => SandboxTypeOK
    BY DEF SandboxInvariant
<1>2. QED
    BY <1>1, InitInv, NextInv, PTL DEF Spec

(* Whatever way a fetch ends, its slot is given back once, and the cap on    *)
(* the fetches under way is never exceeded; a child outlives its fetch only *)
(* as a stray, of a start that failed between the spawn and the session.    *)
THEOREM SandboxesBoundedHolds == Spec => []SandboxesBounded
<1>1. ASSUME SandboxInvariant PROVE SandboxesBounded
  <2> DEFINE running == {f \in Fetches : run[f].child = "running"}
  <2>1. running \subseteq ActiveFetches
    BY <1>1 DEF SandboxInvariant, SessionRecorded, ActiveFetches, Active, AtRest, Resting
  <2>2. Cardinality(running) <= Cardinality(ActiveFetches) /\ Cardinality(running) \in Nat
    BY <2>1, ActiveFinite, FS_Subset, FS_CardinalityType
  <2>3. Children = Cardinality(running) + strays
    BY DEF Children
  <2> HIDE DEF running
  <2>4. strays \in Nat /\ live \in Nat /\ live = Cardinality(ActiveFetches)
    BY <1>1 DEF SandboxInvariant, SandboxTypeOK
  <2>5. Children <= live + strays
    BY <2>2, <2>3, <2>4
  <2>6. QED
    BY <1>1, <2>5 DEF SandboxInvariant, SandboxesBounded, ActiveFetches
<1>2. QED
    BY <1>1, InitInv, NextInv, PTL DEF Spec

(* A run that raises the death of its sandbox never leaves a completed row. *)
(* A crash recorded while the child exits is not raised, and may leave one. *)
THEOREM CompletedDidNotDieHolds == Spec => []CompletedDidNotDie
<1>1. ASSUME SandboxInvariant, NEW f \in Fetches, run[f].row = "completed"
      PROVE  run[f].raised \notin Deaths
    BY <1>1 DEF SandboxInvariant, SandboxTypeOK, SessionRecorded, Session, Resting, Running,
                Starting, Calling
<1>2. SandboxInvariant => CompletedDidNotDie
    BY <1>1 DEF CompletedDidNotDie
<1>3. QED
    BY <1>2, InitInv, NextInv, PTL DEF Spec
=============================================================================
