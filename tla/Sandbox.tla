------------------------------- MODULE Sandbox -------------------------------
(***************************************************************************)
(* Sandboxed fetches of T2 connectors.  A fetch is two tasks and a child   *)
(* process: the caller's task goes through handshake, fetch and dispose,   *)
(* each under a deadline; the reader task takes the child's lines, serves  *)
(* its capability calls and fails the waiting call at the end of output;   *)
(* the child may send any line, close its output or exit at any moment.    *)
(* Lines it has written are read even after it is dead.  A child whose     *)
(* fetch fails between the spawn and the session goes astray.              *)
(***************************************************************************)
EXTENDS Naturals, FiniteSets

CONSTANTS
    Fetches,                  \* the syncs that can be fetching at one time
    max_concurrent,           \* the concurrent-sandbox cap
    MAX_PROTOCOL_VIOLATIONS,
    MaxStrays                 \* bound: the children astray at one time

ASSUME SandboxAssumption ==
    /\ IsFiniteSet(Fetches)
    /\ max_concurrent \in Nat \ {0}
    /\ MAX_PROTOCOL_VIOLATIONS \in Nat \ {0}
    /\ MaxStrays \in Nat

VARIABLES
    live,   \* _LIVE_SANDBOXES
    strays, \* children that run, of fetches that ended without a session
    run     \* per fetch: its caller, its session and its run row

vars == <<live, strays, run>>

Deaths == {"crashed", "watchdog", "protocol-violation"}

Starting == {"spawning", "starting"}

Calling == {"hello", "fetch", "dispose"}

Outcomes == Deaths \cup {"running", "completed", "interrupted"}

(* main     the caller's task: idle, the spawn, the insert of the row, a    *)
(*          call it awaits, the wait for the exit, the two finally blocks,  *)
(*          and back with a result                                          *)
(* reader   the reader task: reading, serving a capability call, at its     *)
(*          end, or ended by an exception of its own                        *)
(* future   the call that main awaits                                       *)
(* raised   what run is about to raise, "none" when it returns items        *)
(* row      the row's outcome, ended_at being set unless it is running      *)
Session ==
    [main : {"idle", "exit", "ending", "terminating", "done"} \cup Starting \cup Calling,
     reader : {"none", "reading", "serving", "ended", "failed"},
     child : {"none", "running", "exited", "killed"},
     future : {"none", "waiting", "answered", "refused", "failed"},
     violations : 0..MAX_PROTOCOL_VIOLATIONS,
     death : Deaths \cup {"none"},
     identity_error : BOOLEAN, disposed : BOOLEAN,
     raised : Deaths \cup {"none", "identity", "invoke", "busy", "unavailable", "unexpected"},
     row : Outcomes \cup {"none"}]

NoSession ==
    [main |-> "idle", reader |-> "none", child |-> "none", future |-> "none",
     violations |-> 0, death |-> "none", identity_error |-> FALSE,
     disposed |-> FALSE, raised |-> "none", row |-> "none"]

SandboxTypeOK ==
    /\ live \in Nat /\ strays \in 0..MaxStrays
    /\ run \in [Fetches -> Session]

Init == live = 0 /\ strays = 0 /\ run = [f \in Fetches |-> NoSession]

Becomes(f, session) == run' = [run EXCEPT ![f] = session]

Steps(f, session) == Becomes(f, session) /\ UNCHANGED <<live, strays>>

(* _kill: a child that is still there is killed.                            *)
Killed(s) == [s EXCEPT !.child = IF @ = "running" THEN "killed" ELSE @]

-----------------------------------------------------------------------------
(* run_fetch                                                                *)

AtRest(f) == run[f].main \in {"idle", "done"}

(* Over the cap a fetch fails, it is never queued.                          *)
Busy == max_concurrent <= live

RunFetchBusy(f) ==
    /\ AtRest(f)
    /\ Busy
    /\ Steps(f, [NoSession EXCEPT !.main = "done", !.raised = "busy"])

(* The slot is taken before the spawn.                                      *)
RunFetch(f) ==
    /\ AtRest(f)
    /\ ~Busy
    /\ live' = live + 1
    /\ Becomes(f, [NoSession EXCEPT !.main = "spawning"])
    /\ UNCHANGED strays

(* No isolation on this host, or no process: no row, the slot given back.   *)
SpawnFails(f) ==
    /\ run[f].main = "spawning"
    /\ live' = live - 1
    /\ \E cause \in {"unavailable", "crashed"} :
        Becomes(f, [NoSession EXCEPT !.main = "done", !.raised = cause])
    /\ UNCHANGED strays

Spawned(f) ==
    /\ run[f].main = "spawning"
    /\ Steps(f, [run[f] EXCEPT !.main = "starting", !.child = "running"])

(* The flush of the run row or the set-up of the session raises, or the     *)
(* task is cancelled: no finally block looks after the child yet.           *)
StartFails(f) ==
    /\ run[f].main = "starting"
    /\ strays < MaxStrays
    /\ strays' = IF run[f].child = "running" THEN strays + 1 ELSE strays
    /\ live' = live - 1
    /\ Becomes(f, [NoSession EXCEPT !.main = "done", !.raised = "unexpected"])

(* The run row inserted, the reader started, the handshake sent.            *)
Started(f) ==
    /\ run[f].main = "starting"
    /\ Steps(f, [run[f] EXCEPT !.main = "hello", !.reader = "reading",
                               !.future = "waiting", !.row = "running"])

-----------------------------------------------------------------------------
(* The child                                                                *)

ChildExits(f) ==
    /\ run[f].child = "running"
    /\ Steps(f, [run[f] EXCEPT !.child = "exited"])

StrayExits ==
    /\ strays > 0
    /\ strays' = strays - 1
    /\ UNCHANGED <<live, run>>

-----------------------------------------------------------------------------
(* The reader task                                                          *)

Reading(f) == run[f].reader = "reading"

(* A result, or an error, for the call in flight.                           *)
ReadAnswer(f, answer) ==
    /\ Reading(f)
    /\ run[f].future = "waiting"
    /\ Steps(f, [run[f] EXCEPT !.future = answer])

(* Garbage, an oversized line, an unknown event, an answer nobody waits for.*)
ReadViolation(f) ==
    LET s == run[f]
        n == IF s.violations < MAX_PROTOCOL_VIOLATIONS THEN s.violations + 1 ELSE s.violations
    IN  /\ Reading(f)
        /\ Steps(f, IF n = MAX_PROTOCOL_VIOLATIONS
                    THEN Killed([s EXCEPT !.violations = n, !.death = "protocol-violation"])
                    ELSE [s EXCEPT !.violations = n])

(* _mark_eof: the cause is the identity error, the death, or, before a      *)
(* graceful end, a crash; whoever waits gets it.                            *)
MarkedEof(s) ==
    LET crash == ~s.identity_error /\ s.death = "none" /\ ~s.disposed
        cause == s.identity_error \/ crash \/ s.death # "none"
    IN  [s EXCEPT !.reader = "ended",
                  !.death = IF crash THEN "crashed" ELSE @,
                  !.future = IF @ = "waiting" /\ cause THEN "failed" ELSE @]

(* A message of another protocol version ends the session.                  *)
ReadVersion(f) ==
    /\ Reading(f)
    /\ Steps(f, MarkedEof(Killed([run[f] EXCEPT !.identity_error = TRUE])))

(* The output is closed: the child is gone, or it has closed the pipe.      *)
ReadEof(f) ==
    /\ Reading(f)
    /\ Steps(f, MarkedEof(run[f]))

ReadCall(f) ==
    /\ Reading(f)
    /\ Steps(f, [run[f] EXCEPT !.reader = "serving"])

(* The call's result, a used-up quota or a refusal goes back to the child.  *)
ServeAnswers(f) ==
    /\ run[f].reader = "serving"
    /\ Steps(f, [run[f] EXCEPT !.reader = "reading"])

ServeTimesOut(f) ==
    /\ run[f].reader = "serving"
    /\ Steps(f, Killed([run[f] EXCEPT !.reader = "reading", !.death = "watchdog"]))

(* A result longer than a line may be: encode_line refuses it, and nothing  *)
(* in _serve or _reader catches that.                                       *)
ServeOversized(f) ==
    /\ run[f].reader = "serving"
    /\ Steps(f, [run[f] EXCEPT !.reader = "failed"])

-----------------------------------------------------------------------------
(* The caller's task                                                        *)

(* run raises, or returns: on to its finally block.                         *)
Ends(s, raised) == [s EXCEPT !.main = "ending", !.future = "none", !.raised = raised]

Sends(s, call) == [s EXCEPT !.main = call, !.future = "waiting"]

(* The exception the reader put into the call.                              *)
Cause(s) == IF s.identity_error THEN "identity" ELSE s.death

CallFailed(f) ==
    /\ run[f].main \in Calling
    /\ run[f].future = "failed"
    /\ Steps(f, Ends(run[f], Cause(run[f])))

(* The identity is the pinned one, or not.  Configuration and state longer  *)
(* than a line may be are refused by encode_line before they are sent.      *)
HelloAnswered(f) ==
    /\ run[f].main = "hello" /\ run[f].future = "answered"
    /\ \/ Steps(f, Sends(run[f], "fetch"))
       \/ Steps(f, Ends(run[f], "unexpected"))
       \/ Steps(f, Ends([run[f] EXCEPT !.identity_error = TRUE], "identity"))

(* A refused handshake is an identity error to the caller only.             *)
HelloRefused(f) ==
    /\ run[f].main = "hello" /\ run[f].future = "refused"
    /\ Steps(f, Ends(run[f], "identity"))

FetchAnswered(f) ==
    /\ run[f].main = "fetch" /\ run[f].future = "answered"
    /\ Steps(f, IF run[f].death # "none" THEN Ends(run[f], run[f].death)
                ELSE Sends(run[f], "dispose"))

FetchRefused(f) ==
    /\ run[f].main = "fetch" /\ run[f].future = "refused"
    /\ Steps(f, Ends(run[f], "invoke"))

(* Mutant: no deadline for the handshake.                                   *)
WatchdogExpires_fetch(f) ==
    /\ run[f].main = "fetch" /\ run[f].future = "waiting"
    /\ Steps(f, Ends(Killed([run[f] EXCEPT !.death = "watchdog"]), "watchdog"))

(* Mutant: the child is killed and the caller told, the death not kept.     *)
WatchdogExpires_unrecorded(f) ==
    /\ run[f].main \in {"hello", "fetch"} /\ run[f].future = "waiting"
    /\ Steps(f, Ends(Killed(run[f]), "watchdog"))

(* The wall-clock watchdog over the handshake and the fetch.                *)
WatchdogExpires(f) ==
    /\ run[f].main \in {"hello", "fetch"} /\ run[f].future = "waiting"
    /\ Steps(f, Ends(Killed([run[f] EXCEPT !.death = "watchdog"]), "watchdog"))

DisposeAnswered(f) ==
    /\ run[f].main = "dispose" /\ run[f].future \in {"answered", "refused"}
    /\ Steps(f, [run[f] EXCEPT !.main = "exit"])

ChildGone(f) ==
    /\ run[f].main = "exit" /\ run[f].child # "running"
    /\ Steps(f, Ends([run[f] EXCEPT !.disposed = TRUE], "none"))

(* The dispose deadline: the child is killed, the items are kept.           *)
DisposeExpires(f) ==
    /\ \/ run[f].main = "dispose" /\ run[f].future = "waiting"
       \/ run[f].main = "exit"
    /\ Steps(f, Ends(Killed(run[f]), "none"))

(* Mutant: an identity error is recorded as such.                           *)
Outcome_identity(s) ==
    IF s.identity_error THEN {"identity"}
    ELSE IF s.disposed THEN {"completed"}
    ELSE IF s.death # "none" THEN {s.death}
    ELSE IF s.child \in {"exited", "killed"} THEN {"crashed", "completed"}
    ELSE {"completed"}

(* _close_run_row; an exit status nobody has collected yet counts as none.  *)
Outcome(s) ==
    IF s.identity_error THEN {"crashed"}
    ELSE IF s.disposed THEN {"completed"}
    ELSE IF s.death # "none" THEN {s.death}
    ELSE IF s.child \in {"exited", "killed"} THEN {"crashed", "completed"}
    ELSE {"completed"}

(* The finally block of run: the reader is cancelled and awaited, and the   *)
(* row closed.  An exception of the reader comes out of the await.          *)
EndRun(f) ==
    LET s == run[f]
    IN  /\ s.main = "ending"
        /\ IF s.reader = "failed"
           THEN Steps(f, [s EXCEPT !.main = "terminating", !.reader = "none",
                                   !.raised = "unexpected"])
           ELSE \E outcome \in Outcome(s) :
                    Steps(f, [s EXCEPT !.main = "terminating", !.reader = "none",
                                       !.row = outcome])

(* What is left of a session that has ended.                                *)
Remains(s) ==
    [NoSession EXCEPT !.main = "done", !.child = s.child, !.raised = s.raised,
                      !.row = s.row]

(* Mutant: the slot is given back, the child forgotten.                     *)
Terminate_forgets(f) ==
    /\ run[f].main = "terminating"
    /\ live' = live - 1
    /\ Becomes(f, Remains(run[f]))
    /\ UNCHANGED strays

(* The finally blocks of _run_fetch_locked and run_fetch; the caller then   *)
(* commits the row.                                                         *)
Terminate(f) ==
    /\ run[f].main = "terminating"
    /\ live' = live - 1
    /\ Becomes(f, Remains(Killed(run[f])))
    /\ UNCHANGED strays

(* The host dies, its children with it (bubblewrap's --die-with-parent);    *)
(* rows that were not committed are gone, and the boot closes those that    *)
(* say running.                                                             *)
HostRestarts ==
    /\ live' = 0 /\ strays' = 0
    /\ run' = [f \in Fetches |->
                [NoSession EXCEPT !.row = IF run[f].main \notin {"idle", "done"} THEN "none"
                                          ELSE IF run[f].row = "running" THEN "interrupted"
                                          ELSE run[f].row]]

ReaderStep(f) ==
    \/ ReadAnswer(f, "answered") \/ ReadAnswer(f, "refused")
    \/ ReadViolation(f) \/ ReadVersion(f) \/ ReadEof(f) \/ ReadCall(f)
    \/ ServeAnswers(f) \/ ServeTimesOut(f) \/ ServeOversized(f)

MainStep(f) ==
    \/ Spawned(f) \/ SpawnFails(f) \/ Started(f) \/ StartFails(f)
    \/ CallFailed(f) \/ HelloAnswered(f) \/ HelloRefused(f)
    \/ FetchAnswered(f) \/ FetchRefused(f) \/ WatchdogExpires(f)
    \/ DisposeAnswered(f) \/ ChildGone(f) \/ DisposeExpires(f)
    \/ EndRun(f) \/ Terminate(f)

Next ==
    \/ \E f \in Fetches :
        \/ RunFetch(f) \/ RunFetchBusy(f)
        \/ ChildExits(f) \/ ReaderStep(f) \/ MainStep(f)
    \/ StrayExits
    \/ HostRestarts

Spec == Init /\ [][Next]_vars

(* The event loop runs a task that can go on, and timers fire.              *)
FairSpec == Spec /\ \A f \in Fetches : WF_vars(MainStep(f))

-----------------------------------------------------------------------------
(* Properties                                                               *)

Active(f) == ~AtRest(f)

(* The processes that run on the host.                                      *)
Children == Cardinality({f \in Fetches : run[f].child = "running"}) + strays

(* The counter that guards the cap is the number of fetches under way,      *)
(* whatever way one ends, so that it neither leaks a slot nor gives one     *)
(* back twice; and a child outlives its fetch only as a stray, whose fetch  *)
(* failed between the spawn and the session.                                *)
SandboxesBounded ==
    /\ live = Cardinality({f \in Fetches : Active(f)})
    /\ live <= max_concurrent
    /\ Children <= live + strays

(* A row that says completed is not the row of a run that was raised as the *)
(* death of its sandbox, with which the connector disables the extension.   *)
CompletedDidNotDie ==
    \A f \in Fetches : run[f].row = "completed" => run[f].raised \notin Deaths

(* Whatever the child does, every fetch ends, and its slot is free again.   *)
FetchEnds == \A f \in Fetches : Active(f) ~> AtRest(f)
=============================================================================
