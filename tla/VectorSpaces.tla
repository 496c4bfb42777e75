---------------------------- MODULE VectorSpaces ----------------------------
(***************************************************************************)
(* The life of the embedding spaces of one name: built, backfilled,        *)
(* activated, retired, dropped, by requests and jobs of the application    *)
(* and by the operator's command line, which is a process of its own and   *)
(* takes no locks.  The sessions are synchronous: a task keeps the event   *)
(* loop of its process from one await to the next, but not the database    *)
(* from the other process, which can write between a read and the write    *)
(* that follows it.  Writes go by primary key.                             *)
(***************************************************************************)
EXTENDS Naturals, FiniteSets

CONSTANTS
    Spaces,      \* row ids, never reused
    Keys,        \* embedding configurations
    Tasks,
    Proc,        \* the process of a task
    MayRun,      \* the operations of a task
    MaxFaults    \* crashes and failed calls

Ops == {"build", "index", "activate", "retire", "drop"}

ASSUME VectorSpacesAssumption ==
    /\ IsFiniteSet(Spaces)
    /\ MayRun \in [Tasks -> SUBSET Ops]
    /\ Proc \in [Tasks -> {"app", "cli"}]
    /\ MaxFaults \in Nat

VARIABLES
    row,       \* the rows of the name
    task,      \* where each task is
    served,    \* history: the spaces that have been active
    contested, \* history: the active one came so while a retire or drop had it in hand
    faults

vars == <<row, task, served, contested, faults>>

(* index: the physical index its backend needs is there.  Of a retired row  *)
(* nobody asks for the key or the index again.                              *)
Row == [status : {"building", "active"}, key : Keys, index : BOOLEAN]

Free == [status |-> "free"]

Retired == [status |-> "retired"]

Dropped == [status |-> "dropped"]

(* The points of an operation between two transactions: "embedding" and     *)
(* "remap" are awaits, the others keep the event loop.                      *)
Points == {"rest", "embedding", "remap", "insert", "provision",
           "flip_read", "flip", "retire", "drop"}

Resting == [op |-> "none", at |-> "rest"]

(* space and key of the operation; seen, the active rows the flip has read, *)
(* whose remap hook is then to be called.                                   *)
Task == [op : Ops, at : Points \ {"rest"}, space : Spaces \cup {"none"},
         key : Keys \cup {"none"}, seen : SUBSET Spaces]

SpaceTypeOK ==
    /\ row \in [Spaces -> Row \cup {Free, Retired, Dropped}]
    /\ task \in [Tasks -> Task \cup {Resting}]
    /\ served \subseteq Spaces /\ contested \in BOOLEAN
    /\ faults \in 0..MaxFaults

Init ==
    /\ row = [s \in Spaces |-> Free]
    /\ task = [t \in Tasks |-> Resting]
    /\ served = {} /\ contested = FALSE
    /\ faults = 0

-----------------------------------------------------------------------------

WithStatus(rows, status) == {s \in Spaces : rows[s].status = status}

Active(rows) == WithStatus(rows, "active")

(* uq_vector_spaces_name_active                                             *)
NameIndex(rows) == Cardinality(Active(rows)) <= 1

(* The event loop of the task's process is not held by another task.        *)
Turn(t) ==
    \A u \in Tasks \ {t} :
        Proc[u] = Proc[t] => task[u].at \in {"rest", "embedding", "remap"}

Starts(t, op) ==
    /\ task[t] = Resting
    /\ op \in MayRun[t]
    /\ Turn(t)

Begun(op, at, s, k) == [op |-> op, at |-> at, space |-> s, key |-> k, seen |-> {}]

Goes(t, next) == task' = [task EXCEPT ![t] = next]

Ends(t) == Goes(t, Resting)

KeepsRows == UNCHANGED <<row, served, contested>>

At(t, op, at) == task[t].op = op /\ task[t].at = at

(* A retire_space or drop_space that has read the row and not written it.   *)
InHand(s) == \E t \in Tasks : task[t].at \in {"retire", "drop"} /\ task[t].space = s

Writes(rows) ==
    /\ row' = rows
    /\ served' = served \cup Active(rows)
    /\ contested' = IF Active(rows) = Active(row) THEN contested
                    ELSE \E s \in Active(rows) : InHand(s)

-----------------------------------------------------------------------------
(* build_space of the lifecycle, create_space with status building          *)

(* A matching building space is reused, a different one refused.            *)
build_space(t, k) ==
    LET building == WithStatus(row, "building")
        matching == {s \in building : row[s].key = k}
    IN  /\ Starts(t, "build")
        /\ \/ \E s \in matching : Goes(t, Begun("build", "provision", s, "none"))
           \/ building = {} /\ Goes(t, Begun("build", "insert", "none", k))
        /\ KeepsRows /\ UNCHANGED faults

(* Mutant: the computed key is not stored.                                  *)
NewRow_unkeyed(status, k) == [status |-> status, key |-> "none", index |-> FALSE]

NewRow(status, k) == [status |-> status, key |-> k, index |-> FALSE]

(* Ids are interchangeable: an insert takes a given one that is free.       *)
FreshId == CHOOSE s \in Spaces : row[s] = Free

HasFreshId == \E s \in Spaces : row[s] = Free

BuildInsert(t) ==
    /\ At(t, "build", "insert")
    /\ HasFreshId
    /\ Writes([row EXCEPT ![FreshId] = NewRow("building", task[t].key)])
    /\ Goes(t, [task[t] EXCEPT !.at = "provision", !.space = FreshId, !.key = "none"])
    /\ UNCHANGED faults

(* The bound on row ids: an insert without one is abandoned.                *)
OutOfIds(t) ==
    /\ task[t].at = "insert"
    /\ ~HasFreshId
    /\ Ends(t)
    /\ KeepsRows /\ UNCHANGED faults

(* provision_space, unless the space has vanished since; the index of a     *)
(* retired one is not told apart.                                           *)
Provision(t) ==
    /\ task[t].at = "provision"
    /\ IF row[task[t].space] \in {Retired, Dropped} THEN KeepsRows
       ELSE Writes([row EXCEPT ![task[t].space].index = TRUE])
    /\ Ends(t)
    /\ UNCHANGED faults

ProvisionFails(t) ==
    /\ task[t].at = "provision"
    /\ faults < MaxFaults
    /\ faults' = faults + 1
    /\ Ends(t)
    /\ KeepsRows

-----------------------------------------------------------------------------
(* VectorIndexService.prepare: the first document creates the active space  *)

(* Mutant: an active space is taken as it is.                               *)
prepare_trusting(t, k) ==
    /\ Starts(t, "index")
    /\ Active(row) = {}
    /\ Goes(t, Begun("index", "embedding", "none", k))
    /\ KeepsRows /\ UNCHANGED faults

(* No active space: embed first.  One without its index: heal it.           *)
prepare(t, k) ==
    /\ Starts(t, "index")
    /\ \/ /\ Active(row) = {}
          /\ Goes(t, Begun("index", "embedding", "none", k))
       \/ \E s \in Active(row) :
            ~row[s].index /\ Goes(t, Begun("index", "provision", s, "none"))
    /\ KeepsRows /\ UNCHANGED faults

(* After the embedding call, create_space with status active: a matching    *)
(* active space is taken, a different one fails the document.               *)
CreateSpace(t) ==
    /\ At(t, "index", "embedding")
    /\ Turn(t)
    /\ \/ /\ Active(row) = {}
          /\ Goes(t, [task[t] EXCEPT !.at = "insert"])
       \/ \E s \in Active(row) :
            IF row[s].key = task[t].key
            THEN Goes(t, [task[t] EXCEPT !.at = "provision", !.space = s, !.key = "none"])
            ELSE Ends(t)
    /\ KeepsRows /\ UNCHANGED faults

(* The provider does not answer, or has no budget.                          *)
EmbeddingFails(t) ==
    /\ At(t, "index", "embedding")
    /\ Turn(t)
    /\ faults < MaxFaults
    /\ faults' = faults + 1
    /\ Ends(t)
    /\ KeepsRows

(* The insert fails at the index when another space is active by now.       *)
CreateInsert(t) ==
    /\ At(t, "index", "insert")
    /\ HasFreshId
    /\ LET rows == [row EXCEPT ![FreshId] = NewRow("active", task[t].key)]
       IN  IF NameIndex(rows)
           THEN /\ Writes(rows)
                /\ Goes(t, [task[t] EXCEPT !.at = "provision", !.space = FreshId,
                                           !.key = "none"])
           ELSE KeepsRows /\ Ends(t)
    /\ UNCHANGED faults

-----------------------------------------------------------------------------
(* activate_space                                                           *)

(* The first session: a building space that has its physical index may pass *)
(* the coverage and quality gates.  Anything else is refused, or is active. *)
activate_space(t, s) ==
    /\ Starts(t, "activate")
    /\ row[s].status = "building" /\ row[s].index
    /\ Goes(t, Begun("activate", "flip_read", s, row[s].key))
    /\ KeepsRows /\ UNCHANGED faults

(* The second session reads the rows of the name; only on PostgreSQL does   *)
(* it lock them.                                                            *)
FlipRead(t) ==
    /\ At(t, "activate", "flip_read")
    /\ IF row[task[t].space].status = "building"
       THEN Goes(t, [task[t] EXCEPT !.at = "flip", !.seen = Active(row)])
       ELSE Ends(t)
    /\ KeepsRows /\ UNCHANGED faults

(* The key never changes, and the index was checked.                        *)
Flipped(t) ==
    [s \in Spaces |->
        IF s = task[t].space THEN [status |-> "active", key |-> task[t].key, index |-> TRUE]
        ELSE IF s \in task[t].seen THEN Retired
        ELSE row[s]]

(* The update of a row that is gone, or of a second active one, rolls back. *)
Refused(t) ==
    \/ \E s \in task[t].seen \cup {task[t].space} : row[s] = Dropped
    \/ ~NameIndex(Flipped(t))

(* Mutant: the hook is called whatever became of the flip.                  *)
Flip_announced(t) ==
    /\ At(t, "activate", "flip")
    /\ IF Refused(t) THEN KeepsRows ELSE Writes(Flipped(t))
    /\ IF task[t].seen = {} THEN Ends(t)
       ELSE Goes(t, [task[t] EXCEPT !.at = "remap"])
    /\ UNCHANGED faults

(* One transaction retires the previous space and activates the target.     *)
Flip(t) ==
    /\ At(t, "activate", "flip")
    /\ IF Refused(t) THEN KeepsRows /\ Ends(t)
       ELSE /\ Writes(Flipped(t))
            /\ IF task[t].seen = {} THEN Ends(t)
               ELSE Goes(t, [task[t] EXCEPT !.at = "remap"])
    /\ UNCHANGED faults

(* _invalidate: the hook enqueues the remap of the retired key.             *)
Invalidate(t) ==
    /\ At(t, "activate", "remap")
    /\ Turn(t)
    /\ Ends(t)
    /\ KeepsRows /\ UNCHANGED faults

(* The flip is committed, and a second activation says already active: the  *)
(* remap is lost, as it is when the process dies here.                      *)
InvalidateFails(t) ==
    /\ At(t, "activate", "remap")
    /\ Turn(t)
    /\ faults < MaxFaults
    /\ faults' = faults + 1
    /\ Ends(t)
    /\ KeepsRows

-----------------------------------------------------------------------------
(* retire_space and drop_space                                              *)

(* Mutant: an active space is retired as well.                              *)
retire_space_any(t, s) ==
    /\ Starts(t, "retire")
    /\ row[s].status \in {"building", "active"}
    /\ Goes(t, Begun("retire", "retire", s, "none"))
    /\ KeepsRows /\ UNCHANGED faults

retire_space(t, s) ==
    /\ Starts(t, "retire")
    /\ row[s].status = "building"
    /\ Goes(t, Begun("retire", "retire", s, "none"))
    /\ KeepsRows /\ UNCHANGED faults

RetireCommit(t) ==
    /\ At(t, "retire", "retire")
    /\ IF row[task[t].space] = Dropped THEN KeepsRows
       ELSE Writes([row EXCEPT ![task[t].space] = Retired])
    /\ Ends(t)
    /\ UNCHANGED faults

(* With force and the typed name the grace period does not matter.          *)
drop_space(t, s) ==
    /\ Starts(t, "drop")
    /\ row[s] = Retired
    /\ Goes(t, Begun("drop", "drop", s, "none"))
    /\ KeepsRows /\ UNCHANGED faults

DropCommit(t) ==
    /\ At(t, "drop", "drop")
    /\ Writes([row EXCEPT ![task[t].space] = Dropped])
    /\ Ends(t)
    /\ UNCHANGED faults

-----------------------------------------------------------------------------

(* A process dies; what its tasks were about to do is forgotten.            *)
Crash(p) ==
    LET dead == {t \in Tasks : Proc[t] = p}
    IN  /\ faults < MaxFaults
        /\ faults' = faults + 1
        /\ \E t \in dead : task[t] # Resting
        /\ task' = [t \in Tasks |-> IF t \in dead THEN Resting ELSE task[t]]
        /\ KeepsRows

Start(t) ==
    \/ \E k \in Keys : build_space(t, k) \/ prepare(t, k)
    \/ \E s \in Spaces : activate_space(t, s) \/ retire_space(t, s) \/ drop_space(t, s)

Continue(t) ==
    \/ BuildInsert(t) \/ OutOfIds(t) \/ Provision(t)
    \/ CreateSpace(t) \/ CreateInsert(t)
    \/ FlipRead(t) \/ Flip(t) \/ Invalidate(t)
    \/ RetireCommit(t) \/ DropCommit(t)

Next ==
    \/ \E t \in Tasks :
        \/ Start(t) \/ Continue(t)
        \/ ProvisionFails(t) \/ EmbeddingFails(t) \/ InvalidateFails(t)
    \/ \E p \in {"app", "cli"} : Crash(p)

Spec == Init /\ [][Next]_vars

(* A started operation goes on; documents keep coming to be indexed, by a   *)
(* worker that does nothing else.                                           *)
FairSpec ==
    /\ Spec
    /\ \A t \in Tasks : WF_vars(Continue(t))
    /\ \A t \in Tasks : SF_vars(\E k \in Keys : prepare(t, k))

-----------------------------------------------------------------------------
(* Properties                                                               *)

(* Readers that follow the active row never see two spaces and never fall   *)
(* back to a replaced one; they are left without only when the space was    *)
(* activated under a retire_space or drop_space of the other process that   *)
(* had read it before: the life cycle implements the active pointer.        *)
Pointer == INSTANCE ActivePointer
    WITH serving <- Active(row), past <- served \ Active(row)

ServesOn == Pointer!Spec

(* The remap hook is called for a space that has served and serves no more, *)
(* never for a flip that was refused, nor before one is committed.          *)
RemapsReplaced ==
    \A t \in Tasks :
        At(t, "activate", "remap") => task[t].seen \subseteq served \ Active(row)

(* An active space that a failed or interrupted first indexing left without *)
(* its table gets it, or is replaced.                                       *)
IndexHeals ==
    \A s \in Spaces :
        row[s].status = "active" /\ ~row[s].index
            ~> row[s].status # "active" \/ row[s].index
=============================================================================
