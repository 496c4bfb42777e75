-------------------------- MODULE VectorSpacesProofs --------------------------
(* The life cycle of the spaces of a name implements the active pointer,    *)
(* for every number of rows, configurations, tasks and faults.              *)
EXTENDS VectorSpaces, FiniteSetTheorems, TLAPS

Flipping == {"flip_read", "flip"}

(* A task that holds the event loop of its process.                         *)
Holds(k) == k.at \notin {"rest", "embedding", "remap"}

(* What has served is active, replaced or gone, and one is active at most.  *)
RowsCoherent(rows, past) ==
    /\ \A a, b \in Active(rows) : a = b
    /\ Active(rows) \subseteq past
    /\ \A s \in past : s \in Spaces /\ rows[s].status \in {"active", "retired", "dropped"}

(* What a task still relies on of what it has read: its row is there, that  *)
(* of a drop has been retired.  If the target of a flip was activated       *)
(* meanwhile, a space is active that the flip has not seen active.  What    *)
(* the remap hook is called for serves no more.                             *)
TaskCoherent(rows, past, k) ==
    /\ k.at \in {"insert", "embedding"} \cup Flipping => k.key \in Keys
    /\ k.at \in {"provision", "retire", "drop"} \cup Flipping =>
            k.space \in Spaces /\ rows[k.space].status # "free"
    /\ k.at = "flip" =>
            /\ k.seen \subseteq past
            /\ k.space \notin k.seen
            /\ k.space \in past => Active(rows) # {} /\ k.seen \cap Active(rows) = {}
    /\ k.at = "drop" => rows[k.space].status \in {"active", "retired", "dropped"}
    /\ k.at = "remap" => k.seen \subseteq past \ Active(rows)

(* One task of a process between awaits.                                    *)
TurnsCoherent(k) ==
    \A t, u \in Tasks : t # u /\ Proc[t] = Proc[u] => ~(Holds(k[t]) /\ Holds(k[u]))

Coherent(rows, past, k) ==
    /\ RowsCoherent(rows, past)
    /\ TurnsCoherent(k)
    /\ \A t \in Tasks : TaskCoherent(rows, past, k[t])

(* A task that has yet to write a row it wants to take away.                *)
TakesAway(k) == k.at \in {"retire", "drop"}

(* Whoever has the active space in hand to take it away had it before the   *)
(* activation, and no flip is under way whose target has served: after the  *)
(* activation the other process is held by the one that takes it away.      *)
HandsCoherent(rows, past, k, c) ==
    \A t \in Tasks : TakesAway(k[t]) /\ k[t].space \in Active(rows) =>
        c /\ \A u \in Tasks : k[u].at = "flip" => k[u].space \notin past

(* The inductive invariant.                                                 *)
SpaceInvariant ==
    /\ SpaceTypeOK
    /\ Coherent(row, served, task)
    /\ HandsCoherent(row, served, task, contested)

AnyRow == Row \cup {Free, Retired, Dropped}

(* What readers notice of a change of the rows: nothing, a switch to a      *)
(* space that has not served, or the loss of a contested one.               *)
RowsMove(rows, past, c, rows2, past2) ==
    \/ Active(rows2) = Active(rows) /\ past2 = past
    \/ \E s \in Spaces \ past : Active(rows2) = {s} /\ past2 = past \cup {s}
    \/ Active(rows) # {} /\ c /\ Active(rows2) = {} /\ past2 = past

PointerMoves(rows, past, c, rows2, past2, c2) ==
    \/ Active(rows2) = Active(rows) /\ past2 = past /\ c2 = c
    \/ \E s \in Spaces \ past :
            Active(rows2) = {s} /\ past2 = past \cup {s} /\ c2 \in BOOLEAN
    \/ Active(rows) # {} /\ c /\ Active(rows2) = {} /\ past2 = past /\ c2 = FALSE

(* Space s becomes active, the active one is retired.                       *)
TakesOver(rows, s, rows2) ==
    /\ rows2[s].status = "active"
    /\ \A x \in Active(rows) : rows2[x].status = "retired"
    /\ \A x \in Spaces \ (Active(rows) \cup {s}) : rows2[x].status = rows[x].status

-----------------------------------------------------------------------------
(* Rows.                                                                    *)

(* The four kinds of row are told apart by their status.                    *)
LEMMA RowFacts ==
    ASSUME NEW r \in AnyRow
    PROVE  /\ r.status \in {"free", "building", "active", "retired", "dropped"}
           /\ r = Free <=> r.status = "free"
           /\ r = Retired <=> r.status = "retired"
           /\ r = Dropped <=> r.status = "dropped"
           /\ r \in Row <=> r.status \in {"building", "active"}
BY DEF AnyRow, Row, Free, Retired, Dropped

(* The unique index leaves at most one active row.                          *)
LEMMA NameIndexFacts ==
    ASSUME NEW rows, NameIndex(rows), NEW a \in Active(rows), NEW b \in Active(rows)
    PROVE  a = b
<1> SUFFICES ASSUME a # b PROVE FALSE
    OBVIOUS
<1>1. IsFiniteSet(Active(rows)) /\ Cardinality(Active(rows)) \in Nat
  <2>1. Active(rows) \subseteq Spaces
    BY DEF Active, WithStatus
  <2>2. QED
    BY <2>1, VectorSpacesAssumption, FS_Subset, FS_CardinalityType
<1>2. IsFiniteSet({a}) /\ Cardinality({a}) = 1
    BY FS_Singleton
<1>3. Cardinality({a} \cup {b}) = 2
  <2>1. b \notin {a}
    OBVIOUS
  <2>2. QED
    BY <1>2, <2>1, FS_AddElement
<1>4. Cardinality({a} \cup {b}) <= Cardinality(Active(rows))
    BY <1>1, FS_Subset
<1>5. QED
    BY <1>1, <1>3, <1>4 DEF NameIndex

(* A change that leaves every status as it was.                             *)
LEMMA SameStatusMoves ==
    ASSUME NEW rows, NEW past, NEW k, Coherent(rows, past, k),
           NEW rows2, \A s \in Spaces : rows2[s].status = rows[s].status
    PROVE  /\ Active(rows2) = Active(rows)
           /\ past \cup Active(rows2) = past
           /\ Coherent(rows2, past, k)
<1>1. Active(rows2) = Active(rows)
    BY DEF Active, WithStatus
<1>2. RowsCoherent(rows2, past) /\ past \cup Active(rows2) = past
    BY <1>1 DEF Coherent, RowsCoherent
<1>3. ASSUME NEW t \in Tasks PROVE TaskCoherent(rows2, past, k[t])
    BY <1>1 DEF Coherent, TaskCoherent
<1>4. QED
    BY <1>1, <1>2, <1>3 DEF Coherent

(* A change of one row that neither was active nor becomes it: it is still  *)
(* what the drops under way rely on.                                        *)
LEMMA QuietMoves ==
    ASSUME NEW rows, NEW past, NEW k, Coherent(rows, past, k),
           NEW rows2, NEW s \in Spaces,
           \A x \in Spaces \ {s} : rows2[x].status = rows[x].status,
           rows[s].status # "active", rows2[s].status \notin {"active", "free"},
           s \in past => rows2[s].status \in {"retired", "dropped"},
           \A t \in Tasks : k[t].at = "drop" /\ k[t].space = s
                => rows2[s].status \in {"retired", "dropped"}
    PROVE  /\ Active(rows2) = Active(rows)
           /\ past \cup Active(rows2) = past
           /\ Coherent(rows2, past, k)
<1>1. Active(rows2) = Active(rows)
    BY DEF Active, WithStatus
<1>2. RowsCoherent(rows2, past) /\ past \cup Active(rows2) = past
    BY <1>1 DEF Coherent, RowsCoherent
<1>3. ASSUME NEW t \in Tasks PROVE TaskCoherent(rows2, past, k[t])
    BY <1>1 DEF Coherent, TaskCoherent, Flipping
<1>4. QED
    BY <1>1, <1>2, <1>3 DEF Coherent

(* The active space is retired or dropped while no flip is under way whose  *)
(* target has served: none is active.                                       *)
LEMMA WithdrawMoves ==
    ASSUME NEW rows, NEW past, NEW k, Coherent(rows, past, k),
           NEW rows2, NEW s \in Active(rows),
           \A x \in Spaces \ {s} : rows2[x].status = rows[x].status,
           rows2[s].status \in {"retired", "dropped"},
           \A u \in Tasks : k[u].at = "flip" => k[u].space \notin past
    PROVE  /\ Active(rows2) = {}
           /\ past \cup Active(rows2) = past
           /\ Coherent(rows2, past, k)
<1>1. Active(rows2) = {}
  <2>1. \A x \in Active(rows) : x = s
    BY DEF Coherent, RowsCoherent
  <2>2. QED
    BY <2>1 DEF Active, WithStatus
<1>2. RowsCoherent(rows2, past) /\ past \cup Active(rows2) = past
    BY <1>1 DEF Coherent, RowsCoherent
<1>3. ASSUME NEW t \in Tasks PROVE TaskCoherent(rows2, past, k[t])
  <2>1. TaskCoherent(rows, past, k[t])
    BY DEF Coherent
  <2>2. \A x \in Spaces : rows2[x].status = rows[x].status
                           \/ rows2[x].status \in {"retired", "dropped"}
    OBVIOUS
  <2>3. QED
    BY <1>1, <2>1, <2>2 DEF TaskCoherent
<1>4. QED
    BY <1>1, <1>2, <1>3 DEF Coherent

(* A space that has not served becomes the active one, and the one that was *)
(* active is retired.                                                       *)
LEMMA ActivationMoves ==
    ASSUME NEW rows, NEW past, NEW k, Coherent(rows, past, k),
           NEW s \in Spaces \ past, NEW rows2, TakesOver(rows, s, rows2)
    PROVE  /\ Active(rows2) = {s}
           /\ past \cup Active(rows2) = past \cup {s}
           /\ Coherent(rows2, past \cup {s}, k)
<1>1. Active(rows) \subseteq past /\ Active(rows) \subseteq Spaces
    BY DEF Coherent, RowsCoherent, Active, WithStatus
<1>2. \A x \in Spaces : rows2[x].status = "active" <=> x = s
    BY <1>1 DEF Active, WithStatus, TakesOver
<1>3. Active(rows2) = {s}
    BY <1>2 DEF Active, WithStatus
<1>4. \A x \in past : rows2[x].status \in {"retired", "dropped"}
    BY <1>1 DEF Coherent, RowsCoherent, Active, WithStatus, TakesOver
<1>5. RowsCoherent(rows2, past \cup {s})
    BY <1>3, <1>4 DEF Coherent, RowsCoherent, TakesOver
<1>6. ASSUME NEW t \in Tasks PROVE TaskCoherent(rows2, past \cup {s}, k[t])
  <2>1. TaskCoherent(rows, past, k[t])
    BY DEF Coherent
  <2>2. k[t].at \in {"provision", "retire", "drop"} \cup Flipping =>
            k[t].space \in Spaces /\ rows2[k[t].space].status # "free"
    BY <2>1, <1>1 DEF TaskCoherent, TakesOver
  <2>3. k[t].at = "flip" =>
            /\ k[t].seen \subseteq past \cup {s}
            /\ Active(rows2) # {}
            /\ k[t].seen \cap Active(rows2) = {}
    BY <2>1, <1>3 DEF TaskCoherent
  <2>4. k[t].at = "drop" => rows2[k[t].space].status \in {"active", "retired", "dropped"}
    BY <2>1, <1>1 DEF TaskCoherent, TakesOver
  <2>5. k[t].at = "remap" => k[t].seen \subseteq (past \cup {s}) \ Active(rows2)
    BY <2>1, <1>3 DEF TaskCoherent
  <2>6. QED
    BY <2>1, <2>2, <2>3, <2>4, <2>5 DEF TaskCoherent
<1>7. QED
    BY <1>3, <1>5, <1>6 DEF Coherent

-----------------------------------------------------------------------------
(* Tasks.                                                                   *)

(* A task moves on, the rows as they are.                                   *)
LEMMA TaskMoves ==
    ASSUME NEW rows, NEW past, NEW k \in [Tasks -> Task \cup {Resting}],
           Coherent(rows, past, k),
           NEW t \in Tasks, NEW n, TaskCoherent(rows, past, n),
           Holds(n) => \A u \in Tasks \ {t} : Proc[u] = Proc[t] => ~Holds(k[u])
    PROVE  Coherent(rows, past, [k EXCEPT ![t] = n])
<1> DEFINE k2 == [k EXCEPT ![t] = n]
<1>1. \A u \in Tasks : k2[u] = IF u = t THEN n ELSE k[u]
    OBVIOUS
<1> HIDE DEF k2
<1>2. TurnsCoherent(k2)
    BY <1>1 DEF Coherent, TurnsCoherent
<1>3. \A u \in Tasks : TaskCoherent(rows, past, k2[u])
    BY <1>1 DEF Coherent
<1>4. QED
    BY <1>2, <1>3 DEF Coherent, k2

(* A task moves on and no space becomes active: what is in hand is as       *)
(* before, unless the task itself takes the active space in hand or is to   *)
(* flip to one that has served.                                             *)
LEMMA HandsMove ==
    ASSUME NEW rows, NEW past, NEW c, NEW k \in [Tasks -> Task \cup {Resting}],
           HandsCoherent(rows, past, k, c),
           NEW t \in Tasks, NEW n,
           TakesAway(n) => n.space \notin Active(rows),
           n.at = "flip" => n.space \notin past
    PROVE  HandsCoherent(rows, past, [k EXCEPT ![t] = n], c)
<1> DEFINE k2 == [k EXCEPT ![t] = n]
<1>1. \A u \in Tasks : k2[u] = IF u = t THEN n ELSE k[u]
    OBVIOUS
<1> HIDE DEF k2
<1>2. HandsCoherent(rows, past, k2, c)
    BY <1>1 DEF HandsCoherent
<1>3. QED
    BY <1>2 DEF k2

(* At rest a task relies on nothing.                                        *)
LEMMA RestingFacts ==
    /\ Resting.at = "rest" /\ Resting.op = "none" /\ ~Holds(Resting)
    /\ \A rows, past : TaskCoherent(rows, past, Resting)
    /\ ~TakesAway(Resting) /\ Resting \notin Task
BY DEF Resting, Holds, TaskCoherent, Flipping, Task, Points, TakesAway

(* An operation that may start finds the event loop free.                   *)
LEMMA StartMoves ==
    ASSUME SpaceInvariant,
           NEW t \in Tasks, NEW op \in Ops, Starts(t, op),
           NEW n \in Task, n.at # "flip", TakesAway(n) => n.space \notin Active(row),
           TaskCoherent(row, served, n),
           Goes(t, n), KeepsRows, UNCHANGED faults
    PROVE  SpaceInvariant'
<1>1. /\ task \in [Tasks -> Task \cup {Resting}]
      /\ task' = [task EXCEPT ![t] = n]
    BY DEF SpaceInvariant, SpaceTypeOK, Goes
<1>2. \A u \in Tasks \ {t} : Proc[u] = Proc[t] => ~Holds(task[u])
    BY DEF Starts, Turn, Holds
<1>3. Coherent(row, served, task')
    BY <1>1, <1>2, TaskMoves DEF SpaceInvariant
<1>4. HandsCoherent(row, served, task', contested)
    BY <1>1, HandsMove DEF SpaceInvariant
<1>5. QED
    BY <1>1, <1>3, <1>4 DEF SpaceInvariant, SpaceTypeOK, KeepsRows

(* An operation under way that holds or is given the event loop goes on or  *)
(* ends, over rows that may have been written in the same step.             *)
LEMMA ContinueMoves ==
    ASSUME SpaceInvariant, NEW t \in Tasks, Holds(task[t]) \/ Turn(t),
           NEW rows, NEW past, Coherent(rows, past, task),
           NEW n \in Task \cup {Resting},
           TaskCoherent(rows, past, n)
    PROVE  Coherent(rows, past, [task EXCEPT ![t] = n])
<1>1. task \in [Tasks -> Task \cup {Resting}]
    BY DEF SpaceInvariant, SpaceTypeOK
<1>2. \A u \in Tasks \ {t} : Proc[u] = Proc[t] => ~Holds(task[u])
    BY DEF SpaceInvariant, Coherent, TurnsCoherent, Turn, Holds
<1>3. QED
    BY <1>1, <1>2, TaskMoves

-----------------------------------------------------------------------------
(* The starts.                                                              *)

(* What an operation begins with.                                           *)
LEMMA BegunFacts ==
    ASSUME NEW op \in Ops, NEW at \in Points \ {"rest"},
           NEW s \in Spaces \cup {"none"}, NEW k \in Keys \cup {"none"}
    PROVE  /\ Begun(op, at, s, k) \in Task
           /\ Begun(op, at, s, k).op = op
           /\ Begun(op, at, s, k).at = at
           /\ Begun(op, at, s, k).space = s
           /\ Begun(op, at, s, k).key = k
           /\ Begun(op, at, s, k).seen = {}
BY DEF Begun, Task

(* Each of the five operations starts from rows it may start from.          *)
LEMMA StartInv ==
    ASSUME SpaceInvariant, NEW t \in Tasks, Start(t)
    PROVE  /\ SpaceInvariant'
           /\ KeepsRows
<1>1. row \in [Spaces -> AnyRow]
    BY DEF SpaceInvariant, SpaceTypeOK, AnyRow
<1>2. ASSUME NEW op \in Ops, NEW at \in {"insert", "embedding"}, NEW k \in Keys,
             op \in {"build", "index"}, Starts(t, op), KeepsRows, UNCHANGED faults,
             Goes(t, Begun(op, at, "none", k))
      PROVE  SpaceInvariant'
  <2> DEFINE n == Begun(op, at, "none", k)
  <2>1. n \in Task /\ n.op = op /\ n.at = at /\ n.key = k
    <3>1. at \in Points \ {"rest"}
      BY DEF Points
    <3>2. QED
      BY <3>1, BegunFacts
  <2> HIDE DEF n
  <2>2. TaskCoherent(row, served, n)
    BY <2>1 DEF TaskCoherent, Flipping
  <2>3. QED
    BY <1>2, <2>1, <2>2, StartMoves DEF n, TakesAway
<1>3. ASSUME NEW op \in {"build", "index"}, NEW s \in Spaces, row[s].status # "free",
             Starts(t, op), KeepsRows, UNCHANGED faults,
             Goes(t, Begun(op, "provision", s, "none"))
      PROVE  SpaceInvariant'
  <2> DEFINE n == Begun(op, "provision", s, "none")
  <2>1. op \in Ops /\ n \in Task /\ n.op = op /\ n.at = "provision" /\ n.space = s
    BY BegunFacts DEF Points, Ops
  <2> HIDE DEF n
  <2>2. TaskCoherent(row, served, n)
    BY <1>3, <2>1 DEF TaskCoherent, Flipping
  <2>3. QED
    BY <1>3, <2>1, <2>2, StartMoves DEF n, TakesAway
<1>4. ASSUME NEW k \in Keys, build_space(t, k) PROVE SpaceInvariant'
  <2>1. \A s \in WithStatus(row, "building") : s \in Spaces /\ row[s].status # "free"
    BY DEF WithStatus
  <2>2. "build" \in Ops
    BY DEF Ops
  <2>3. QED
    BY <1>2, <1>3, <1>4, <2>1, <2>2 DEF build_space
<1>5. ASSUME NEW k \in Keys, prepare(t, k) PROVE SpaceInvariant'
  <2>1. \A s \in Active(row) : s \in Spaces /\ row[s].status # "free"
    BY DEF Active, WithStatus
  <2>2. "index" \in Ops
    BY DEF Ops
  <2>3. QED
    BY <1>2, <1>3, <1>5, <2>1, <2>2 DEF prepare
<1>6. ASSUME NEW s \in Spaces, activate_space(t, s) PROVE SpaceInvariant'
  <2> DEFINE n == Begun("activate", "flip_read", s, row[s].key)
  <2>1. row[s].status = "building" /\ row[s].key \in Keys
    BY <1>1, <1>6, RowFacts DEF activate_space, Row
  <2>2. /\ "activate" \in Ops /\ n \in Task /\ n.op = "activate" /\ n.at = "flip_read"
        /\ n.space = s /\ n.key \in Keys
    <3>1. "activate" \in Ops /\ "flip_read" \in Points \ {"rest"}
      BY DEF Points, Ops
    <3>2. row[s].key \in Keys \cup {"none"} /\ s \in Spaces \cup {"none"}
      BY <2>1
    <3>3. QED
      BY <2>1, <3>1, <3>2, BegunFacts
  <2> HIDE DEF n
  <2>3. TaskCoherent(row, served, n)
    BY <2>1, <2>2 DEF TaskCoherent, Flipping
  <2>4. QED
    BY <1>6, <2>2, <2>3, StartMoves DEF n, activate_space, TakesAway
<1>7. ASSUME NEW s \in Spaces, retire_space(t, s) PROVE SpaceInvariant'
  <2> DEFINE n == Begun("retire", "retire", s, "none")
  <2>1. row[s].status = "building"
    BY <1>7 DEF retire_space
  <2>2. /\ "retire" \in Ops /\ n \in Task /\ n.op = "retire" /\ n.at = "retire"
        /\ n.space = s
    BY BegunFacts DEF Points, Ops
  <2> HIDE DEF n
  <2>3. TaskCoherent(row, served, n) /\ n.space \notin Active(row)
    BY <2>1, <2>2 DEF TaskCoherent, Flipping, Active, WithStatus
  <2>4. QED
    BY <1>7, <2>2, <2>3, StartMoves DEF n, retire_space
<1>8. ASSUME NEW s \in Spaces, drop_space(t, s) PROVE SpaceInvariant'
  <2> DEFINE n == Begun("drop", "drop", s, "none")
  <2>1. row[s].status = "retired"
    BY <1>8 DEF drop_space, Retired
  <2>2. /\ "drop" \in Ops /\ n \in Task /\ n.op = "drop" /\ n.at = "drop" /\ n.space = s
    BY BegunFacts DEF Points, Ops
  <2> HIDE DEF n
  <2>3. TaskCoherent(row, served, n) /\ n.space \notin Active(row)
    BY <2>1, <2>2 DEF TaskCoherent, Flipping, Active, WithStatus
  <2>4. QED
    BY <1>8, <2>2, <2>3, StartMoves DEF n, drop_space
<1>9. KeepsRows
    BY DEF Start, build_space, prepare, activate_space, retire_space, drop_space, KeepsRows
<1>10. QED
    BY <1>4, <1>5, <1>6, <1>7, <1>8, <1>9 DEF Start

-----------------------------------------------------------------------------
(* The steps that leave the rows alone.                                     *)

(* A task at a point that is no await holds the event loop.                 *)
LEMMA HoldsFacts ==
    ASSUME NEW t \in Tasks, task[t].at \notin {"rest", "embedding", "remap"}
    PROVE  Holds(task[t])
BY DEF Holds

(* The end of an operation, whatever ends it.                               *)
LEMMA EndsInv ==
    ASSUME SpaceInvariant, NEW t \in Tasks, Holds(task[t]) \/ Turn(t), Ends(t),
           KeepsRows, faults' \in 0..MaxFaults
    PROVE  SpaceInvariant'
<1>1. task' = [task EXCEPT ![t] = Resting] /\ task' \in [Tasks -> Task \cup {Resting}]
    BY DEF SpaceInvariant, SpaceTypeOK, Ends, Goes
<1>2. Coherent(row, served, task')
    BY <1>1, RestingFacts, ContinueMoves DEF SpaceInvariant
<1>3. HandsCoherent(row, served, task', contested)
    BY <1>1, RestingFacts, HandsMove DEF SpaceInvariant, SpaceTypeOK
<1>4. QED
    BY <1>1, <1>2, <1>3 DEF SpaceInvariant, SpaceTypeOK, KeepsRows

(* The next point of an operation, the rows as they are.                    *)
LEMMA GoesInv ==
    ASSUME SpaceInvariant, NEW t \in Tasks, Holds(task[t]) \/ Turn(t),
           NEW n \in Task, TaskCoherent(row, served, n),
           ~TakesAway(n), n.at = "flip" => n.space \notin served,
           Goes(t, n), KeepsRows, UNCHANGED faults
    PROVE  SpaceInvariant'
<1>1. task' = [task EXCEPT ![t] = n] /\ task' \in [Tasks -> Task \cup {Resting}]
    BY DEF SpaceInvariant, SpaceTypeOK, Goes
<1>2. Coherent(row, served, task')
    BY <1>1, ContinueMoves DEF SpaceInvariant
<1>3. HandsCoherent(row, served, task', contested)
    BY <1>1, HandsMove DEF SpaceInvariant, SpaceTypeOK
<1>4. QED
    BY <1>1, <1>2, <1>3 DEF SpaceInvariant, SpaceTypeOK, KeepsRows

(* What is known of a task that is not at rest.                             *)
LEMMA UnderWay ==
    ASSUME SpaceInvariant, NEW t \in Tasks, task[t].at # "rest"
    PROVE  task[t] \in Task /\ TaskCoherent(row, served, task[t])
BY RestingFacts DEF SpaceInvariant, SpaceTypeOK, Coherent

(* Failures of calls, and an insert without an id.                          *)
LEMMA FailuresInv ==
    ASSUME SpaceInvariant, NEW t \in Tasks,
           \/ ProvisionFails(t) \/ EmbeddingFails(t) \/ InvalidateFails(t)
           \/ OutOfIds(t) \/ Invalidate(t)
    PROVE  SpaceInvariant' /\ KeepsRows
<1>1. /\ Ends(t) /\ KeepsRows
      /\ task[t].at \in {"provision", "insert", "embedding", "remap"}
      /\ task[t].at \in {"embedding", "remap"} => Turn(t)
    BY DEF ProvisionFails, EmbeddingFails, InvalidateFails, OutOfIds, Invalidate, At
<1>2. Holds(task[t]) \/ Turn(t)
    BY <1>1, HoldsFacts
<1>3. faults' = faults \/ (faults < MaxFaults /\ faults' = faults + 1)
    BY DEF ProvisionFails, EmbeddingFails, InvalidateFails, OutOfIds, Invalidate
<1>4. faults' \in 0..MaxFaults
    BY <1>3, VectorSpacesAssumption DEF SpaceInvariant, SpaceTypeOK
<1>5. QED
    BY <1>1, <1>2, <1>4, EndsInv

(* create_space after the embedding call only reads.                        *)
LEMMA CreateSpaceInv ==
    ASSUME SpaceInvariant, NEW t \in Tasks, CreateSpace(t)
    PROVE  SpaceInvariant' /\ KeepsRows
<1>1. /\ task[t].at = "embedding" /\ Turn(t)
      /\ task[t] \in Task /\ TaskCoherent(row, served, task[t])
      /\ KeepsRows /\ UNCHANGED faults
    BY UnderWay DEF CreateSpace, At
<1>2. CASE Goes(t, [task[t] EXCEPT !.at = "insert"])
  <2> DEFINE n == [task[t] EXCEPT !.at = "insert"]
  <2>1. n \in Task /\ n.op = task[t].op /\ n.at = "insert" /\ n.key = task[t].key
    BY <1>1 DEF Task, Points
  <2> HIDE DEF n
  <2>2. TaskCoherent(row, served, n)
    BY <1>1, <2>1 DEF TaskCoherent, Flipping
  <2>3. QED
    BY <1>1, <1>2, <2>1, <2>2, GoesInv DEF n, TakesAway
<1>3. ASSUME NEW s \in Active(row),
             Goes(t, [task[t] EXCEPT !.at = "provision", !.space = s, !.key = "none"])
      PROVE  SpaceInvariant'
  <2> DEFINE n == [task[t] EXCEPT !.at = "provision", !.space = s, !.key = "none"]
  <2>1. s \in Spaces /\ row[s].status # "free"
    BY DEF Active, WithStatus
  <2>2. n \in Task /\ n.op = task[t].op /\ n.at = "provision" /\ n.space = s
    BY <1>1, <2>1 DEF Task, Points
  <2> HIDE DEF n
  <2>3. TaskCoherent(row, served, n)
    BY <2>1, <2>2 DEF TaskCoherent, Flipping
  <2>4. QED
    BY <1>1, <1>3, <2>2, <2>3, GoesInv DEF n, TakesAway
<1>4. CASE Ends(t)
    BY <1>1, <1>4, EndsInv DEF SpaceInvariant, SpaceTypeOK
<1>5. QED
    BY <1>1, <1>2, <1>3, <1>4 DEF CreateSpace

(* The second session of an activation has read the rows of the name.       *)
LEMMA FlipReadInv ==
    ASSUME SpaceInvariant, NEW t \in Tasks, FlipRead(t)
    PROVE  SpaceInvariant' /\ KeepsRows
<1>1. /\ task[t].at = "flip_read" /\ task[t].op = "activate" /\ Holds(task[t])
      /\ task[t] \in Task /\ TaskCoherent(row, served, task[t])
      /\ KeepsRows /\ UNCHANGED faults
    BY UnderWay DEF FlipRead, At, Holds
<1>2. CASE row[task[t].space].status = "building"
  <2> DEFINE n == [task[t] EXCEPT !.at = "flip", !.seen = Active(row)]
  <2>1. Active(row) \in SUBSET Spaces
    BY DEF Active, WithStatus
  <2>2. /\ n \in Task /\ n.op = task[t].op /\ n.at = "flip" /\ n.seen = Active(row)
        /\ n.space = task[t].space /\ n.key = task[t].key
    BY <1>1, <2>1 DEF Task, Points
  <2>3. Goes(t, n)
    BY <1>2 DEF FlipRead
  <2> HIDE DEF n
  <2>4. /\ n.space \in Spaces /\ n.space \notin served /\ n.space \notin Active(row)
        /\ row[n.space].status # "free"
    BY <1>1, <1>2, <2>2
       DEF TaskCoherent, Flipping, SpaceInvariant, Coherent, RowsCoherent, Active, WithStatus
  <2>5. Active(row) \subseteq served
    BY DEF SpaceInvariant, Coherent, RowsCoherent
  <2>6. TaskCoherent(row, served, n)
    BY <1>1, <1>2, <2>2, <2>4, <2>5 DEF TaskCoherent, Flipping
  <2>7. QED
    BY <1>1, <2>2, <2>3, <2>4, <2>6, GoesInv DEF TakesAway
<1>3. CASE row[task[t].space].status # "building"
    BY <1>1, <1>3, EndsInv DEF FlipRead, SpaceInvariant, SpaceTypeOK
<1>4. QED
    BY <1>1, <1>2, <1>3

(* A dead process relies on nothing any more.                               *)
LEMMA CrashInv ==
    ASSUME SpaceInvariant, NEW p \in {"app", "cli"}, Crash(p)
    PROVE  SpaceInvariant' /\ KeepsRows
<1> DEFINE dead == {t \in Tasks : Proc[t] = p}
<1>1. /\ task' = [t \in Tasks |-> IF t \in dead THEN Resting ELSE task[t]]
      /\ faults < MaxFaults /\ faults' = faults + 1
      /\ KeepsRows
    BY DEF Crash
<1>2. SpaceTypeOK'
  <2>1. faults + 1 \in 0..MaxFaults
    BY <1>1, VectorSpacesAssumption DEF SpaceInvariant, SpaceTypeOK
  <2>2. QED
    BY <1>1, <2>1 DEF SpaceInvariant, SpaceTypeOK, KeepsRows
<1>3. \A t \in Tasks : task'[t] \in {task[t], Resting}
    BY <1>1
<1>4. TurnsCoherent(task')
    BY <1>3, RestingFacts DEF SpaceInvariant, Coherent, TurnsCoherent
<1>5. \A t \in Tasks : TaskCoherent(row, served, task'[t])
    BY <1>3, RestingFacts DEF SpaceInvariant, Coherent
<1>6. HandsCoherent(row, served, task', contested)
    BY <1>3, RestingFacts DEF SpaceInvariant, HandsCoherent
<1>7. QED
    BY <1>1, <1>2, <1>4, <1>5, <1>6 DEF SpaceInvariant, Coherent, KeepsRows

-----------------------------------------------------------------------------
(* The steps that write rows.                                               *)

(* An activation is contested if the space is in hand, and the writer and   *)
(* the one that has it in hand leave no process for a flip.                 *)
LEMMA ContestedMoves ==
    ASSUME SpaceInvariant, NEW t \in Tasks, Holds(task[t]),
           NEW rows, Writes(rows), NEW s \in Spaces \ served, Active(rows) = {s},
           NEW n, ~TakesAway(n), n.at # "flip"
    PROVE  HandsCoherent(rows, served', [task EXCEPT ![t] = n], contested')
<1> DEFINE k2 == [task EXCEPT ![t] = n]
<1>1. \A u \in Tasks : k2[u] = IF u = t THEN n ELSE task[u]
    BY DEF SpaceInvariant, SpaceTypeOK
<1> HIDE DEF k2
<1> SUFFICES ASSUME NEW v \in Tasks, TakesAway(k2[v]), k2[v].space \in Active(rows)
             PROVE  contested' /\ \A u \in Tasks : k2[u].at = "flip" => k2[u].space \notin served'
    BY DEF HandsCoherent, k2
<1>2. v # t /\ TakesAway(task[v]) /\ task[v].space = s
    BY <1>1
<1>3. contested'
  <2>1. Active(rows) # Active(row)
    BY DEF SpaceInvariant, Coherent, RowsCoherent
  <2>2. InHand(s)
    BY <1>2 DEF InHand, TakesAway
  <2>3. QED
    BY <2>1, <2>2 DEF Writes
<1>4. ASSUME NEW u \in Tasks, k2[u].at = "flip" PROVE FALSE
  <2>1. u # t /\ u # v /\ Holds(task[u]) /\ Holds(task[v])
    BY <1>1, <1>2, <1>4 DEF TakesAway, Holds
  <2>2. Proc[t] \in {"app", "cli"} /\ Proc[u] \in {"app", "cli"} /\ Proc[v] \in {"app", "cli"}
    BY VectorSpacesAssumption
  <2>3. QED
    BY <1>2, <2>1, <2>2 DEF SpaceInvariant, Coherent, TurnsCoherent
<1>5. QED
    BY <1>3, <1>4

(* A write that keeps the rows coherent with the tasks, and the writer's    *)
(* next point.                                                              *)
LEMMA WritesInv ==
    ASSUME SpaceInvariant, NEW t \in Tasks, Holds(task[t]),
           NEW rows \in [Spaces -> AnyRow], Writes(rows),
           Coherent(rows, served \cup Active(rows), task),
           RowsMove(row, served, contested, rows, served \cup Active(rows)),
           NEW n \in Task \cup {Resting}, ~TakesAway(n), n.at # "flip",
           TaskCoherent(rows, served \cup Active(rows), n),
           Goes(t, n), UNCHANGED faults
    PROVE  SpaceInvariant' /\ PointerMoves(row, served, contested, row', served', contested')
<1>1. row' = rows /\ served' = served \cup Active(rows) /\ task' = [task EXCEPT ![t] = n]
    BY DEF Writes, Goes
<1>2. Coherent(row', served', task')
    BY <1>1, ContinueMoves
<1>3. Active(rows) \subseteq Spaces
    BY DEF Active, WithStatus
<1>4. contested' \in BOOLEAN
    BY DEF Writes, SpaceInvariant, SpaceTypeOK
<1>5. SpaceTypeOK'
    BY <1>1, <1>3, <1>4 DEF SpaceInvariant, SpaceTypeOK, AnyRow
<1>6. CASE Active(rows) = Active(row) /\ served' = served
  <2>1. contested' = contested
    BY <1>6 DEF Writes
  <2>2. HandsCoherent(row, served, [task EXCEPT ![t] = n], contested)
    BY HandsMove DEF SpaceInvariant, SpaceTypeOK
  <2>3. HandsCoherent(row', served', task', contested')
    BY <1>1, <1>6, <2>1, <2>2 DEF HandsCoherent
  <2>4. QED
    BY <1>1, <1>2, <1>5, <1>6, <2>1, <2>3 DEF SpaceInvariant, PointerMoves
<1>7. ASSUME NEW s \in Spaces \ served, Active(rows) = {s}, served' = served \cup {s}
      PROVE  SpaceInvariant' /\ PointerMoves(row, served, contested, row', served', contested')
  <2>1. HandsCoherent(row', served', task', contested')
    BY <1>1, <1>7, ContestedMoves
  <2>2. QED
    BY <1>1, <1>2, <1>4, <1>5, <1>7, <2>1 DEF SpaceInvariant, PointerMoves
<1>8. CASE Active(row) # {} /\ contested /\ Active(rows) = {} /\ served' = served
  <2>1. contested' = FALSE
    BY <1>8 DEF Writes
  <2>2. HandsCoherent(row', served', task', contested')
    BY <1>1, <1>8 DEF HandsCoherent
  <2>3. QED
    BY <1>1, <1>2, <1>5, <1>8, <2>1, <2>2 DEF SpaceInvariant, PointerMoves
<1>9. QED
    BY <1>1, <1>6, <1>7, <1>8 DEF RowsMove

(* A free id is one of the rows, and has not served.                        *)
LEMMA FreshFacts ==
    ASSUME SpaceInvariant, HasFreshId
    PROVE  /\ FreshId \in Spaces \ served
           /\ row[FreshId].status = "free"
<1>1. FreshId \in Spaces /\ row[FreshId] = Free
    BY DEF FreshId, HasFreshId
<1>2. row[FreshId].status = "free"
    BY <1>1 DEF Free
<1>3. QED
    BY <1>1, <1>2 DEF SpaceInvariant, Coherent, RowsCoherent

(* An inserted row goes on to be provisioned.                               *)
LEMMA InsertedFacts ==
    ASSUME NEW k \in Task, NEW s \in Spaces, NEW rows, NEW past,
           rows[s].status # "free"
    PROVE  LET n == [k EXCEPT !.at = "provision", !.space = s, !.key = "none"]
           IN  /\ n \in Task /\ TaskCoherent(rows, past, n)
               /\ ~TakesAway(n) /\ n.at # "flip"
<1> DEFINE n == [k EXCEPT !.at = "provision", !.space = s, !.key = "none"]
<1>1. n \in Task /\ n.at = "provision" /\ n.space = s
    BY DEF Task, Points
<1> HIDE DEF n
<1>2. TaskCoherent(rows, past, n)
    BY <1>1 DEF TaskCoherent, Flipping
<1>3. QED
    BY <1>1, <1>2 DEF n, TakesAway

(* A new building row is nobody's yet.                                      *)
LEMMA BuildInsertInv ==
    ASSUME SpaceInvariant, NEW t \in Tasks, BuildInsert(t)
    PROVE  SpaceInvariant' /\ PointerMoves(row, served, contested, row', served', contested')
<1> DEFINE s == FreshId
           new == NewRow("building", task[t].key)
           rows == [row EXCEPT ![s] = new]
           n == [task[t] EXCEPT !.at = "provision", !.space = s, !.key = "none"]
<1>1. /\ task[t].at = "insert" /\ Holds(task[t]) /\ task[t] \in Task
      /\ task[t].key \in Keys /\ s \in Spaces \ served /\ row[s].status = "free"
    BY UnderWay, FreshFacts DEF BuildInsert, At, Holds, TaskCoherent
<1>2. new \in AnyRow /\ new.status = "building"
    BY <1>1 DEF NewRow, AnyRow, Row
<1>3. Writes(rows) /\ Goes(t, n) /\ UNCHANGED faults
    BY DEF BuildInsert
<1> HIDE DEF s, new
<1>4. /\ rows \in [Spaces -> AnyRow] /\ rows[s].status = "building"
      /\ \A x \in Spaces \ {s} : rows[x] = row[x]
    BY <1>1, <1>2 DEF SpaceInvariant, SpaceTypeOK, AnyRow
<1> HIDE DEF rows
<1>5. \A u \in Tasks : TaskCoherent(row, served, task[u])
    BY DEF SpaceInvariant, Coherent
<1>6. /\ Active(rows) = Active(row) /\ served \cup Active(rows) = served
      /\ Coherent(rows, served, task)
    BY <1>1, <1>4, <1>5, QuietMoves DEF SpaceInvariant, TaskCoherent
<1>7. n \in Task /\ TaskCoherent(rows, served, n) /\ ~TakesAway(n) /\ n.at # "flip"
    BY <1>1, <1>4, InsertedFacts
<1> HIDE DEF n
<1>8. QED
    BY <1>1, <1>3, <1>4, <1>6, <1>7, WritesInv DEF RowsMove

(* Provisioning changes no status.                                          *)
LEMMA ProvisionInv ==
    ASSUME SpaceInvariant, NEW t \in Tasks, Provision(t)
    PROVE  SpaceInvariant' /\ PointerMoves(row, served, contested, row', served', contested')
<1> DEFINE s == task[t].space
           rows == [row EXCEPT ![s].index = TRUE]
<1>1. /\ task[t].at = "provision" /\ Holds(task[t]) /\ task[t] \in Task
      /\ s \in Spaces /\ row[s].status # "free" /\ Ends(t) /\ UNCHANGED faults
      /\ row \in [Spaces -> AnyRow]
    BY UnderWay DEF Provision, Holds, TaskCoherent, SpaceInvariant, SpaceTypeOK, AnyRow
<1>2. CASE row[s] \in {Retired, Dropped}
  <2>1. KeepsRows /\ UNCHANGED faults
    BY <1>2 DEF Provision, KeepsRows
  <2>2. QED
    BY <1>1, <2>1, EndsInv DEF SpaceInvariant, SpaceTypeOK, PointerMoves, KeepsRows
<1>3. CASE row[s] \notin {Retired, Dropped}
  <2>1. row[s] \in Row
    BY <1>1, <1>3, RowFacts
  <2>2. Writes(rows)
    BY <1>3 DEF Provision
  <2>3. rows \in [Spaces -> AnyRow] /\ \A x \in Spaces : rows[x].status = row[x].status
    BY <1>1, <2>1 DEF AnyRow, Row
  <2> HIDE DEF rows
  <2>4. /\ Active(rows) = Active(row) /\ served \cup Active(rows) = served
        /\ Coherent(rows, served, task)
    BY <2>3, SameStatusMoves DEF SpaceInvariant
  <2>5. QED
    BY <1>1, <2>2, <2>3, <2>4, RestingFacts, WritesInv DEF RowsMove, Ends
<1>4. QED
    BY <1>2, <1>3

(* The unique index lets a first space in only where none is active.        *)
LEMMA CreateInsertInv ==
    ASSUME SpaceInvariant, NEW t \in Tasks, CreateInsert(t)
    PROVE  SpaceInvariant' /\ PointerMoves(row, served, contested, row', served', contested')
<1> DEFINE s == FreshId
           new == NewRow("active", task[t].key)
           rows == [row EXCEPT ![s] = new]
           n == [task[t] EXCEPT !.at = "provision", !.space = s, !.key = "none"]
<1>1. /\ task[t].at = "insert" /\ Holds(task[t]) /\ task[t] \in Task
      /\ task[t].key \in Keys /\ s \in Spaces \ served /\ row[s].status = "free"
      /\ UNCHANGED faults
    BY UnderWay, FreshFacts DEF CreateInsert, At, Holds, TaskCoherent
<1>2. CASE NameIndex(rows)
  <2>1. new \in AnyRow /\ new.status = "active"
    BY <1>1 DEF NewRow, AnyRow, Row
  <2>2. Writes(rows) /\ Goes(t, n)
    BY <1>2 DEF CreateInsert
  <2> HIDE DEF s, new
  <2>3. /\ rows \in [Spaces -> AnyRow] /\ rows[s].status = "active"
        /\ \A x \in Spaces \ {s} : rows[x] = row[x]
    BY <1>1, <2>1 DEF SpaceInvariant, SpaceTypeOK, AnyRow
  <2> HIDE DEF rows
  <2>4. \A x \in Active(row) : x # s /\ x \in Active(rows)
    BY <1>1, <2>3 DEF Active, WithStatus
  <2>5. Active(row) = {}
    BY <1>1, <1>2, <2>3, <2>4, NameIndexFacts DEF Active, WithStatus
  <2>6. /\ Active(rows) = {s} /\ served \cup Active(rows) = served \cup {s}
        /\ Coherent(rows, served \cup {s}, task)
    <3>1. \A x \in Active(row) : rows[x].status = "retired"
      BY <2>5
    <3>2. \A x \in Spaces \ (Active(row) \cup {s}) : rows[x].status = row[x].status
      BY <2>3
    <3>3. Coherent(row, served, task)
      BY DEF SpaceInvariant
    <3>4. TakesOver(row, s, rows)
      BY <2>3, <3>1, <3>2 DEF TakesOver
    <3>5. QED
      BY <1>1, <3>3, <3>4, ActivationMoves
  <2>7. n \in Task /\ TaskCoherent(rows, served \cup {s}, n) /\ ~TakesAway(n) /\ n.at # "flip"
    BY <1>1, <2>3, InsertedFacts
  <2> HIDE DEF n
  <2>8. RowsMove(row, served, contested, rows, served \cup Active(rows))
    BY <1>1, <2>6 DEF RowsMove
  <2>9. QED
    BY <1>1, <2>2, <2>3, <2>6, <2>7, <2>8, WritesInv
<1>3. CASE ~NameIndex(rows)
  <2>1. Ends(t) /\ KeepsRows
    BY <1>3 DEF CreateInsert
  <2>2. QED
    BY <1>1, <2>1, EndsInv DEF SpaceInvariant, SpaceTypeOK, PointerMoves, KeepsRows
<1>4. QED
    BY <1>2, <1>3

(* A target that is taken away and active was contested, and no flip is     *)
(* under way whose target has served: none is active then.  Otherwise       *)
(* readers notice nothing.                                                  *)
LEMMA TakenAway ==
    ASSUME SpaceInvariant, NEW t \in Tasks, TakesAway(task[t]), NEW r \in {Retired, Dropped},
           Writes([row EXCEPT ![task[t].space] = r]), Ends(t), UNCHANGED faults
    PROVE  SpaceInvariant' /\ PointerMoves(row, served, contested, row', served', contested')
<1> DEFINE s == task[t].space
           rows == [row EXCEPT ![s] = r]
<1>1. /\ Holds(task[t]) /\ s \in Spaces /\ row[s].status # "free"
      /\ row \in [Spaces -> AnyRow]
    BY UnderWay DEF TakesAway, Holds, TaskCoherent, SpaceInvariant, SpaceTypeOK, AnyRow
<1>2. r \in AnyRow /\ r.status \in {"retired", "dropped"}
    BY DEF AnyRow, Retired, Dropped
<1>3. /\ rows \in [Spaces -> AnyRow] /\ rows[s].status \in {"retired", "dropped"}
      /\ \A x \in Spaces \ {s} : rows[x] = row[x]
    BY <1>1, <1>2
<1>4. Writes(rows)
    OBVIOUS
<1> HIDE DEF rows
<1>5. Coherent(row, served, task)
    BY DEF SpaceInvariant
<1>6. /\ Coherent(rows, served \cup Active(rows), task)
      /\ RowsMove(row, served, contested, rows, served \cup Active(rows))
  <2>1. CASE s \in Active(row)
    <3>1. contested /\ \A u \in Tasks : task[u].at = "flip" => task[u].space \notin served
      BY <2>1 DEF SpaceInvariant, HandsCoherent
    <3>2. /\ Active(rows) = {} /\ served \cup Active(rows) = served
          /\ Coherent(rows, served, task)
      BY <1>3, <1>5, <2>1, <3>1, WithdrawMoves
    <3>3. QED
      BY <2>1, <3>1, <3>2 DEF RowsMove
  <2>2. CASE s \notin Active(row)
    <3>1. /\ Active(rows) = Active(row) /\ served \cup Active(rows) = served
          /\ Coherent(rows, served, task)
      BY <1>1, <1>3, <1>5, <2>2, QuietMoves DEF Active, WithStatus
    <3>2. QED
      BY <3>1 DEF RowsMove
  <2>3. QED
    BY <2>1, <2>2
<1>7. QED
    BY <1>1, <1>3, <1>4, <1>6, RestingFacts, WritesInv DEF Ends

(* A retire writes a row that is not dropped, whatever became of it.        *)
LEMMA RetireCommitInv ==
    ASSUME SpaceInvariant, NEW t \in Tasks, RetireCommit(t)
    PROVE  SpaceInvariant' /\ PointerMoves(row, served, contested, row', served', contested')
<1>1. task[t].at = "retire" /\ Holds(task[t]) /\ TakesAway(task[t]) /\ Ends(t) /\ UNCHANGED faults
    BY DEF RetireCommit, At, Holds, TakesAway
<1>2. CASE row[task[t].space] = Dropped
  <2>1. KeepsRows
    BY <1>2 DEF RetireCommit
  <2>2. QED
    BY <1>1, <2>1, EndsInv DEF SpaceInvariant, SpaceTypeOK, PointerMoves, KeepsRows
<1>3. CASE row[task[t].space] # Dropped
    BY <1>1, <1>3, TakenAway DEF RetireCommit
<1>4. QED
    BY <1>2, <1>3

(* A drop writes its row whatever became of it.                             *)
LEMMA DropCommitInv ==
    ASSUME SpaceInvariant, NEW t \in Tasks, DropCommit(t)
    PROVE  SpaceInvariant' /\ PointerMoves(row, served, contested, row', served', contested')
BY TakenAway DEF DropCommit, At, TakesAway

(* A cutover goes straight from the active space to a new one, or changes   *)
(* nothing: of a space that was activated meanwhile and replaced again the  *)
(* unique index refuses the second activation.                              *)
LEMMA FlippedMoves ==
    ASSUME SpaceInvariant, NEW t \in Tasks, At(t, "activate", "flip"), ~Refused(t)
    PROVE  /\ Flipped(t) \in [Spaces -> AnyRow]
           /\ Coherent(Flipped(t), served \cup Active(Flipped(t)), task)
           /\ RowsMove(row, served, contested, Flipped(t), served \cup Active(Flipped(t)))
           /\ task[t].seen \subseteq served \ Active(Flipped(t))
<1> DEFINE s == task[t].space
           seen == task[t].seen
           target == [status |-> "active", key |-> task[t].key, index |-> TRUE]
           rows == Flipped(t)
<1>1. /\ Holds(task[t]) /\ task[t] \in Task /\ TaskCoherent(row, served, task[t])
      /\ row \in [Spaces -> AnyRow]
    BY UnderWay DEF At, Holds, SpaceInvariant, SpaceTypeOK, AnyRow
<1>2. /\ s \in Spaces /\ seen \subseteq served /\ s \notin seen /\ task[t].key \in Keys
      /\ s \in served => Active(row) # {} /\ seen \cap Active(row) = {}
    BY <1>1 DEF At, TaskCoherent, Flipping
<1>3. target \in AnyRow /\ target.status = "active" /\ Retired \in AnyRow
      /\ Retired.status = "retired"
    BY <1>2 DEF AnyRow, Row, Retired
<1>4. \A x \in Spaces : rows[x] = IF x = s THEN target
                                  ELSE IF x \in seen THEN Retired ELSE row[x]
    BY DEF Flipped
<1>5. rows \in [Spaces -> AnyRow]
  <2> HIDE DEF target
  <2>1. \A x \in Spaces : rows[x] \in AnyRow
    BY <1>1, <1>3, <1>4
  <2>2. QED
    BY <2>1 DEF Flipped
<1>6. NameIndex(rows) /\ \A x \in seen \cup {s} : row[x] # Dropped
    BY DEF Refused
<1> HIDE DEF rows, target
<1>7. s \in Active(rows)
    BY <1>2, <1>3, <1>4 DEF Active, WithStatus
<1>8. \A x \in Active(row) : x # s => x \in seen
  <2> SUFFICES ASSUME NEW x \in Active(row), x # s, x \notin seen PROVE FALSE
    OBVIOUS
  <2>1. x \in Active(rows)
    BY <1>4 DEF Active, WithStatus
  <2>2. QED
    BY <1>6, <1>7, <2>1, NameIndexFacts
<1>9. \A x \in seen : x \in Spaces /\ row[x].status \in {"active", "retired"}
    BY <1>1, <1>2, <1>6, RowFacts DEF SpaceInvariant, Coherent, RowsCoherent
<1>10. seen \subseteq served \ Active(rows)
    BY <1>2, <1>3, <1>4, <1>9 DEF Active, WithStatus
<1>11. CASE s \in served
  <2>1. s \in Active(row)
    BY <1>2, <1>8, <1>11 DEF SpaceInvariant, Coherent, RowsCoherent
  <2>2. \A x \in Spaces : rows[x].status = row[x].status
    BY <1>2, <1>3, <1>4, <1>9, <1>11, <2>1 DEF Active, WithStatus
  <2>3. /\ Active(rows) = Active(row) /\ served \cup Active(rows) = served
        /\ Coherent(rows, served, task)
    BY <2>2, SameStatusMoves DEF SpaceInvariant
  <2>4. QED
    BY <1>5, <1>10, <2>3 DEF RowsMove, rows
<1>12. CASE s \notin served
  <2>1. s \notin Active(row) /\ rows[s].status = "active"
    BY <1>2, <1>3, <1>4, <1>12 DEF SpaceInvariant, Coherent, RowsCoherent
  <2>2. \A x \in Active(row) : rows[x].status = "retired"
    BY <1>3, <1>4, <1>8, <1>9, <2>1
  <2>3. \A x \in Spaces \ (Active(row) \cup {s}) : rows[x].status = row[x].status
    BY <1>3, <1>4, <1>9 DEF Active, WithStatus
  <2>4. TakesOver(row, s, rows)
    BY <2>1, <2>2, <2>3 DEF TakesOver
  <2>5. Coherent(row, served, task) /\ s \in Spaces \ served
    BY <1>2, <1>12 DEF SpaceInvariant
  <2>6. /\ Active(rows) = {s} /\ served \cup Active(rows) = served \cup {s}
        /\ Coherent(rows, served \cup {s}, task)
    BY <2>4, <2>5, ActivationMoves
  <2>7. QED
    BY <1>2, <1>5, <1>10, <1>12, <2>6 DEF RowsMove, rows
<1>13. QED
    BY <1>11, <1>12

(* The flip of an activation.                                               *)
LEMMA FlipInv ==
    ASSUME SpaceInvariant, NEW t \in Tasks, Flip(t)
    PROVE  SpaceInvariant' /\ PointerMoves(row, served, contested, row', served', contested')
<1> DEFINE n == [task[t] EXCEPT !.at = "remap"]
           rows == Flipped(t)
<1>1. /\ task[t].at = "flip" /\ Holds(task[t]) /\ task[t] \in Task /\ UNCHANGED faults
      /\ At(t, "activate", "flip")
    BY UnderWay DEF Flip, At, Holds
<1>2. CASE Refused(t)
  <2>1. Ends(t) /\ KeepsRows
    BY <1>2 DEF Flip
  <2>2. QED
    BY <1>1, <2>1, EndsInv DEF SpaceInvariant, SpaceTypeOK, PointerMoves, KeepsRows
<1>3. CASE ~Refused(t)
  <2>1. Writes(rows) /\ (Ends(t) \/ Goes(t, n))
    BY <1>3 DEF Flip
  <2>2. n \in Task /\ n.at = "remap" /\ n.seen = task[t].seen
    BY <1>1 DEF Task, Points
  <2> HIDE DEF n
  <2>3. /\ rows \in [Spaces -> AnyRow]
        /\ Coherent(rows, served \cup Active(rows), task)
        /\ RowsMove(row, served, contested, rows, served \cup Active(rows))
        /\ task[t].seen \subseteq served \ Active(rows)
    BY <1>1, <1>3, FlippedMoves
  <2> HIDE DEF rows
  <2>4. TaskCoherent(rows, served \cup Active(rows), n) /\ ~TakesAway(n) /\ n.at # "flip"
    BY <2>2, <2>3 DEF TaskCoherent, Flipping, TakesAway
  <2>5. CASE Goes(t, n)
    BY <1>1, <2>1, <2>2, <2>3, <2>4, <2>5, WritesInv
  <2>6. CASE Ends(t)
    BY <1>1, <2>1, <2>3, <2>6, RestingFacts, WritesInv DEF Ends
  <2>7. QED
    BY <2>1, <2>5, <2>6
<1>4. QED
    BY <1>2, <1>3

-----------------------------------------------------------------------------

(* The name starts with no rows and no tasks.                               *)
LEMMA InitInv == Init => SpaceInvariant
<1> SUFFICES ASSUME Init PROVE SpaceInvariant
    OBVIOUS
<1>1. SpaceTypeOK
  <2>1. faults \in 0..MaxFaults
    BY VectorSpacesAssumption DEF Init
  <2>2. row \in [Spaces -> Row \cup {Free, Retired, Dropped}]
    BY DEF Init
  <2>3. task \in [Tasks -> Task \cup {Resting}]
    BY DEF Init
  <2>4. QED
    BY <2>1, <2>2, <2>3 DEF Init, SpaceTypeOK
<1>2. Active(row) = {}
    BY DEF Init, Active, WithStatus, Free
<1>3. RowsCoherent(row, served)
    BY <1>2 DEF Init, RowsCoherent
<1>4. TurnsCoherent(task) /\ \A t \in Tasks : TaskCoherent(row, served, task[t])
    BY RestingFacts DEF Init, TurnsCoherent
<1>5. HandsCoherent(row, served, task, contested)
    BY <1>2 DEF HandsCoherent
<1>6. QED
    BY <1>1, <1>3, <1>4, <1>5 DEF SpaceInvariant, Coherent

(* Every step keeps the invariant, and moves the pointer as promised.       *)
LEMMA NextInv ==
    ASSUME SpaceInvariant, [Next]_vars
    PROVE  SpaceInvariant' /\ PointerMoves(row, served, contested, row', served', contested')
<1>1. KeepsRows => PointerMoves(row, served, contested, row', served', contested')
    BY DEF PointerMoves, KeepsRows
<1>2. ASSUME NEW t \in Tasks, Start(t)
      PROVE  SpaceInvariant' /\ PointerMoves(row, served, contested, row', served', contested')
    BY <1>1, <1>2, StartInv
<1>3. ASSUME NEW t \in Tasks, Continue(t)
      PROVE  SpaceInvariant' /\ PointerMoves(row, served, contested, row', served', contested')
    BY <1>1, <1>3, BuildInsertInv, FailuresInv, ProvisionInv, CreateSpaceInv, CreateInsertInv,
       FlipReadInv, FlipInv, RetireCommitInv, DropCommitInv
       DEF Continue
<1>4. ASSUME NEW t \in Tasks, ProvisionFails(t) \/ EmbeddingFails(t) \/ InvalidateFails(t)
      PROVE  SpaceInvariant' /\ PointerMoves(row, served, contested, row', served', contested')
    BY <1>1, <1>4, FailuresInv
<1>5. ASSUME NEW p \in {"app", "cli"}, Crash(p)
      PROVE  SpaceInvariant' /\ PointerMoves(row, served, contested, row', served', contested')
    BY <1>1, <1>5, CrashInv
<1>6. CASE UNCHANGED vars
  <2>1. KeepsRows /\ UNCHANGED <<task, faults>>
    BY <1>6 DEF vars, KeepsRows
  <2>2. QED
    BY <1>1, <2>1 DEF SpaceInvariant, SpaceTypeOK, KeepsRows
<1>7. QED
    BY <1>2, <1>3, <1>4, <1>5, <1>6 DEF Next

(* The rows and the tasks keep their types, and at most one space of the    *)
(* name is active.                                                          *)
THEOREM SpaceTypes == Spec => []SpaceTypeOK
<1>1. SpaceInvariant => SpaceTypeOK
    BY DEF SpaceInvariant
<1>2. SpaceInvariant /\ [Next]_vars => SpaceInvariant'
    BY NextInv
<1>3. QED
    BY <1>1, <1>2, InitInv, PTL DEF Spec

(* The remap hook is called for what a committed flip has replaced, and for *)
(* nothing that serves: what was replaced never serves again.               *)
THEOREM RemapsReplacedHolds == Spec => []RemapsReplaced
<1>1. SpaceInvariant => RemapsReplaced
    BY DEF SpaceInvariant, Coherent, TaskCoherent, RemapsReplaced, At
<1>2. SpaceInvariant /\ [Next]_vars => SpaceInvariant'
    BY NextInv
<1>3. QED
    BY <1>1, <1>2, InitInv, PTL DEF Spec

(* The life cycle implements the active pointer: a name that is served is   *)
(* served from one space at every moment, none that was replaced serves     *)
(* again, and readers are left without only when the space was activated    *)
(* while a retire or a drop of the other process had it in hand.            *)
THEOREM ServesOnHolds == Spec => ServesOn
<1>1. Init => Pointer!Init
    BY DEF Init, Pointer!Init, Active, WithStatus, Free
<1>2. SpaceInvariant /\ [Next]_vars => SpaceInvariant'
    BY NextInv
<1>3. SpaceInvariant /\ [Next]_vars
        => [Pointer!Next]_<<Active(row), served \ Active(row), contested>>
  <2> SUFFICES ASSUME SpaceInvariant, [Next]_vars
               PROVE  [Pointer!Next]_<<Active(row), served \ Active(row), contested>>
    OBVIOUS
  <2>1. Active(row) \subseteq served
    BY DEF SpaceInvariant, Coherent, RowsCoherent
  <2>2. PointerMoves(row, served, contested, row', served', contested')
    BY NextInv
  <2>3. Active(row)' = Active(row')
    BY DEF Active, WithStatus
  <2>4. CASE Active(row') = Active(row) /\ served' = served /\ contested' = contested
    BY <2>3, <2>4
  <2>5. ASSUME NEW s \in Spaces \ served,
               Active(row') = {s}, served' = served \cup {s}, contested' \in BOOLEAN
        PROVE  Pointer!Switch(s)
    <3>1. s \notin Active(row) \cup (served \ Active(row))
      BY <2>1
    <3>2. Active(row)' = {s}
      BY <2>3, <2>5
    <3>3. (served \ Active(row))' = (served \ Active(row)) \cup Active(row)
      BY <2>1, <2>5, <3>2
    <3>4. QED
      BY <2>5, <3>1, <3>2, <3>3 DEF Pointer!Switch
  <2>6. CASE /\ Active(row) # {} /\ contested /\ Active(row') = {}
             /\ served' = served /\ contested' = FALSE
    <3>1. Active(row)' = {}
      BY <2>3, <2>6
    <3>2. (served \ Active(row))' = (served \ Active(row)) \cup Active(row)
      BY <2>1, <2>6, <3>1
    <3>3. QED
      BY <2>6, <3>1, <3>2 DEF Pointer!Next, Pointer!Withdraw
  <2>7. QED
    BY <2>2, <2>4, <2>5, <2>6 DEF PointerMoves, Pointer!Next
<1>4. QED
    BY <1>1, <1>2, <1>3, InitInv, PTL DEF Spec, ServesOn, Pointer!Spec
=============================================================================
