------------------------- MODULE NotificationsProofs -------------------------
(* The safety of the notification funnel, for every set of alerts, emitters *)
(* and rows, every number of attempts and of faults.                        *)
EXTENDS Notifications, TLAPS

USE DEF NoKey

WorkerStates == {"idle", "start", "returns", "raises"} \cup Answers

Sweeps ==
    [open : BOOLEAN, todo : SUBSET Alerts, expired : SUBSET Events,
     released : SUBSET Events, staged : SUBSET Note]

Digests == [open : BOOLEAN, todo : SUBSET Events, closed : SUBSET Events]

(* A row n with its execution w: only a running job is executed, each       *)
(* execution that leaves a pending row behind has cost a fault, and a       *)
(* delivered row is not posted.                                             *)
RowCoherent(n, w, spent) ==
    /\ w # "idle" => n.job = "running"
    /\ n.job = "queued" => n.attempts < MAX_ATTEMPTS
    /\ n.hook = "pending" =>
        /\ n.job = "queued" => n.attempts <= spent
        /\ n.job = "running" => n.attempts <= spent + 1
        /\ w = "undecodable" => n.attempts <= spent
        /\ w \notin {"returns", "raises"}
        /\ \/ n.job \in {"queued", "running", "cancelled"}
           \/ n.job = "failed" /\ spent >= MAX_ATTEMPTS
    /\ n.hook = "delivered" => w \notin Answers

RowsCoherent ==
    \A e \in Events : RowCoherent(note[e], worker[e], faults)

(* What the digest has read is still deferred.                              *)
DigestCoherent(table, d) == \A e \in d.todo : table[e].mail = "deferred"

(* uq_notifications_dedup_key.                                              *)
KeysUnique(table) ==
    \A e, f \in Events : e # f /\ table[e].key = table[f].key => table[e].key = NoKey

(* What the open sweep has staged: one dispatched event per kind that is    *)
(* done, whose key it has released; what it took as expired still is.       *)
SweepCoherent(table, s) ==
    /\ \A n \in s.staged : n.key \in Alerts \ s.todo /\ n \in Dispatched(n.key)
    /\ \A m, n \in s.staged : m.key = n.key => m = n
    /\ \A e \in s.expired : table[e].key \in Alerts /\ table[e].ttl = "expired"
    /\ \A n \in s.staged, e \in Events :
            table[e].key = n.key => e \in s.released /\ table[e].ttl = "expired"

(* The inductive invariant.                                                 *)
NotifyInvariant ==
    /\ NotifyTypeOK
    /\ sweep \in Sweeps /\ digest \in Digests
    /\ RowsCoherent
    /\ KeysUnique(note)
    /\ SweepCoherent(note, sweep)
    /\ DigestCoherent(note, digest)

-----------------------------------------------------------------------------
(* Rows.                                                                    *)

(* The assumptions on the numbers.                                          *)
LEMMA Numbers == MAX_ATTEMPTS \in Nat /\ MAX_ATTEMPTS > 0 /\ MaxFaults \in Nat
BY NotificationAssumption

(* An unused row.                                                           *)
LEMMA UnusedFacts ==
    /\ Unused \in Note
    /\ Unused.key = NoKey /\ Unused.ttl = "expired" /\ Unused.hook = "none"
    /\ Unused.job = "none" /\ Unused.mail = "none"
<1>1. 0 \in 0..MAX_ATTEMPTS
    BY Numbers
<1>2. QED
    BY <1>1 DEF Unused, Note, Keys

(* Forgetting a row loses neither its key nor anything still to be done.    *)
LEMMA KeptFacts ==
    ASSUME NEW n \in Note
    PROVE  /\ Kept(n) \in Note
           /\ Kept(n).key = n.key
           /\ Kept(n).ttl \in {n.ttl, "expired"}
           /\ Kept(n) = n \/ (/\ Kept(n) = Unused /\ n.key = NoKey
                              /\ n.job \notin {"queued", "running"}
                              /\ n.mail # "deferred")
           /\ n.mail = "deferred" => Kept(n).mail = "deferred"
BY UnusedFacts DEF Kept, Note

(* Nobody executes, waits for or lists a forgotten row.                     *)
LEMMA KeptCoherent ==
    ASSUME NEW n \in Note, NEW w, NEW spent \in Nat,
           RowCoherent(n, w, spent)
    PROVE  RowCoherent(Kept(n), w, spent)
<1>1. CASE Kept(n) = n
    BY <1>1
<1>2. CASE /\ Kept(n) = Unused
           /\ n.job \notin {"queued", "running"}
  <2>1. w = "idle"
    BY <1>2 DEF RowCoherent
  <2>2. QED
    BY <1>2, <2>1, UnusedFacts DEF RowCoherent, Answers
<1>3. QED
    BY <1>1, <1>2, KeptFacts

(* A job that ends without a mark goes back to the queue or has used up its *)
(* attempts.                                                                *)
LEMMA RetriedFacts ==
    ASSUME NEW n \in Note
    PROVE  LET m == Retried(n)
           IN  /\ m \in Note
               /\ m.key = n.key /\ m.ttl = n.ttl /\ m.hook = n.hook /\ m.mail = n.mail
               /\ m.attempts = n.attempts
               /\ m.job \in {"queued", "failed"}
               /\ m.job = "queued" <=> n.attempts < MAX_ATTEMPTS
BY DEF Retried, Note

(* It does so at the price of a fault if its row is still pending.          *)
LEMMA RetriedCoherent ==
    ASSUME NEW n \in Note, NEW spent \in Nat,
           n.hook = "pending" => n.attempts <= spent
    PROVE  RowCoherent(Kept(Retried(n)), "idle", spent)
<1> DEFINE m == Retried(n)
<1>1. /\ m \in Note /\ m.hook = n.hook /\ m.mail = n.mail /\ m.attempts = n.attempts
      /\ m.job \in {"queued", "failed"}
      /\ m.job = "queued" <=> n.attempts < MAX_ATTEMPTS
      /\ n.attempts \in Nat
    BY RetriedFacts DEF Note
<1> HIDE DEF m
<1>2. RowCoherent(m, "idle", spent)
    BY <1>1, Numbers DEF RowCoherent, Answers
<1>3. QED
    BY <1>1, <1>2, KeptCoherent DEF m

(* What a dispatched event looks like.                                      *)
LEMMA DispatchedFacts ==
    ASSUME NEW k \in Keys, NEW n \in Dispatched(k)
    PROVE  /\ n \in Note /\ n.key = k
           /\ n \in Dispatched(n.key)
           /\ \A spent \in Nat : RowCoherent(n, "idle", spent)
<1>1. PICK queued \in {FALSE, (k \in Webhook)}, deferred \in {FALSE, (k \in Email)} :
        n = [Unused EXCEPT !.key = k, !.ttl = "live",
                    !.hook = IF queued THEN "pending" ELSE "none",
                    !.job = IF queued THEN "queued" ELSE "none",
                    !.mail = IF deferred THEN "deferred" ELSE "none"]
    BY DEF Dispatched
<1>2. /\ n \in Note /\ n.key = k /\ n.attempts = 0
      /\ n.job \in {"queued", "none"}
      /\ n.hook = "pending" => n.job = "queued"
      /\ n.hook \in {"pending", "none"}
    BY <1>1, UnusedFacts DEF Unused, Note
<1>3. \A spent \in Nat : RowCoherent(n, "idle", spent)
    BY <1>2, Numbers DEF RowCoherent, Answers
<1>4. QED
    BY <1>2, <1>3

-----------------------------------------------------------------------------
(* Steps on one row.                                                        *)

(* A row that keeps its key, and whose window does not begin anew.          *)
LEMMA RowMoves ==
    ASSUME NotifyInvariant, NEW e \in Events,
           NEW m \in Note, m.key = note[e].key, m.ttl \in {note[e].ttl, "expired"},
           NEW w \in WorkerStates,
           note' = [note EXCEPT ![e] = m], worker' = [worker EXCEPT ![e] = w],
           faults' \in 0..MaxFaults, faults <= faults',
           RowCoherent(m, w, faults'), note[e].mail = "deferred" => m.mail = "deferred",
           UNCHANGED <<raised, sweep, digest>>
    PROVE  NotifyInvariant'
<1>1. /\ note \in [Events -> Note] /\ worker \in [Events -> WorkerStates]
      /\ faults \in Nat /\ faults' \in Nat
    BY Numbers DEF NotifyInvariant, NotifyTypeOK, WorkerStates
<1>2. /\ \A f \in Events : note'[f] = IF f = e THEN m ELSE note[f]
      /\ \A f \in Events : worker'[f] = IF f = e THEN w ELSE worker[f]
    BY <1>1
<1>3. NotifyTypeOK' /\ sweep' \in Sweeps /\ digest' \in Digests
    BY <1>1 DEF NotifyInvariant, NotifyTypeOK, WorkerStates
<1>4. ASSUME NEW f \in Events
      PROVE  RowCoherent(note'[f], worker'[f], faults')
  <2>1. CASE f = e
    BY <1>2, <2>1
  <2>2. CASE f # e
    <3>1. RowCoherent(note[f], worker[f], faults)
      BY DEF NotifyInvariant, RowsCoherent
    <3>2. note[f].attempts \in Nat
      BY <1>1 DEF Note
    <3>3. QED
      BY <1>1, <1>2, <2>2, <3>1, <3>2, Numbers DEF RowCoherent
  <2>3. QED
    BY <2>1, <2>2
<1>5. RowsCoherent'
    BY <1>4 DEF RowsCoherent
<1>6. \A f \in Events : note'[f].key = note[f].key /\ note'[f].ttl \in {note[f].ttl, "expired"}
    BY <1>2
<1>7. KeysUnique(note')
    BY <1>6 DEF NotifyInvariant, KeysUnique
<1>8. SweepCoherent(note', sweep)
  <2>1. sweep.expired \subseteq Events
    BY DEF NotifyInvariant, Sweeps
  <2>2. QED
    BY <1>6, <2>1 DEF NotifyInvariant, SweepCoherent
<1>9. DigestCoherent(note', digest)
  <2>1. digest.todo \subseteq Events
    BY DEF NotifyInvariant, Digests
  <2>2. QED
    BY <1>2, <2>1 DEF NotifyInvariant, DigestCoherent
<1>10. QED
    BY <1>3, <1>5, <1>7, <1>8, <1>9 DEF NotifyInvariant

(* What is known of one row.                                                *)
LEMMA RowFacts ==
    ASSUME NotifyInvariant, NEW e \in Events
    PROVE  /\ note[e] \in Note /\ worker[e] \in WorkerStates
           /\ note[e].attempts \in 0..MAX_ATTEMPTS
           /\ RowCoherent(note[e], worker[e], faults)
           /\ faults \in Nat /\ faults \in 0..MaxFaults /\ faults <= MaxFaults
           /\ note = [note EXCEPT ![e] = note[e]]
           /\ worker = [worker EXCEPT ![e] = worker[e]]
BY Numbers DEF NotifyInvariant, NotifyTypeOK, WorkerStates, RowsCoherent, Note

(* A window that ends.                                                      *)
LEMMA ExpiresInv ==
    ASSUME NotifyInvariant, NEW e \in Events, Expires(e)
    PROVE  NotifyInvariant'
<1> DEFINE m == [note[e] EXCEPT !.ttl = "expired"]
<1>1. /\ note[e] \in Note /\ RowCoherent(note[e], worker[e], faults)
      /\ worker[e] \in WorkerStates /\ faults \in 0..MaxFaults /\ faults <= faults
    BY RowFacts
<1>2. /\ m \in Note /\ m.key = note[e].key /\ m.ttl = "expired" /\ m.job = note[e].job
      /\ m.attempts = note[e].attempts /\ m.hook = note[e].hook /\ m.mail = note[e].mail
    BY <1>1 DEF Note
<1>3. /\ note' = [note EXCEPT ![e] = m] /\ worker' = [worker EXCEPT ![e] = worker[e]]
      /\ UNCHANGED <<raised, sweep, digest, faults>>
    BY RowFacts DEF Expires
<1> HIDE DEF m
<1>4. RowCoherent(m, worker[e], faults)
    BY <1>1, <1>2 DEF RowCoherent
<1>5. QED
    BY <1>1, <1>2, <1>3, <1>4, RowMoves

(* A claim starts an attempt that is within the budget.                     *)
LEMMA ClaimDeliveryInv ==
    ASSUME NotifyInvariant, NEW e \in Events, ClaimDelivery(e)
    PROVE  NotifyInvariant'
<1> DEFINE m == [note[e] EXCEPT !.job = "running", !.attempts = @ + 1]
<1>1. /\ note[e] \in Note /\ RowCoherent(note[e], worker[e], faults)
      /\ note[e].attempts \in Nat /\ note[e].job = "queued"
      /\ faults \in Nat /\ faults \in 0..MaxFaults /\ faults <= faults
    BY RowFacts DEF ClaimDelivery
<1>2. note[e].attempts + 1 \in 0..MAX_ATTEMPTS
    BY <1>1, Numbers DEF RowCoherent
<1>3. /\ m \in Note /\ m.key = note[e].key /\ m.ttl = note[e].ttl /\ m.job = "running"
      /\ m.attempts = note[e].attempts + 1 /\ m.hook = note[e].hook
      /\ m.mail = note[e].mail
    BY <1>1, <1>2 DEF Note
<1>4. /\ note' = [note EXCEPT ![e] = m] /\ worker' = [worker EXCEPT ![e] = "start"]
      /\ UNCHANGED <<raised, sweep, digest, faults>>
    BY DEF ClaimDelivery
<1> HIDE DEF m
<1>5. RowCoherent(m, "start", faults)
    BY <1>1, <1>3 DEF RowCoherent, Answers
<1>6. "start" \in WorkerStates
    BY DEF WorkerStates
<1>7. QED
    BY <1>1, <1>3, <1>4, <1>5, <1>6, RowMoves

(* A cancelled delivery is not executed.                                    *)
LEMMA CancelDeliveryInv ==
    ASSUME NotifyInvariant, NEW e \in Events, CancelDelivery(e)
    PROVE  NotifyInvariant'
<1> DEFINE c == [note[e] EXCEPT !.job = "cancelled"]
<1>1. /\ note[e] \in Note /\ RowCoherent(note[e], worker[e], faults)
      /\ worker[e] \in WorkerStates /\ note[e].job = "queued" /\ note[e].ttl \in {"live", "expired"}
      /\ faults \in Nat /\ faults \in 0..MaxFaults /\ faults <= faults
    BY RowFacts DEF CancelDelivery, Note
<1>2. /\ c \in Note /\ c.key = note[e].key /\ c.ttl = note[e].ttl /\ c.job = "cancelled"
      /\ c.attempts = note[e].attempts /\ c.hook = note[e].hook /\ c.mail = note[e].mail
    BY <1>1 DEF Note
<1>3. /\ note' = [note EXCEPT ![e] = Kept(c)] /\ worker' = [worker EXCEPT ![e] = worker[e]]
      /\ UNCHANGED <<raised, sweep, digest, faults>>
    BY RowFacts DEF CancelDelivery
<1> HIDE DEF c
<1>4. RowCoherent(c, worker[e], faults)
    BY <1>1, <1>2 DEF RowCoherent, Answers
<1>5. /\ Kept(c) \in Note /\ Kept(c).key = note[e].key
      /\ Kept(c).ttl \in {note[e].ttl, "expired"}
      /\ note[e].mail = "deferred" => Kept(c).mail = "deferred"
      /\ RowCoherent(Kept(c), worker[e], faults)
    BY <1>1, <1>2, <1>4, KeptFacts, KeptCoherent
<1>6. QED
    BY <1>1, <1>3, <1>5, RowMoves

(* A row that is delivered is not posted again.                             *)
LEMMA ProcessDeliveryInv ==
    ASSUME NotifyInvariant, NEW e \in Events, process_delivery(e)
    PROVE  NotifyInvariant'
<1>1. PICK a \in Answers : Post(e, a)
    BY DEF process_delivery
<1>2. /\ note[e] \in Note /\ RowCoherent(note[e], "start", faults)
      /\ note[e].attempts \in Nat /\ note[e].hook # "delivered"
      /\ faults \in Nat /\ faults <= MaxFaults /\ faults \in 0..MaxFaults
    BY <1>1, RowFacts DEF process_delivery, Post
<1>3. /\ faults' \in 0..MaxFaults /\ faults <= faults' /\ faults' \in Nat
      /\ a = "undecodable" => faults' = faults + 1
    BY <1>1, <1>2, Numbers DEF Post, Fault
<1>4. /\ note' = [note EXCEPT ![e] = note[e]] /\ worker' = [worker EXCEPT ![e] = a]
      /\ UNCHANGED <<raised, sweep, digest>>
    BY <1>1, RowFacts DEF Post
<1>5. RowCoherent(note[e], a, faults')
    BY <1>2, <1>3, Numbers DEF RowCoherent, Answers
<1>6. a \in WorkerStates
    BY DEF WorkerStates
<1>7. QED
    BY <1>2, <1>3, <1>4, <1>5, <1>6, RowMoves

(* _mark settles the row before the job ends.                               *)
LEMMA MarkInv ==
    ASSUME NotifyInvariant, NEW e \in Events, Mark(e)
    PROVE  NotifyInvariant'
<1> DEFINE h == IF worker[e] = "delivered" THEN "delivered" ELSE "failed"
           w == IF worker[e] = "transient" THEN "raises" ELSE "returns"
           m == [note[e] EXCEPT !.hook = h]
<1>1. /\ note[e] \in Note /\ RowCoherent(note[e], worker[e], faults)
      /\ worker[e] \in Answers /\ w \in {"raises", "returns"}
      /\ faults \in 0..MaxFaults /\ faults <= faults
    BY RowFacts DEF Mark
<1>2. /\ m \in Note /\ m.key = note[e].key /\ m.ttl = note[e].ttl /\ m.job = note[e].job
      /\ m.attempts = note[e].attempts /\ m.hook \in {"delivered", "failed"}
      /\ m.mail = note[e].mail
    BY <1>1 DEF Note
<1>3. /\ note' = [note EXCEPT ![e] = m] /\ worker' = [worker EXCEPT ![e] = w]
      /\ UNCHANGED <<raised, sweep, digest, faults>>
    BY DEF Mark
<1> HIDE DEF m, w
<1>4. RowCoherent(m, w, faults)
    BY <1>1, <1>2 DEF RowCoherent, Answers
<1>5. w \in WorkerStates
    BY <1>1 DEF WorkerStates
<1>6. QED
    BY <1>1, <1>2, <1>3, <1>4, <1>5, RowMoves

(* A job that ends is succeeded only with a marked row.                     *)
LEMMA EndDeliveryInv ==
    ASSUME NotifyInvariant, NEW e \in Events, EndDelivery(e) \/ AlreadyDelivered(e)
    PROVE  NotifyInvariant'
<1> DEFINE s == [note[e] EXCEPT !.job = "succeeded"]
           r == Retried(note[e])
<1>1. /\ note[e] \in Note /\ RowCoherent(note[e], worker[e], faults)
      /\ note[e].attempts \in Nat /\ note[e].ttl \in {"live", "expired"}
      /\ faults \in Nat /\ faults \in 0..MaxFaults /\ faults <= faults
    BY RowFacts DEF Note
<1>2. "idle" \in WorkerStates
    BY DEF WorkerStates
<1>3. /\ worker' = [worker EXCEPT ![e] = "idle"]
      /\ UNCHANGED <<raised, sweep, digest, faults>>
    BY DEF EndDelivery, AlreadyDelivered
<1>4. CASE note' = [note EXCEPT ![e] = Kept(s)] /\ note[e].hook # "pending"
  <2>1. /\ s \in Note /\ s.key = note[e].key /\ s.ttl = note[e].ttl /\ s.job = "succeeded"
        /\ s.attempts = note[e].attempts /\ s.hook = note[e].hook /\ s.mail = note[e].mail
    BY <1>1 DEF Note
  <2> HIDE DEF s
  <2>2. RowCoherent(s, "idle", faults)
    BY <1>1, <1>4, <2>1 DEF RowCoherent, Answers
  <2>3. /\ Kept(s) \in Note /\ Kept(s).key = note[e].key
        /\ Kept(s).ttl \in {note[e].ttl, "expired"}
        /\ note[e].mail = "deferred" => Kept(s).mail = "deferred"
        /\ RowCoherent(Kept(s), "idle", faults)
    BY <1>1, <2>1, <2>2, KeptFacts, KeptCoherent
  <2>4. QED
    BY <1>1, <1>2, <1>3, <1>4, <2>3, RowMoves
<1>5. CASE /\ note' = [note EXCEPT ![e] = Kept(r)]
           /\ worker[e] \in {"raises", "undecodable"}
  <2>1. note[e].hook = "pending" => note[e].attempts <= faults
    BY <1>1, <1>5 DEF RowCoherent
  <2>3. RowCoherent(Kept(r), "idle", faults)
    BY <1>1, <2>1, RetriedCoherent
  <2>4. r \in Note /\ r.key = note[e].key /\ r.ttl = note[e].ttl /\ r.mail = note[e].mail
    BY <1>1, RetriedFacts
  <2> HIDE DEF r
  <2>5. /\ Kept(r) \in Note /\ Kept(r).key = note[e].key
        /\ Kept(r).ttl \in {note[e].ttl, "expired"}
        /\ note[e].mail = "deferred" => Kept(r).mail = "deferred"
    BY <1>1, <2>4, KeptFacts
  <2>6. QED
    BY <1>1, <1>2, <1>3, <1>5, <2>3, <2>5, RowMoves
<1>6. CASE AlreadyDelivered(e)
    BY <1>4, <1>6 DEF AlreadyDelivered
<1>7. CASE EndDelivery(e)
  <2>1. CASE worker[e] = "returns"
    BY <1>1, <1>4, <1>7, <2>1 DEF EndDelivery, RowCoherent
  <2>2. CASE worker[e] # "returns"
    BY <1>5, <1>7, <2>2 DEF EndDelivery
  <2>3. QED
    BY <2>1, <2>2
<1>8. QED
    BY <1>6, <1>7

-----------------------------------------------------------------------------
(* Transactions.                                                            *)

(* The invariant of a state whose rows kept their keys, with the open       *)
(* transactions kept or gone.                                               *)
LEMMA TableMoves ==
    ASSUME NotifyInvariant,
           note' \in [Events -> Note], worker' \in [Events -> WorkerStates],
           faults' \in 0..MaxFaults, raised' \subseteq Alerts,
           \A e \in Events :
                /\ note'[e].key = note[e].key
                /\ note'[e].ttl \in {note[e].ttl, "expired"}
                /\ RowCoherent(note'[e], worker'[e], faults'),
           sweep' \in {sweep, NoSweep}, digest' \in Digests,
           DigestCoherent(note', digest')
    PROVE  NotifyInvariant'
<1>1. NoSweep \in Sweeps
    BY DEF NoSweep, Sweeps
<1>2. sweep' \in Sweeps
    BY <1>1 DEF NotifyInvariant
<1>3. NotifyTypeOK'
    BY <1>2 DEF NotifyTypeOK, WorkerStates, Sweeps, Digests
<1>4. RowsCoherent'
    BY DEF RowsCoherent
<1>5. KeysUnique(note')
    BY DEF NotifyInvariant, KeysUnique
<1>6. SweepCoherent(note', sweep')
  <2>1. SweepCoherent(note', NoSweep)
    BY DEF SweepCoherent, NoSweep
  <2>2. sweep.expired \subseteq Events
    BY DEF NotifyInvariant, Sweeps
  <2>3. SweepCoherent(note', sweep)
    BY <2>2 DEF NotifyInvariant, SweepCoherent
  <2>4. QED
    BY <2>1, <2>3
<1>7. QED
    BY <1>2, <1>3, <1>4, <1>5, <1>6 DEF NotifyInvariant

(* The invariant gives the types in the form TableMoves asks for.           *)
LEMMA TableFacts ==
    ASSUME NotifyInvariant
    PROVE  /\ note \in [Events -> Note] /\ worker \in [Events -> WorkerStates]
           /\ faults \in 0..MaxFaults /\ faults \in Nat /\ raised \subseteq Alerts
           /\ sweep \in Sweeps /\ digest \in Digests
           /\ \A e \in Events : RowCoherent(note[e], worker[e], faults)
BY Numbers DEF NotifyInvariant, NotifyTypeOK, WorkerStates, RowsCoherent

(* The condition of an alert changes.                                       *)
LEMMA ChangesInv ==
    ASSUME NotifyInvariant, NEW k \in Alerts, Changes(k)
    PROVE  NotifyInvariant'
<1>1. raised' \subseteq Alerts /\ UNCHANGED <<note, worker, sweep, digest, faults>>
    BY TableFacts DEF Changes
<1>2. DigestCoherent(note', digest')
    BY <1>1 DEF NotifyInvariant
<1>3. QED
    BY <1>1, <1>2, TableFacts, TableMoves

(* The digest reads, sends, commits or is rolled back.                      *)
LEMMA DigestInv ==
    ASSUME NotifyInvariant, DigestStep \/ DigestFails
    PROVE  NotifyInvariant'
<1>1. NoDigest \in Digests /\ DigestCoherent(note', NoDigest)
    BY DEF NoDigest, Digests, DigestCoherent
<1>2. CASE build_and_emit_digest
  <2>1. Deferred \in SUBSET Events /\ \A e \in Deferred : note[e].mail = "deferred"
    BY DEF Deferred
  <2>2. /\ digest' = [NoDigest EXCEPT !.open = TRUE, !.todo = Deferred]
        /\ UNCHANGED <<raised, note, worker, sweep, faults>>
    BY <1>2 DEF build_and_emit_digest
  <2>3. digest' \in Digests /\ digest'.todo = Deferred
    BY <2>1, <2>2 DEF NoDigest, Digests
  <2>4. DigestCoherent(note', digest')
    BY <2>1, <2>2, <2>3 DEF DigestCoherent
  <2>5. QED
    BY <2>2, <2>3, <2>4, TableFacts, TableMoves
<1>3. ASSUME NEW e \in Events, SendDeferred(e) PROVE NotifyInvariant'
  <2>1. /\ digest' = [digest EXCEPT !.todo = @ \ {e}, !.closed = @ \cup {e}]
        /\ UNCHANGED <<raised, note, worker, sweep, faults>>
    BY <1>3 DEF SendDeferred
  <2>2. digest' \in Digests /\ digest'.todo \subseteq digest.todo
    BY <2>1, TableFacts DEF Digests
  <2>3. DigestCoherent(note', digest')
    BY <2>1, <2>2 DEF NotifyInvariant, DigestCoherent
  <2>4. QED
    BY <2>1, <2>2, <2>3, TableFacts, TableMoves
<1>4. CASE DigestCommit
  <2> DEFINE c(e) == [note[e] EXCEPT !.mail = "closed"]
             m(e) == IF e \in digest.closed THEN Kept(c(e)) ELSE note[e]
  <2>1. /\ note' = [e \in Events |-> m(e)] /\ digest' = NoDigest
        /\ UNCHANGED <<raised, worker, sweep, faults>>
    BY <1>4 DEF DigestCommit
  <2>2. ASSUME NEW e \in Events
        PROVE  /\ m(e) \in Note /\ m(e).key = note[e].key
               /\ m(e).ttl \in {note[e].ttl, "expired"}
               /\ RowCoherent(m(e), worker[e], faults)
    <3>1. note[e] \in Note /\ RowCoherent(note[e], worker[e], faults) /\ faults \in Nat
      BY TableFacts
    <3>2. /\ c(e) \in Note /\ c(e).key = note[e].key /\ c(e).ttl = note[e].ttl
          /\ c(e).job = note[e].job /\ c(e).hook = note[e].hook
          /\ c(e).attempts = note[e].attempts
      BY <3>1 DEF Note
    <3> HIDE DEF c
    <3>3. RowCoherent(c(e), worker[e], faults)
      BY <3>1, <3>2 DEF RowCoherent
    <3>4. QED
      BY <3>1, <3>2, <3>3, KeptFacts, KeptCoherent
  <2> HIDE DEF m
  <2>3. QED
    BY <1>1, <2>1, <2>2, TableFacts, TableMoves
<1>5. CASE DigestFails
  <2>1. /\ digest' = NoDigest /\ UNCHANGED <<raised, note, worker, sweep>>
        /\ faults < MaxFaults /\ faults' = faults + 1
    BY <1>5 DEF DigestFails, Fault
  <2>2. faults' \in 0..MaxFaults
    BY <2>1, TableFacts, Numbers
  <2>3. ASSUME NEW e \in Events PROVE RowCoherent(note[e], worker[e], faults')
    BY <2>1, RowFacts, Numbers DEF RowCoherent
  <2>4. QED
    BY <1>1, <2>1, <2>2, <2>3, TableFacts, TableMoves
<1>6. QED
    BY <1>2, <1>3, <1>4, <1>5 DEF DigestStep

(* A restart retries what was running, at the price of the fault it is.     *)
LEMMA CrashInv ==
    ASSUME NotifyInvariant, Crash
    PROVE  NotifyInvariant'
<1> DEFINE m(e) == IF note[e].job = "running" THEN Kept(Retried(note[e])) ELSE note[e]
<1>1. /\ note' = [e \in Events |-> m(e)]
      /\ worker' = [e \in Events |-> "idle"]
      /\ sweep' = NoSweep /\ digest' = NoDigest /\ UNCHANGED raised
      /\ faults < MaxFaults /\ faults' = faults + 1
    BY DEF Crash, Fault
<1>2. faults' \in 0..MaxFaults /\ faults' \in Nat
    BY <1>1, TableFacts, Numbers
<1>3. ASSUME NEW e \in Events
      PROVE  /\ m(e) \in Note /\ m(e).key = note[e].key
             /\ m(e).ttl \in {note[e].ttl, "expired"}
             /\ RowCoherent(m(e), "idle", faults')
  <2>1. /\ note[e] \in Note /\ RowCoherent(note[e], worker[e], faults)
        /\ note[e].attempts \in Nat /\ faults \in Nat
    BY RowFacts
  <2>2. CASE note[e].job = "running"
    <3>1. note[e].hook = "pending" => note[e].attempts <= faults'
      BY <1>1, <2>1, <2>2 DEF RowCoherent
    <3>2. RowCoherent(Kept(Retried(note[e])), "idle", faults')
      BY <1>2, <2>1, <3>1, RetriedCoherent
    <3>3. /\ Retried(note[e]) \in Note /\ Retried(note[e]).key = note[e].key
          /\ Retried(note[e]).ttl = note[e].ttl
      BY <2>1, RetriedFacts
    <3>4. QED
      BY <2>2, <3>2, <3>3, KeptFacts
  <2>3. CASE note[e].job # "running"
    BY <1>1, <1>2, <2>1, <2>3, Numbers DEF RowCoherent, Answers
  <2>4. QED
    BY <2>2, <2>3
<1> HIDE DEF m
<1>4. "idle" \in WorkerStates /\ NoDigest \in Digests /\ DigestCoherent(note', NoDigest)
    BY DEF WorkerStates, NoDigest, Digests, DigestCoherent
<1>5. QED
    BY <1>1, <1>2, <1>3, <1>4, TableFacts, TableMoves

-----------------------------------------------------------------------------
(* The commits that insert rows.                                            *)

(* Released rows lose their key, and are not executed if they are forgotten.*)
LEMMA FreedFacts ==
    ASSUME NotifyInvariant, NEW released \in SUBSET Events, NEW e \in Events
    PROVE  /\ Freed(released)[e] \in Note
           /\ e \in released => Freed(released)[e].key = NoKey
           /\ e \notin released => Freed(released)[e] = note[e]
           /\ RowCoherent(Freed(released)[e], worker[e], faults)
           /\ note[e].mail = "deferred" => Freed(released)[e].mail = "deferred"
<1> DEFINE c == [note[e] EXCEPT !.key = NoKey, !.ttl = "expired"]
<1>1. note[e] \in Note /\ RowCoherent(note[e], worker[e], faults) /\ faults \in Nat
    BY TableFacts
<1>2. /\ c \in Note /\ c.key = NoKey /\ c.job = note[e].job /\ c.hook = note[e].hook
      /\ c.attempts = note[e].attempts /\ c.mail = note[e].mail
    BY <1>1 DEF Note
<1>3. Freed(released)[e] = IF e \in released THEN Kept(c) ELSE note[e]
    BY DEF Freed
<1> HIDE DEF c
<1>4. RowCoherent(c, worker[e], faults)
    BY <1>1, <1>2 DEF RowCoherent
<1>5. QED
    BY <1>1, <1>2, <1>3, <1>4, KeptFacts, KeptCoherent

(* A commit gives each staged event an unused row of its own.               *)
LEMMA CommitFacts ==
    ASSUME NEW released, NEW staged, Commit(released, staged)
    PROVE  \E I \in SUBSET Events :
                /\ note' = [e \in Events |-> note'[e]]
                /\ \A e \in I : Freed(released)[e] = Unused /\ note'[e] \in staged
                /\ \A e \in Events \ I : note'[e] = Freed(released)[e]
                /\ \A e, f \in I : e # f => note'[e] # note'[f]
<1> DEFINE table == Freed(released)
           places == Places(table, staged)
           place == CHOOSE p \in places : TRUE
           I == {e \in Events : \E n \in staged : place[n] = e}
           new(e) == IF \E n \in staged : place[n] = e
                     THEN CHOOSE n \in staged : place[n] = e
                     ELSE table[e]
<1>1. places # {} /\ note' = [e \in Events |-> new(e)]
    BY DEF Commit
<1>2. place \in places
    BY <1>1
<1>3. place \in [staged -> {e \in Events : table[e] = Unused}]
  <2> HIDE DEF place
  <2>1. QED
    BY <1>2 DEF Places
<1> HIDE DEF place, table
<1>4. \A e \in I : new(e) \in staged /\ place[new(e)] = e
    OBVIOUS
<1>5. \A e \in I : table[e] = Unused
    BY <1>3
<1>6. \A e \in Events \ I : new(e) = table[e]
    OBVIOUS
<1> HIDE DEF new, I
<1>7. I \in SUBSET Events
    BY DEF I
<1>8. \A e \in Events : note'[e] = new(e)
    BY <1>1
<1>9. \A e, f \in I : e # f => note'[e] # note'[f]
    BY <1>4, <1>7, <1>8
<1>10. QED
    BY <1>1, <1>4, <1>5, <1>6, <1>7, <1>8, <1>9 DEF table

(* Staged events with keys of their own, whose rows were released, leave    *)
(* the keys unique and the executions in order.                             *)
LEMMA CommitInv ==
    ASSUME NotifyInvariant, NEW released \in SUBSET Events, NEW staged \in SUBSET Note,
           Commit(released, staged),
           \A n \in staged : n.key \in Keys /\ n \in Dispatched(n.key),
           \A m, n \in staged : m.key = n.key => m = n,
           \A n \in staged, e \in Events : note[e].key = n.key => e \in released
    PROVE  /\ note' \in [Events -> Note]
           /\ \A e \in Events : RowCoherent(note'[e], worker[e], faults)
           /\ KeysUnique(note')
           /\ \A e \in Events : note[e].mail = "deferred" => note'[e].mail = "deferred"
           /\ \A e \in Events \ released : note'[e] = note[e] \/
                                           (note[e] = Unused /\ note'[e] \in staged)
<1>1. PICK I \in SUBSET Events :
                /\ note' = [e \in Events |-> note'[e]]
                /\ \A e \in I : Freed(released)[e] = Unused /\ note'[e] \in staged
                /\ \A e \in Events \ I : note'[e] = Freed(released)[e]
                /\ \A e, f \in I : e # f => note'[e] # note'[f]
    BY CommitFacts
<1>2. faults \in Nat /\ NoKey \notin Keys
    BY TableFacts, NotificationAssumption DEF Keys
<1>3. \A n \in staged : n.key # NoKey /\ RowCoherent(n, "idle", faults)
    BY <1>2, DispatchedFacts
<1>4. ASSUME NEW e \in Events
      PROVE  /\ note'[e] \in Note
             /\ RowCoherent(note'[e], worker[e], faults)
             /\ note[e].mail = "deferred" => note'[e].mail = "deferred"
  <2>1. CASE e \in I
    <3>1. /\ Freed(released)[e] = Unused /\ note'[e] \in staged
          /\ RowCoherent(Unused, worker[e], faults)
          /\ note[e].mail # "deferred"
      BY <1>1, <2>1, FreedFacts, UnusedFacts
    <3>2. worker[e] = "idle"
      BY <3>1, UnusedFacts DEF RowCoherent
    <3>3. QED
      BY <1>3, <3>1, <3>2
  <2>2. CASE e \notin I
    BY <1>1, <2>2, FreedFacts
  <2>3. QED
    BY <2>1, <2>2
<1>5. \A e \in Events \ I :
            /\ note'[e].key # NoKey => note'[e] = note[e] /\ e \notin released
            /\ e \notin released => note'[e] = note[e]
    BY <1>1, FreedFacts
<1>6. ASSUME NEW e \in Events, NEW f \in Events, e # f, note'[e].key = note'[f].key,
             note'[e].key # NoKey
      PROVE  FALSE
  <2>1. CASE e \in I /\ f \in I
    BY <1>1, <1>6, <2>1
  <2>2. CASE e \in I /\ f \notin I
    BY <1>1, <1>5, <1>6, <2>2
  <2>3. CASE e \notin I /\ f \in I
    BY <1>1, <1>5, <1>6, <2>3
  <2>4. CASE e \notin I /\ f \notin I
    BY <1>5, <1>6, <2>4 DEF NotifyInvariant, KeysUnique
  <2>5. QED
    BY <2>1, <2>2, <2>3, <2>4
<1>7. \A e \in Events \ released : note'[e] = note[e] \/
                                   (note[e] = Unused /\ note'[e] \in staged)
    BY <1>1, <1>5, FreedFacts
<1>8. note' \in [Events -> Note]
    BY <1>1, <1>4
<1>9. QED
    BY <1>4, <1>6, <1>7, <1>8 DEF KeysUnique

(* emit inserts a key nobody has, and none that a sweep deals with.         *)
LEMMA EmitInv ==
    ASSUME NotifyInvariant, NEW k \in Others, emit(k)
    PROVE  NotifyInvariant'
<1>1. PICK n \in Dispatched(k) : Commit({}, {n})
    BY DEF emit
<1>2. k \in Keys /\ k \notin Alerts /\ UNCHANGED <<raised, worker, sweep, digest, faults>>
    BY NotificationAssumption DEF Keys, emit
<1>3. n \in Note /\ n.key = k /\ n \in Dispatched(n.key)
    BY <1>2, DispatchedFacts
<1>4. \A e \in Events : note[e].key # k
    BY DEF emit, Taken
<1>5. /\ note' \in [Events -> Note]
      /\ \A e \in Events : RowCoherent(note'[e], worker[e], faults)
      /\ KeysUnique(note')
      /\ \A e \in Events : note[e].mail = "deferred" => note'[e].mail = "deferred"
      /\ \A e \in Events : note'[e] = note[e] \/ (note[e] = Unused /\ note'[e] \in {n})
  <2>1. {n} \in SUBSET Note /\ {} \in SUBSET Events
    BY <1>3
  <2>2. \A m \in {n} : m.key \in Keys /\ m \in Dispatched(m.key)
    BY <1>2, <1>3
  <2>3. \A m \in {n}, e \in Events : note[e].key = m.key => e \in {}
    BY <1>3, <1>4
  <2>4. \A m, l \in {n} : m.key = l.key => m = l
    OBVIOUS
  <2> HIDE DEF NotifyInvariant
  <2>5. QED
    BY <1>1, <2>1, <2>2, <2>3, <2>4, CommitInv
<1>6. SweepCoherent(note', sweep)
  <2>1. sweep.expired \subseteq Events /\ SweepCoherent(note, sweep)
    BY DEF NotifyInvariant, Sweeps
  <2>2. \A e \in sweep.expired : note'[e] = note[e]
    <3>1. \A e \in sweep.expired : note[e].key # NoKey
      BY <2>1, NotificationAssumption DEF SweepCoherent
    <3>2. QED
      BY <1>5, <2>1, <3>1, UnusedFacts
  <2>3. \A m \in sweep.staged, e \in Events : note'[e].key = m.key => note'[e] = note[e]
    <3>1. \A m \in sweep.staged : m.key # k
      BY <1>2, <2>1 DEF SweepCoherent
    <3>2. QED
      BY <1>3, <1>5, <3>1
  <2>4. QED
    BY <2>1, <2>2, <2>3 DEF SweepCoherent
<1>7. DigestCoherent(note', digest)
    BY <1>5, TableFacts DEF NotifyInvariant, DigestCoherent, Digests
<1>8. NotifyTypeOK'
    BY <1>2, <1>5 DEF NotifyInvariant, NotifyTypeOK
<1>9. QED
    BY <1>2, <1>5, <1>6, <1>7, <1>8 DEF NotifyInvariant, RowsCoherent

(* The commit of a sweep: each staged key was released before.              *)
LEMMA SweepCommitInv ==
    ASSUME NotifyInvariant, SweepCommit
    PROVE  NotifyInvariant'
<1>1. /\ Commit(sweep.released, sweep.staged) /\ sweep' = NoSweep
      /\ UNCHANGED <<raised, worker, digest, faults>>
    BY DEF SweepCommit
<1>2. /\ sweep.released \in SUBSET Events /\ sweep.staged \in SUBSET Note
      /\ SweepCoherent(note, sweep)
    BY DEF NotifyInvariant, Sweeps
<1>3. /\ note' \in [Events -> Note]
      /\ \A e \in Events : RowCoherent(note'[e], worker[e], faults)
      /\ KeysUnique(note')
      /\ \A e \in Events : note[e].mail = "deferred" => note'[e].mail = "deferred"
  <2>1. \A n \in sweep.staged : n.key \in Keys /\ n \in Dispatched(n.key)
    BY <1>2 DEF SweepCoherent, Keys
  <2>2. \A m, n \in sweep.staged : m.key = n.key => m = n
    BY <1>2 DEF SweepCoherent
  <2>3. \A n \in sweep.staged, e \in Events : note[e].key = n.key => e \in sweep.released
    BY <1>2 DEF SweepCoherent
  <2>4. QED
    BY <1>1, <1>2, <2>1, <2>2, <2>3, CommitInv
<1>4. sweep' \in Sweeps /\ SweepCoherent(note', sweep')
    BY <1>1 DEF NoSweep, Sweeps, SweepCoherent
<1>5. DigestCoherent(note', digest)
    BY <1>3, TableFacts DEF NotifyInvariant, DigestCoherent, Digests
<1>6. NotifyTypeOK'
    BY <1>1, <1>3, <1>4 DEF NotifyInvariant, NotifyTypeOK, Sweeps
<1>7. QED
    BY <1>1, <1>3, <1>4, <1>5, <1>6 DEF NotifyInvariant, RowsCoherent

-----------------------------------------------------------------------------
(* The sweep.                                                               *)

(* A step of the sweep that writes nothing, and leaves it coherent.         *)
LEMMA SweepMoves ==
    ASSUME NotifyInvariant, sweep' \in Sweeps, SweepCoherent(note, sweep'),
           faults' \in 0..MaxFaults, faults <= faults',
           UNCHANGED <<raised, note, worker, digest>>
    PROVE  NotifyInvariant'
<1>1. ASSUME NEW e \in Events PROVE RowCoherent(note[e], worker[e], faults')
  <2>1. faults' \in Nat
    BY Numbers
  <2>2. QED
    BY <2>1, RowFacts, Numbers DEF RowCoherent
<1>2. NotifyTypeOK'
    BY DEF NotifyInvariant, NotifyTypeOK, Sweeps
<1>3. QED
    BY <1>1, <1>2 DEF NotifyInvariant, RowsCoherent

(* _sync stages an event only with the key it has released.                 *)
LEMMA SyncInv ==
    ASSUME NotifyInvariant, NEW k \in Alerts, Sync(k)
    PROVE  NotifyInvariant'
<1>1. PICK truncated \in {FALSE, (k \in RunBased)}, n \in Dispatched(k) :
        LET released == Released(k, truncated)
            emits == k \in raised /\ ~Suppressed(k, released)
        IN  /\ emits => ~Taken(k, released)
            /\ sweep' = [sweep EXCEPT
                            !.todo = @ \ {k},
                            !.released = @ \cup released,
                            !.staged = @ \cup IF emits THEN {n} ELSE {}]
    BY DEF Sync
<1> DEFINE released == Released(k, truncated)
           emits == k \in raised /\ ~Suppressed(k, released)
           new == IF emits THEN {n} ELSE {}
<1>2. /\ k \in Keys /\ k \in sweep.todo /\ sweep \in Sweeps /\ SweepCoherent(note, sweep)
      /\ UNCHANGED <<raised, note, worker, digest, faults>>
    BY DEF Keys, Sync, Evaluates, NotifyInvariant
<1>3. n \in Note /\ n.key = k /\ n \in Dispatched(n.key)
    BY <1>2, DispatchedFacts
<1>4. released \in SUBSET Events /\ new \in SUBSET Note /\ \A m \in new : m = n
    BY <1>3 DEF Released
<1>5. \A m \in new, e \in Events :
            note[e].key = k => e \in released /\ e \in sweep.expired
  <2> SUFFICES ASSUME emits, NEW e \in Events, note[e].key = k
               PROVE  e \in released /\ e \in sweep.expired
    OBVIOUS
  <2>1. e \in released
    BY <1>1 DEF Taken
  <2>2. QED
    BY <2>1 DEF Released
<1>6. sweep' = [sweep EXCEPT !.todo = sweep.todo \ {k},
                             !.released = sweep.released \cup released,
                             !.staged = sweep.staged \cup new]
    BY <1>1
<1> HIDE DEF released, new
<1>7. /\ sweep' \in Sweeps /\ sweep'.todo = sweep.todo \ {k}
      /\ sweep'.expired = sweep.expired
      /\ sweep'.released = sweep.released \cup released
      /\ sweep'.staged = sweep.staged \cup new
    BY <1>2, <1>4, <1>6 DEF Sweeps
<1>8. SweepCoherent(note, sweep')
  <2>1. \A m \in sweep'.staged : m.key \in Alerts \ sweep'.todo /\ m \in Dispatched(m.key)
    BY <1>2, <1>3, <1>4, <1>7 DEF SweepCoherent
  <2>2. \A m, l \in sweep'.staged : m.key = l.key => m = l
    BY <1>2, <1>3, <1>4, <1>7 DEF SweepCoherent
  <2>3. \A e \in sweep'.expired : note[e].key \in Alerts /\ note[e].ttl = "expired"
    BY <1>2, <1>7 DEF SweepCoherent
  <2>4. \A m \in sweep'.staged, e \in Events :
            note[e].key = m.key => e \in sweep'.released /\ note[e].ttl = "expired"
    BY <1>2, <1>3, <1>4, <1>5, <1>7 DEF SweepCoherent
  <2>5. QED
    BY <2>1, <2>2, <2>3, <2>4 DEF SweepCoherent
<1>9. QED
    BY <1>2, <1>7, <1>8, TableFacts, SweepMoves

(* The other steps of the sweep.                                            *)
LEMMA SweepInv ==
    ASSUME NotifyInvariant,
           \/ SweepStep
           \/ \E k \in Alerts : EvaluatorFails(k)
    PROVE  NotifyInvariant'
<1>0. sweep \in Sweeps /\ SweepCoherent(note, sweep) /\ faults \in 0..MaxFaults
      /\ faults \in Nat /\ faults <= faults
    BY TableFacts DEF NotifyInvariant
<1>1. CASE evaluate
  <2>1. /\ sweep' = [NoSweep EXCEPT !.open = TRUE, !.todo = Alerts, !.expired = Expired]
        /\ UNCHANGED <<raised, note, worker, digest, faults>>
    BY <1>1 DEF evaluate
  <2>2. Expired \in SUBSET Events
    BY DEF Expired
  <2>3. sweep' \in Sweeps /\ sweep'.staged = {} /\ sweep'.expired = Expired
    BY <2>1, <2>2 DEF NoSweep, Sweeps
  <2>4. SweepCoherent(note, sweep')
    BY <2>3 DEF SweepCoherent, Expired
  <2>5. QED
    BY <1>0, <2>1, <2>3, <2>4, SweepMoves
<1>2. CASE SweepCommit
    BY <1>2, SweepCommitInv
<1>3. ASSUME NEW k \in Alerts, Sync(k) PROVE NotifyInvariant'
    BY <1>3, SyncInv
<1>4. ASSUME NEW k \in Alerts, SyncCollides(k) PROVE NotifyInvariant'
  <2>1. sweep' = NoSweep /\ UNCHANGED <<raised, note, worker, digest, faults>>
    BY <1>4 DEF SyncCollides
  <2>2. sweep' \in Sweeps /\ SweepCoherent(note, sweep')
    BY <2>1 DEF NoSweep, Sweeps, SweepCoherent
  <2>3. QED
    BY <1>0, <2>1, <2>2, SweepMoves
<1>5. ASSUME NEW k \in Alerts, EvaluatorFails(k) PROVE NotifyInvariant'
  <2>1. /\ sweep' = [sweep EXCEPT !.todo = @ \ {k}] /\ UNCHANGED <<raised, note, worker, digest>>
        /\ faults < MaxFaults /\ faults' = faults + 1
    BY <1>5 DEF EvaluatorFails, Fault
  <2>2. faults' \in 0..MaxFaults /\ faults <= faults'
    BY <1>0, <2>1, Numbers
  <2>3. /\ sweep' \in Sweeps /\ sweep'.todo \subseteq sweep.todo
        /\ sweep'.staged = sweep.staged /\ sweep'.released = sweep.released
        /\ sweep'.expired = sweep.expired
    BY <1>0, <2>1 DEF Sweeps
  <2>4. SweepCoherent(note, sweep')
    BY <1>0, <2>3 DEF SweepCoherent
  <2>5. QED
    BY <2>1, <2>2, <2>3, <2>4, SweepMoves
<1>6. QED
    BY <1>1, <1>2, <1>3, <1>4, <1>5 DEF SweepStep

-----------------------------------------------------------------------------

(* Nothing is announced, queued or staged at first.                         *)
LEMMA InitInv == Init => NotifyInvariant
<1> SUFFICES ASSUME Init PROVE NotifyInvariant
    OBVIOUS
<1>1. NoSweep \in Sweeps /\ NoDigest \in Digests /\ 0 \in 0..MaxFaults
    BY Numbers DEF NoSweep, Sweeps, NoDigest, Digests
<1>2. NotifyTypeOK
    BY <1>1, UnusedFacts DEF Init, NotifyTypeOK, Sweeps, Digests
<1>3. \A spent : RowCoherent(Unused, "idle", spent)
    BY UnusedFacts DEF RowCoherent, Answers
<1>4. RowsCoherent
    BY <1>3 DEF Init, RowsCoherent
<1>5. KeysUnique(note)
    BY UnusedFacts DEF Init, KeysUnique
<1>6. SweepCoherent(note, sweep) /\ DigestCoherent(note, digest)
    BY DEF Init, SweepCoherent, DigestCoherent, NoSweep, NoDigest
<1>7. sweep \in Sweeps /\ digest \in Digests
    BY <1>1 DEF Init
<1>8. QED
    BY <1>2, <1>4, <1>5, <1>6, <1>7 DEF NotifyInvariant

(* Every step keeps the invariant.                                          *)
LEMMA NextInv == NotifyInvariant /\ [Next]_vars => NotifyInvariant'
<1> SUFFICES ASSUME NotifyInvariant, [Next]_vars PROVE NotifyInvariant'
    OBVIOUS
<1>1. ASSUME NEW e \in Events, Deliver(e) PROVE NotifyInvariant'
    BY <1>1, ClaimDeliveryInv, ProcessDeliveryInv, EndDeliveryInv, MarkInv DEF Deliver
<1>2. CASE UNCHANGED vars
    BY <1>2 DEF vars, NotifyInvariant, NotifyTypeOK, RowsCoherent, KeysUnique, SweepCoherent,
                DigestCoherent
<1>3. QED
    BY <1>1, <1>2, EmitInv, ChangesInv, SweepInv, ExpiresInv, CancelDeliveryInv, DigestInv,
       CrashInv
       DEF Next

(* The rows, the executions and the transactions keep their types.          *)
THEOREM NotifyTypes == Spec => []NotifyTypeOK
<1>1. NotifyInvariant => NotifyTypeOK
    BY DEF NotifyInvariant
<1>2. QED
    BY <1>1, InitInv, NextInv, PTL DEF Spec

(* What is recorded as sent is not sent again, however executions, digests  *)
(* and restarts interleave.                                                 *)
THEOREM SentOnceHolds == Spec => []SentOnce
<1>1. ASSUME NotifyInvariant, NEW e \in Events
      PROVE  /\ note[e].hook = "delivered" => worker[e] \notin Answers
             /\ note[e].mail = "closed" => e \notin digest.todo
    BY <1>1, RowFacts DEF RowCoherent, NotifyInvariant, DigestCoherent
<1>2. NotifyInvariant => SentOnce
    BY <1>1 DEF SentOnce
<1>3. QED
    BY <1>2, InitInv, NextInv, PTL DEF Spec

(* Dedup keys are unique, and a pending webhook row has an active or        *)
(* cancelled job, or one whose every attempt was lost to a fault.           *)
THEOREM OutboxHoldsHolds == Spec => []OutboxHolds
<1>1. ASSUME NotifyInvariant, NEW e \in Events
      PROVE  /\ \A f \in Events : (e # f /\ note[e].key = note[f].key)
                                    => note[e].key = NoKey
             /\ note[e].hook = "pending" =>
                \/ note[e].job \in {"queued", "running", "cancelled"}
                \/ note[e].job = "failed" /\ faults >= MAX_ATTEMPTS
  <2>1. RowCoherent(note[e], worker[e], faults) /\ KeysUnique(note)
    BY <1>1, RowFacts DEF NotifyInvariant
  <2>2. QED
    BY <2>1 DEF RowCoherent, KeysUnique
<1>2. NotifyInvariant => OutboxHolds
    BY <1>1 DEF OutboxHolds
<1>3. QED
    BY <1>2, InitInv, NextInv, PTL DEF Spec

(* A sweep never announces again what it found announced and live, whatever *)
(* expires while it is under way.                                           *)
THEOREM QuietWhileLiveHolds == Spec => []QuietWhileLive
<1>1. NotifyInvariant => QuietWhileLive
    BY DEF NotifyInvariant, SweepCoherent, QuietWhileLive
<1>2. QED
    BY <1>1, InitInv, NextInv, PTL DEF Spec
=============================================================================
