------------------------------ MODULE Extensions ------------------------------
(***************************************************************************)
(* The lifecycle of one imported extension (a T2 connector): its install   *)
(* row, the job source minted for it, and the git sources that offer it.   *)
(*                                                                         *)
(* A request loads the row into its session, awaits a fetch or a query,    *)
(* and commits.  The UPDATE it sends holds the columns it changed with     *)
(* respect to the copy it loaded, so a row that moved on in between is     *)
(* merged column by column.  In-memory locks per source and per install    *)
(* keep some requests apart, not all: a self-disable commits after its     *)
(* lock is gone, and what holds a source's lock does not hold the          *)
(* install's.  A request that finds its lock taken gives up and changes    *)
(* nothing.  What a fetch finds is arbitrary: a digest stands for the      *)
(* content and the manifest in it.                                         *)
(***************************************************************************)
EXTENDS Naturals, FiniteSets

CONSTANTS
    Sources,   \* the (origin, subpath) pairs an admin can register
    Digests,   \* the contents a fetch can find
    Requests   \* the requests in flight at one time

ASSUME ExtensionsAssumption == Digests \cap {"none", "drift", "absent"} = {}

Kinds ==
    {"remove_source", "sync_source", "install_extension", "apply_update",
     "self_disable", "set_install_enabled", "park_install",
     "tombstone_install", "reconcile"}

VARIABLES
    sources,   \* the registered sources
    install,   \* the install row; the extension id is unique
    instance,  \* the minted job source: "absent", "off" or "on"
    req,       \* the requests
    buried     \* history: tombstoned, and not imported again since

vars == <<sources, install, instance, req, buried>>

NoSource == "no_source"

States == {"absent", "installed", "disabled", "self-disabled", "removed"}

(* update holds its state, or the digest of an available update.            *)
Install ==
    [state : States, enabled : BOOLEAN, parked : BOOLEAN,
     digest : Digests \cup {"none"}, source : Sources \cup {NoSource},
     managed_by : {"manual", "gitops"},
     update : {"none", "drift", "absent"} \cup Digests,
     consents : SUBSET Digests]

NoInstall ==
    [state |-> "absent", enabled |-> FALSE, parked |-> FALSE, digest |-> "none",
     source |-> NoSource, managed_by |-> "manual", update |-> "none",
     consents |-> {}]

Columns == DOMAIN NoInstall

(* A request: the source it works on, the digest of the consent echo or of  *)
(* the desired pin, the switch (the one it asks for; for a fetch, the one   *)
(* of the job source it loaded), the state of the row it found, and what    *)
(* its session will send: the changed columns, and their values.            *)
Idle ==
    [kind |-> "none", pc |-> "idle", src |-> NoSource, pin |-> "none",
     enable |-> FALSE, found |-> "absent", changed |-> {}, row |-> NoInstall]

Request ==
    [kind : Kinds \cup {"none"}, pc : {"idle", "read", "locked", "pending"},
     src : Sources \cup {NoSource}, pin : Digests \cup {"none"},
     enable : BOOLEAN, found : States, changed : SUBSET Columns, row : Install]

(* Types, and the foreign key: an install names a registered source.        *)
ExtTypeOK ==
    /\ sources \subseteq Sources
    /\ install \in Install
    /\ install.source \in sources \cup {NoSource}
    /\ instance \in {"absent", "off", "on"}
    /\ req \in [Requests -> Request]
    /\ buried \in BOOLEAN

Init ==
    /\ sources = {}
    /\ install = NoInstall
    /\ instance = "absent"
    /\ req = [r \in Requests |-> Idle]
    /\ buried = FALSE

Present == install.state # "absent"

-----------------------------------------------------------------------------
(* Locks and sessions                                                       *)

SourceLockers == {"remove_source", "sync_source", "install_extension", "apply_update", "reconcile"}

InstallLockers ==
    {"apply_update", "set_install_enabled", "park_install", "tombstone_install"}

(* _exclusive: a lock is held by the request that is inside its block.      *)
SourceFree(s) ==
    \A r \in Requests :
        ~(req[r].pc = "locked" /\ req[r].kind \in SourceLockers /\ req[r].src = s)

InstallFree ==
    \A r \in Requests : ~(req[r].pc = "locked" /\ req[r].kind \in InstallLockers)

Enter(r, request) ==
    /\ req' = [req EXCEPT ![r] = request]
    /\ UNCHANGED <<sources, install, instance, buried>>

Leave(r) == req' = [req EXCEPT ![r] = Idle]

(* An error ends the request: its session is rolled back, its locks freed.  *)
GivesUp(r) ==
    /\ Leave(r)
    /\ UNCHANGED <<sources, install, instance, buried>>

(* Sent, not committed: the query for the job source in self_disable sends  *)
(* the UPDATE, and the database keeps the row for it until the commit.      *)
RowFree(r) ==
    \A q \in Requests \ {r} : ~(req[q].kind = "self_disable" /\ req[q].pc = "pending")

Commits(r) == RowFree(r) /\ Leave(r)

(* The session compares the copy it loaded with the one it wants: a request *)
(* x that is going to send the columns in which they differ.                *)
Sends(x, loaded, wanted) ==
    [x EXCEPT !.changed = {c \in Columns : wanted[c] # loaded[c]},
              !.row = [c \in Columns |->
                          IF wanted[c] # loaded[c] THEN wanted[c] ELSE NoInstall[c]]]

(* A list with a record more always differs from the one that was loaded.   *)
SendsRecord(x, loaded, wanted) ==
    LET sent == Sends(x, loaded, wanted)
    IN  [sent EXCEPT !.changed = @ \cup {"consents"}, !.row.consents = wanted.consents]

(* The commit's UPDATE: a column the session changed, else what the row has *)
(* now.                                                                     *)
Merged(x) ==
    [c \in Columns |-> IF c \in x.changed THEN x.row[c] ELSE install[c]]

(* The minted job source is disabled with the install.                      *)
SwitchOff == instance' = IF instance = "on" THEN "off" ELSE instance

-----------------------------------------------------------------------------
(* Sources                                                                  *)

add_source(s) ==
    /\ s \notin sources
    /\ sources' = sources \cup {s}
    /\ UNCHANGED <<install, instance, req, buried>>

(* _park: disabled and flagged; a tombstone keeps its state.                *)
Parked(row) ==
    [row EXCEPT !.enabled = FALSE, !.parked = TRUE,
                !.state = IF @ = "removed" THEN @ ELSE "disabled"]

(* Mutant: the lock of the source is not taken.                             *)
LocksSource_unlocked(r, s) == req[r] = Idle /\ s \in sources

LocksSource(r, s) ==
    /\ req[r] = Idle
    /\ s \in sources
    /\ SourceFree(s)

(* The installs of the source are read with it.                             *)
remove_source(r, s) ==
    LET mine   == Present /\ install.source = s
        wanted == IF mine THEN [Parked(install) EXCEPT !.source = NoSource] ELSE install
    IN  /\ LocksSource(r, s)
        /\ Enter(r, Sends([Idle EXCEPT !.kind = "remove_source", !.pc = "locked",
                                       !.src = s, !.found = install.state],
                          install, wanted))

(* The installs of the source are parked and let go, then it is deleted;    *)
(* the foreign key clears what still names it.                              *)
RemoveCommit(r) ==
    /\ req[r].kind = "remove_source" /\ req[r].pc = "locked"
    /\ sources' = sources \ {req[r].src}
    /\ install' = [Merged(req[r]) EXCEPT !.source = IF @ = req[r].src THEN NoSource ELSE @]
    /\ IF "source" \in req[r].changed THEN SwitchOff ELSE UNCHANGED instance
    /\ Commits(r)
    /\ UNCHANGED buried

sync_source(r, s) ==
    /\ LocksSource(r, s)
    /\ Enter(r, [Idle EXCEPT !.kind = "sync_source", !.pc = "locked", !.src = s])

(* _check_updates: what a found digest makes of the update note.  A ref     *)
(* that moved makes a new digest an available update, a ref that did not    *)
(* makes it drift.  The note "absent" is put into the loaded dict itself,   *)
(* so the session sees no change unless the dict was empty.                 *)
Checked(row, found) ==
    IF found = "nothing" THEN {IF row.update = "none" THEN "absent" ELSE row.update}
    ELSE IF found = row.digest THEN {"none"}
    ELSE {"drift", found}

(* After the fetch the rows are read and written; a failed fetch changes    *)
(* the status of the source only.                                           *)
SyncCommit(r) ==
    /\ req[r].kind = "sync_source" /\ req[r].pc = "locked"
    /\ install.source = req[r].src /\ Present /\ install.state # "removed"
    /\ \E found \in Digests \cup {"nothing"} :
        \E note \in Checked(install, found) : install' = [install EXCEPT !.update = note]
    /\ Commits(r)
    /\ UNCHANGED <<sources, instance, buried>>

-----------------------------------------------------------------------------
(* install_extension and apply_update                                       *)

(* _land_install: revived or new, disabled, with a consent record more.     *)
Landed(row, s, digest) ==
    [row EXCEPT !.state = "installed", !.enabled = FALSE, !.parked = FALSE,
                !.digest = digest, !.source = s, !.managed_by = "manual",
                !.update = "none", !.consents = @ \cup {digest}]

(* An enabled install is refused.  The fresh fetch is to find the digest of *)
(* the echo.                                                                *)
install_extension(r, s, digest) ==
    /\ LocksSource(r, s)
    /\ ~install.enabled
    /\ Enter(r, SendsRecord([Idle EXCEPT !.kind = "install_extension", !.pc = "locked",
                                         !.src = s, !.found = install.state],
                            install, Landed(install, s, digest)))

(* An insert beside a row that another request made meanwhile fails on the  *)
(* unique key.                                                              *)
LandCommit(r) ==
    /\ req[r].kind = "install_extension" /\ req[r].pc = "locked"
    /\ (req[r].found = "absent") => ~Present
    /\ install' = Merged(req[r])
    /\ instance' = "off"
    /\ buried' = FALSE
    /\ Commits(r)
    /\ UNCHANGED sources

(* Mutant: the content moves without the consent record.                    *)
Applied_unrecorded(row, digest) ==
    [row EXCEPT !.digest = digest, !.update = "none"]

Applied(row, digest) ==
    [row EXCEPT !.digest = digest, !.update = "none", !.consents = @ \cup {digest}]

(* apply_update reads the row and its source before it takes the locks; the *)
(* echo agrees with the update available in that copy.                      *)
apply_update(r) ==
    /\ req[r] = Idle
    /\ Present /\ install.source \in sources
    /\ install.update \in Digests
    /\ Enter(r, SendsRecord([Idle EXCEPT !.kind = "apply_update", !.pc = "read",
                                         !.src = install.source, !.found = install.state],
                            install, Applied(install, install.update)))

ApplyLock(r) ==
    /\ req[r].kind = "apply_update" /\ req[r].pc = "read"
    /\ SourceFree(req[r].src) /\ InstallFree
    /\ Enter(r, [req[r] EXCEPT !.pc = "locked"])

ApplyCommit(r) ==
    /\ req[r].kind = "apply_update" /\ req[r].pc = "locked"
    /\ install' = Merged(req[r])
    /\ Commits(r)
    /\ UNCHANGED <<sources, instance, buried>>

-----------------------------------------------------------------------------
(* Controls                                                                 *)

(* t2_install: only an enabled install in the state installed resolves.     *)
Serves == install.state = "installed" /\ install.enabled

(* A sync of the job source, enabled or not, starts a sandboxed fetch with  *)
(* the rows it found.                                                       *)
FetchStarts(r) ==
    /\ req[r] = Idle
    /\ Serves
    /\ instance # "absent"
    /\ Enter(r, [Idle EXCEPT !.kind = "self_disable", !.pc = "read",
                             !.enable = (instance = "on"), !.found = install.state])

(* The sandbox dies: self_disable changes its copy inside the install lock; *)
(* the commit is the caller's, after the lock is gone, and who reads in     *)
(* between sees the old row.                                                *)
self_disable(r) ==
    /\ req[r].kind = "self_disable" /\ req[r].pc = "read"
    /\ InstallFree
    /\ Enter(r, [req[r] EXCEPT !.pc = "pending", !.changed = {"state", "enabled"},
                               !.row = [NoInstall EXCEPT !.state = "self-disabled"]])

(* The switch of the job source is compared with the copy, too.             *)
SelfDisableCommit(r) ==
    /\ req[r].kind = "self_disable" /\ req[r].pc = "pending"
    /\ install' = Merged(req[r])
    /\ IF req[r].enable THEN SwitchOff ELSE UNCHANGED instance
    /\ Commits(r)
    /\ UNCHANGED <<sources, buried>>

(* Mutant: the lock of the install is not taken.                            *)
LocksInstall_unlocked(r) == req[r] = Idle /\ Present

LocksInstall(r) ==
    /\ req[r] = Idle
    /\ Present
    /\ InstallFree

(* Enabling is the only way out of disabled and self-disabled.              *)
Switched(row, enable) ==
    IF enable
    THEN [row EXCEPT !.enabled = TRUE, !.parked = FALSE,
                     !.state = IF @ \in {"disabled", "self-disabled"} THEN "installed" ELSE @]
    ELSE [row EXCEPT !.enabled = FALSE]

set_install_enabled(r, enable) ==
    /\ LocksInstall(r)
    /\ install.state # "removed"
    /\ Enter(r, Sends([Idle EXCEPT !.kind = "set_install_enabled", !.pc = "locked",
                                   !.enable = enable, !.found = install.state],
                      install, Switched(install, enable)))

(* Without its job source the request is refused.                           *)
SwitchCommit(r) ==
    /\ req[r].kind = "set_install_enabled" /\ req[r].pc = "locked"
    /\ instance # "absent"
    /\ install' = Merged(req[r])
    /\ instance' = IF req[r].enable THEN "on" ELSE "off"
    /\ Commits(r)
    /\ UNCHANGED <<sources, buried>>

park_install(r) ==
    /\ LocksInstall(r)
    /\ Enter(r, Sends([Idle EXCEPT !.kind = "park_install", !.pc = "locked",
                                   !.found = install.state],
                      install, Parked(install)))

tombstone_install(r) ==
    /\ LocksInstall(r)
    /\ Enter(r, Sends([Idle EXCEPT !.kind = "tombstone_install", !.pc = "locked",
                                   !.found = install.state],
                      install, [Parked(install) EXCEPT !.state = "removed"]))

(* The commit of park_install, tombstone_install.                           *)
ParkCommit(r) ==
    /\ req[r].kind \in {"park_install", "tombstone_install"} /\ req[r].pc = "locked"
    /\ install' = Merged(req[r])
    /\ SwitchOff
    /\ buried' = (buried \/ req[r].kind = "tombstone_install")
    /\ Commits(r)
    /\ UNCHANGED sources

(* The admin endpoints of the job sources write the minted one by itself.   *)
update_posting_source(enabled) ==
    /\ instance # "absent"
    /\ instance' = IF enabled THEN "on" ELSE "off"
    /\ UNCHANGED <<sources, install, req, buried>>

delete_posting_source ==
    /\ instance # "absent"
    /\ instance' = "absent"
    /\ UNCHANGED <<sources, install, req, buried>>

-----------------------------------------------------------------------------
(* GitOps                                                                   *)

(* _reconcile_pin: a previously consented digest becomes an available       *)
(* update; another one only a note.                                         *)
Repinned(row, pin) ==
    IF pin # row.digest /\ pin \in row.consents THEN [row EXCEPT !.update = pin] ELSE row

(* A managed install the document names is re-pinned, one it no longer      *)
(* names is parked; a manual one stays.                                     *)
Reconciled(row, s, pin) ==
    IF row.state = "absent" \/ row.managed_by = "manual" THEN row
    ELSE IF s # NoSource THEN Repinned(row, pin)
    ELSE IF row.parked THEN row ELSE Parked(row)

(* reconcile reads the desired document and the rows.  The document, which  *)
(* put_desired_state writes, names the extension with a source and a pin,   *)
(* or does not name it; then the commit is all that is left.                *)
reconcile(r, s, pin) ==
    /\ req[r] = Idle
    /\ (s = NoSource) <=> (pin = "none")
    /\ Enter(r, Sends([Idle EXCEPT !.kind = "reconcile",
                                   !.pc = IF s = NoSource THEN "pending" ELSE "read",
                                   !.src = s, !.pin = IF Present THEN "none" ELSE pin,
                                   !.found = install.state],
                      install, Reconciled(install, s, pin)))

Reconciling(r, pc) == req[r].kind = "reconcile" /\ req[r].pc = pc

(* A declared source that is not registered is added in passing.            *)
ReconcileAdd(r) ==
    /\ Reconciling(r, "read")
    /\ req[r].src \in Sources \ sources
    /\ add_source(req[r].src)

(* With an install, inside the source lock and without an await.            *)
ReconcilePin(r) ==
    /\ Reconciling(r, "read")
    /\ req[r].found # "absent"
    /\ req[r].src \in sources /\ SourceFree(req[r].src)
    /\ Enter(r, [req[r] EXCEPT !.pc = "pending"])

(* Without one, a fetch with the lock held; the row is looked for again.    *)
ReconcileMissing(r) ==
    /\ Reconciling(r, "read")
    /\ req[r].found = "absent"
    /\ req[r].src \in sources /\ SourceFree(req[r].src)
    /\ Enter(r, [req[r] EXCEPT !.pc = "locked"])

(* Mutant: the document's intent to enable is obeyed.                       *)
Restored_enabled(row, s, pin) ==
    IF row.state # "absent" /\ pin \in row.consents
    THEN [row EXCEPT !.state = "installed", !.parked = FALSE, !.enabled = TRUE,
                     !.managed_by = "gitops", !.source = s]
    ELSE row

(* _reconcile_missing_install on a row that has appeared since.             *)
Restored(row, s, pin) ==
    IF row.state # "absent" /\ pin \in row.consents
    THEN [row EXCEPT !.state = "installed", !.parked = FALSE, !.enabled = FALSE,
                     !.managed_by = "gitops", !.source = s]
    ELSE row

ReconcileRestore(r) ==
    /\ Reconciling(r, "locked")
    /\ Enter(r, Sends([req[r] EXCEPT !.pc = "pending", !.found = install.state],
                      install, Restored(install, req[r].src, req[r].pin)))

(* The lock is taken, or the document does not declare the source.          *)
ReconcileSkips(r) ==
    /\ Reconciling(r, "read")
    /\ Enter(r, [Idle EXCEPT !.kind = "reconcile", !.pc = "pending"])

(* Parks, Restores: what the patch of a reconcile does.                     *)
Parks(x) == "parked" \in x.changed /\ x.row.parked

Restores(x) == "state" \in x.changed /\ x.row.state = "installed"

ReconcileCommit(r) ==
    /\ Reconciling(r, "pending")
    /\ ("source" \in req[r].changed) => req[r].row.source \in sources
    /\ install' = Merged(req[r])
    /\ IF Parks(req[r]) THEN SwitchOff ELSE UNCHANGED instance
    /\ buried' = (buried /\ ~(Restores(req[r]) /\ req[r].found = "removed"))
    /\ Commits(r)
    /\ UNCHANGED sources

(* An error, a refused lock, a moved echo, a drifted fetch: nothing done.   *)
Fails(r) == req[r] # Idle /\ GivesUp(r)

(* The process ends: sessions and locks are gone.                           *)
Crash ==
    /\ req' = [r \in Requests |-> Idle]
    /\ UNCHANGED <<sources, install, instance, buried>>

SourceStep(r) ==
    \/ \E s \in Sources :
        \/ remove_source(r, s) \/ sync_source(r, s)
        \/ \E d \in Digests : install_extension(r, s, d)
    \/ RemoveCommit(r) \/ SyncCommit(r) \/ LandCommit(r)

InstallStep(r) ==
    \/ apply_update(r) \/ ApplyLock(r) \/ ApplyCommit(r)
    \/ FetchStarts(r) \/ self_disable(r) \/ SelfDisableCommit(r)
    \/ \E enable \in BOOLEAN : set_install_enabled(r, enable)
    \/ SwitchCommit(r)
    \/ park_install(r) \/ tombstone_install(r) \/ ParkCommit(r)

ReconcileStep(r) ==
    \/ \E s \in Sources \cup {NoSource}, pin \in Digests \cup {"none"} : reconcile(r, s, pin)
    \/ ReconcileAdd(r) \/ ReconcilePin(r) \/ ReconcileMissing(r)
    \/ ReconcileRestore(r) \/ ReconcileSkips(r) \/ ReconcileCommit(r)

JobSourceStep ==
    \/ \E enabled \in BOOLEAN : update_posting_source(enabled)
    \/ delete_posting_source

Next ==
    \/ \E s \in Sources : add_source(s)
    \/ \E r \in Requests : SourceStep(r) \/ InstallStep(r) \/ ReconcileStep(r) \/ Fails(r)
    \/ JobSourceStep
    \/ Crash

Spec == Init /\ [][Next]_vars

-----------------------------------------------------------------------------
(* Properties                                                               *)

(* An install or an update writes the content and the record of the consent *)
(* to it together, however old the copies the two are computed from: the    *)
(* step that moves an install to a digest leaves a consent to it.           *)
ContentMovesWithRecord ==
    [][install'.digest # install.digest => install'.digest \in install'.consents]_vars

(* Installs, updates, restores and self-disables never enable, whatever     *)
(* copy of the switch they loaded and send back: an install is turned on    *)
(* only by an admin's enable, its job source only by that or by an admin's  *)
(* edit of the job source.                                                  *)
OnlyAdminsEnable ==
    [][/\ ~install.enabled /\ install'.enabled =>
             \E r \in Requests : SwitchCommit(r) /\ req[r].enable
       /\ instance # "on" /\ instance' = "on" =>
             \/ \E r \in Requests : SwitchCommit(r) /\ req[r].enable
             \/ update_posting_source(TRUE)]_vars

(* A tombstoned install is never enabled: the lock of the install keeps the *)
(* enable and the tombstone apart, and no other request sends TRUE.         *)
TombstoneIsOff == install.state = "removed" => ~install.enabled

(* A tombstoned extension is not enabled again before it is imported again. *)
TombstoneNeedsReimport == buried => ~Serves
=============================================================================
