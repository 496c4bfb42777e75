--------------------------- MODULE ExtensionsProofs ---------------------------
(***************************************************************************)
(* Proofs about the extension lifecycle, for every number of sources,      *)
(* contents and requests in flight, which overlap wherever the locks let   *)
(* them: content never moves without the record of a consent, only an      *)
(* admin turns a switch on, and a tombstoned install is off.               *)
(***************************************************************************)
EXTENDS Extensions, TLAPS

-----------------------------------------------------------------------------
(* The inductive invariant                                                  *)

HoldsInstall(x) == x.pc = "locked" /\ x.kind \in InstallLockers

HoldsSource(x) == x.pc = "locked" /\ x.kind \in SourceLockers

(* No lock is held by two requests.                                         *)
Compatible(x, y) ==
    /\ ~(HoldsInstall(x) /\ HoldsInstall(y))
    /\ HoldsSource(x) /\ HoldsSource(y) => x.src # y.src

(* The requests that hold their lock from the first step to the last.       *)
AlwaysLocked ==
    {"remove_source", "sync_source", "install_extension", "set_install_enabled",
     "park_install", "tombstone_install"}

Shaped(x) == x.kind \in AlwaysLocked => x.pc = "locked"

(* What a request may send: content with its record, TRUE only for an       *)
(* admin's enable, "removed" only for a tombstone, a source's name only for *)
(* an import or a restore.                                                  *)
Patch(x) ==
    /\ "digest" \in x.changed => "consents" \in x.changed /\ x.row.digest \in x.row.consents
    /\ "enabled" \in x.changed /\ x.row.enabled => x.kind = "set_install_enabled" /\ x.enable
    /\ "state" \in x.changed /\ x.row.state = "removed" => x.kind = "tombstone_install"
    /\ "source" \in x.changed =>
          \/ x.row.source = NoSource
          \/ x.kind = "reconcile"
          \/ x.kind = "install_extension" /\ x.row.source = x.src

(* What the lock of a request keeps true of the tables.                     *)
Agrees(x) ==
    /\ x.kind = "install_extension" => x.src \in sources
    /\ x.kind = "set_install_enabled" => install.state # "removed"
    /\ x.kind = "tombstone_install" /\ "enabled" \notin x.changed => ~install.enabled

ExtensionsInvariant ==
    /\ ExtTypeOK
    /\ TombstoneIsOff
    /\ \A r \in Requests : Shaped(req[r]) /\ Patch(req[r]) /\ Agrees(req[r])
    /\ \A r \in Requests, q \in Requests : r # q => Compatible(req[r], req[q])

-----------------------------------------------------------------------------
(* Columns, patches and merges                                              *)

(* The columns of the row.                                                  *)
LEMMA ColumnsAre ==
    Columns = {"state", "enabled", "parked", "digest", "source", "managed_by",
               "update", "consents"}
  BY DEF Columns, NoInstall

(* An absent install has the columns of a row.                              *)
LEMMA NoInstallType == NoInstall \in Install
  BY DEF NoInstall, Install, States

(* A slot without a request, and requests that have nothing to send yet.    *)
LEMMA IdleType ==
    /\ Idle \in Request
    /\ Shaped(Idle) /\ Patch(Idle) /\ Agrees(Idle)
    /\ \A y : Compatible(Idle, y) /\ Compatible(y, Idle)
  BY NoInstallType DEF Idle, Request, Kinds, States, Shaped, Patch, Agrees, Compatible,
     AlwaysLocked, HoldsInstall, HoldsSource

(* What the invariant says of the types, in the shape the steps need.       *)
LEMMA TypeFacts ==
    ASSUME ExtensionsInvariant, NEW r \in Requests
    PROVE  /\ install \in Install /\ req[r] \in Request
           /\ req \in [Requests -> Request]
           /\ Shaped(req[r]) /\ Patch(req[r]) /\ Agrees(req[r])
  BY DEF ExtensionsInvariant, ExtTypeOK

(* The columns of a session's UPDATE are those in which its two copies      *)
(* differ, with the values of the copy it wants.                            *)
LEMMA SendsFields ==
    ASSUME NEW x \in Request, NEW loaded \in Install, NEW wanted \in Install,
           NEW y, y = Sends(x, loaded, wanted)
    PROVE  /\ y \in Request
           /\ y.kind = x.kind /\ y.pc = x.pc /\ y.src = x.src /\ y.enable = x.enable
           /\ "state" \in y.changed <=> wanted.state # loaded.state
           /\ "enabled" \in y.changed <=> wanted.enabled # loaded.enabled
           /\ "digest" \in y.changed <=> wanted.digest # loaded.digest
           /\ "source" \in y.changed <=> wanted.source # loaded.source
           /\ "state" \in y.changed => y.row.state = wanted.state
           /\ "enabled" \in y.changed => y.row.enabled = wanted.enabled
           /\ "digest" \in y.changed => y.row.digest = wanted.digest
           /\ "source" \in y.changed => y.row.source = wanted.source
  <1> DEFINE changed == {c \in Columns : wanted[c] # loaded[c]}
             row == [c \in Columns |-> IF wanted[c] # loaded[c] THEN wanted[c] ELSE NoInstall[c]]
  <1>1. y = [x EXCEPT !.changed = changed, !.row = row]
    BY DEF Sends
  <1>2. row \in Install
    BY ColumnsAre, NoInstallType DEF Install
  <1>3. changed \in SUBSET Columns
    OBVIOUS
  <1>4. y \in Request /\ y.changed = changed /\ y.row = row
    <2> HIDE DEF changed, row
    <2> QED BY <1>1, <1>2, <1>3 DEF Request
  <1>5. y.kind = x.kind /\ y.pc = x.pc /\ y.src = x.src /\ y.enable = x.enable
    <2> HIDE DEF changed, row
    <2> QED BY <1>1 DEF Request
  <1>6. ASSUME NEW c \in Columns
        PROVE  /\ c \in changed <=> wanted[c] # loaded[c]
               /\ c \in changed => row[c] = wanted[c]
    OBVIOUS
  <1>7. {"state", "enabled", "digest", "source"} \subseteq Columns
    BY ColumnsAre
  <1> HIDE DEF changed, row
  <1> QED BY <1>4, <1>5, <1>6, <1>7

(* ... and the consents as well when a record is appended.                  *)
LEMMA SendsRecordFields ==
    ASSUME NEW x \in Request, NEW loaded \in Install, NEW wanted \in Install,
           NEW y, y = SendsRecord(x, loaded, wanted)
    PROVE  /\ y \in Request
           /\ y.kind = x.kind /\ y.pc = x.pc /\ y.src = x.src /\ y.enable = x.enable
           /\ "consents" \in y.changed /\ y.row.consents = wanted.consents
           /\ "state" \in y.changed <=> wanted.state # loaded.state
           /\ "enabled" \in y.changed <=> wanted.enabled # loaded.enabled
           /\ "state" \in y.changed => y.row.state = wanted.state
           /\ "enabled" \in y.changed => y.row.enabled = wanted.enabled
           /\ "digest" \in y.changed => y.row.digest = wanted.digest
           /\ "source" \in y.changed <=> wanted.source # loaded.source
           /\ "source" \in y.changed => y.row.source = wanted.source
  <1> DEFINE sent == Sends(x, loaded, wanted)
  <1>1. sent \in Request
    BY SendsFields
  <1>2. /\ sent.kind = x.kind /\ sent.pc = x.pc /\ sent.src = x.src /\ sent.enable = x.enable
        /\ "state" \in sent.changed <=> wanted.state # loaded.state
        /\ "enabled" \in sent.changed <=> wanted.enabled # loaded.enabled
        /\ "state" \in sent.changed => sent.row.state = wanted.state
        /\ "enabled" \in sent.changed => sent.row.enabled = wanted.enabled
        /\ "digest" \in sent.changed => sent.row.digest = wanted.digest
        /\ "source" \in sent.changed <=> wanted.source # loaded.source
        /\ "source" \in sent.changed => sent.row.source = wanted.source
    BY SendsFields
  <1>3. y = [sent EXCEPT !.changed = @ \cup {"consents"}, !.row.consents = wanted.consents]
    BY DEF SendsRecord
  <1> HIDE DEF sent
  <1>4. "consents" \in Columns
    BY ColumnsAre
  <1>5. wanted.consents \in SUBSET Digests
    BY DEF Install
  <1>6. /\ y.changed = sent.changed \cup {"consents"}
        /\ y.row = [sent.row EXCEPT !.consents = wanted.consents]
        /\ y.kind = sent.kind /\ y.pc = sent.pc /\ y.src = sent.src /\ y.enable = sent.enable
    BY <1>1, <1>3 DEF Request
  <1>7. sent.row \in Install
    BY <1>1 DEF Request
  <1>8. y.row \in Install
    BY <1>5, <1>6, <1>7 DEF Install
  <1>9. y \in Request
    BY <1>1, <1>3, <1>4, <1>6, <1>8 DEF Request
  <1>10. /\ y.row.consents = wanted.consents
         /\ y.row.state = sent.row.state /\ y.row.enabled = sent.row.enabled
         /\ y.row.digest = sent.row.digest /\ y.row.source = sent.row.source
    BY <1>6, <1>7 DEF Install
  <1> QED BY <1>2, <1>6, <1>9, <1>10

(* A commit takes the changed columns from the patch, the others from the   *)
(* row as it is.                                                            *)
LEMMA MergedFields ==
    ASSUME install \in Install, NEW x \in Request, NEW row, row = Merged(x)
    PROVE  /\ row \in Install
           /\ row.state = IF "state" \in x.changed THEN x.row.state ELSE install.state
           /\ row.enabled = IF "enabled" \in x.changed THEN x.row.enabled ELSE install.enabled
           /\ row.digest = IF "digest" \in x.changed THEN x.row.digest ELSE install.digest
           /\ row.consents = IF "consents" \in x.changed THEN x.row.consents
                             ELSE install.consents
           /\ row.source = IF "source" \in x.changed THEN x.row.source ELSE install.source
  <1>1. x.row \in Install
    BY DEF Request
  <1>2. row \in Install
    BY <1>1, ColumnsAre DEF Merged, Install
  <1>3. \A c \in Columns : row[c] = IF c \in x.changed THEN x.row[c] ELSE install[c]
    BY DEF Merged
  <1>4. {"state", "enabled", "digest", "consents", "source"} \subseteq Columns
    BY ColumnsAre
  <1> QED BY <1>2, <1>3, <1>4

(* Parking turns the switch off and keeps content and source.               *)
LEMMA ParkedFields ==
    ASSUME NEW row \in Install
    PROVE  /\ Parked(row) \in Install
           /\ [Parked(row) EXCEPT !.state = "removed"] \in Install
           /\ [Parked(row) EXCEPT !.source = NoSource] \in Install
           /\ ~Parked(row).enabled
           /\ Parked(row).state = IF row.state = "removed" THEN "removed" ELSE "disabled"
           /\ Parked(row).digest = row.digest /\ Parked(row).source = row.source
  BY DEF Parked, Install, States

-----------------------------------------------------------------------------
(* Requests come, move and go                                               *)

(* A request that starts or moves on keeps the invariant, if it takes no    *)
(* lock another one holds and sends nothing it may not send.                *)
LEMMA EnterKeeps ==
    ASSUME ExtensionsInvariant, NEW r \in Requests, NEW x \in Request, Enter(r, x),
           HoldsSource(x) => SourceFree(x.src),
           HoldsInstall(x) => InstallFree,
           Shaped(x), Patch(x), Agrees(x)
    PROVE  ExtensionsInvariant'
  <1>1. /\ req' = [req EXCEPT ![r] = x]
        /\ UNCHANGED <<sources, install, instance, buried>>
    BY DEF Enter
  <1>2. /\ req' \in [Requests -> Request] /\ req'[r] = x
        /\ \A q \in Requests \ {r} : req'[q] = req[q]
    BY <1>1, TypeFacts
  <1>3. ExtTypeOK' /\ TombstoneIsOff'
    BY <1>1, <1>2 DEF ExtensionsInvariant, ExtTypeOK, TombstoneIsOff
  <1>4. ASSUME NEW q \in Requests
        PROVE  (Shaped(req[q]) /\ Patch(req[q]) /\ Agrees(req[q]))'
    <2>1. Shaped(req'[q]) /\ Patch(req'[q]) /\ Agrees(req'[q])
      BY <1>2, TypeFacts
    <2> QED BY <1>1, <2>1 DEF Shaped, Patch, Agrees
  <1>5. ASSUME NEW q \in Requests \ {r}
        PROVE  Compatible(x, req[q]) /\ Compatible(req[q], x)
    BY DEF Compatible, HoldsInstall, HoldsSource, InstallFree, SourceFree
  <1>6. ASSUME NEW p \in Requests, NEW q \in Requests, p # q
        PROVE  Compatible(req'[p], req'[q])
    BY <1>2, <1>5, <1>6 DEF ExtensionsInvariant
  <1>7. ASSUME NEW p \in Requests, NEW q \in Requests, p # q
        PROVE  Compatible(req[p], req[q])'
    BY <1>6, <1>7 DEF Compatible, HoldsInstall, HoldsSource
  <1> QED BY <1>3, <1>4, <1>7 DEF ExtensionsInvariant

(* A request that ends keeps the invariant, if the row it leaves is in      *)
(* order and takes nothing from under the locks of the others.              *)
LEMMA LeaveKeeps ==
    ASSUME ExtensionsInvariant, NEW r \in Requests, Leave(r),
           install' \in Install, sources' \subseteq Sources,
           install'.source \in sources' \cup {NoSource},
           instance' \in {"absent", "off", "on"}, buried' \in BOOLEAN,
           TombstoneIsOff',
           \A q \in Requests \ {r} : Agrees(req[q])'
    PROVE  ExtensionsInvariant'
  <1>1. /\ req' \in [Requests -> Request] /\ req'[r] = Idle
        /\ \A q \in Requests \ {r} : req'[q] = req[q]
    BY IdleType, TypeFacts DEF Leave
  <1>2. ExtTypeOK'
    BY <1>1 DEF ExtTypeOK
  <1>3. ASSUME NEW q \in Requests
        PROVE  (Shaped(req[q]) /\ Patch(req[q]) /\ Agrees(req[q]))'
    <2>1. CASE q = r
      <3>1. (Shaped(Idle) /\ Patch(Idle) /\ Agrees(Idle))'
        BY IdleType, PTL
      <3> QED BY <1>1, <2>1, <3>1 DEF Shaped, Patch, Agrees
    <2>2. CASE q # r
      <3>1. req'[q] = req[q] /\ Shaped(req[q]) /\ Patch(req[q])
        BY <1>1, <2>2, TypeFacts
      <3>2. (Shaped(req[q]) /\ Patch(req[q]))'
        BY <3>1 DEF Shaped, Patch
      <3> QED BY <2>2, <3>2
    <2> QED BY <2>1, <2>2
  <1>4. ASSUME NEW p \in Requests, NEW q \in Requests, p # q
        PROVE  Compatible(req'[p], req'[q])
    BY <1>1, <1>4, IdleType DEF ExtensionsInvariant
  <1>5. ASSUME NEW p \in Requests, NEW q \in Requests, p # q
        PROVE  Compatible(req[p], req[q])'
    BY <1>4, <1>5 DEF Compatible, HoldsInstall, HoldsSource
  <1> QED BY <1>2, <1>3, <1>5 DEF ExtensionsInvariant

(* Two requests are never in the blocks of the same lock.                   *)
LEMMA Exclusive ==
    ASSUME ExtensionsInvariant, NEW r \in Requests, NEW q \in Requests \ {r}
    PROVE  /\ ~(HoldsInstall(req[r]) /\ HoldsInstall(req[q]))
           /\ HoldsSource(req[r]) /\ HoldsSource(req[q]) => req[r].src # req[q].src
  BY DEF ExtensionsInvariant, Compatible

(* What the others rely on survives a commit that neither turns the switch  *)
(* on, nor buries, nor removes a source, or holds the lock it takes.        *)
LEMMA OthersAgree ==
    ASSUME ExtensionsInvariant, NEW r \in Requests,
           sources \subseteq sources',
           \/ HoldsInstall(req[r])
           \/ /\ install'.enabled => install.enabled
              /\ install'.state = "removed" => install.state = "removed",
           \A q \in Requests \ {r} : req'[q] = req[q]
    PROVE  \A q \in Requests \ {r} : Agrees(req[q])'
  <1> SUFFICES ASSUME NEW q \in Requests \ {r} PROVE Agrees(req[q])'
    OBVIOUS
  <1>1. Shaped(req[q]) /\ Agrees(req[q]) /\ req'[q] = req[q]
    BY TypeFacts
  <1>2. CASE HoldsInstall(req[r])
    <2>1. ~HoldsInstall(req[q])
      BY <1>2, Exclusive
    <2>2. req[q].kind # "set_install_enabled" /\ req[q].kind # "tombstone_install"
      BY <1>1, <2>1 DEF Shaped, HoldsInstall, AlwaysLocked, InstallLockers
    <2> QED BY <1>1, <2>2 DEF Agrees
  <1>3. CASE ~HoldsInstall(req[r])
    BY <1>1, <1>3 DEF Agrees
  <1> QED BY <1>2, <1>3

-----------------------------------------------------------------------------
(* Starts                                                                   *)

(* A request that starts with a lock on a source.                           *)
LEMMA SourceStartKeeps ==
    ASSUME ExtensionsInvariant, NEW r \in Requests, NEW s \in Sources,
           \/ remove_source(r, s) \/ sync_source(r, s)
           \/ \E d \in Digests : install_extension(r, s, d)
    PROVE  ExtensionsInvariant'
  <1>1. CASE remove_source(r, s)
    <2> DEFINE wanted == IF Present /\ install.source = s
                         THEN [Parked(install) EXCEPT !.source = NoSource] ELSE install
               z == [Idle EXCEPT !.kind = "remove_source", !.pc = "locked", !.src = s,
                                 !.found = install.state]
               x == Sends(z, install, wanted)
    <2>1. install \in Install
      BY TypeFacts
    <2>2. z \in Request /\ z.kind = "remove_source" /\ z.pc = "locked" /\ z.src = s
      BY <2>1, IdleType DEF Request, Idle, Kinds, Install
    <2>3. /\ wanted \in Install
          /\ wanted.digest = install.digest
          /\ wanted.enabled => install.enabled
          /\ wanted.state = "removed" => install.state = "removed"
          /\ wanted.source # install.source => wanted.source = NoSource
      <3> DEFINE parked == Parked(install)
      <3>1. /\ parked \in Install /\ [parked EXCEPT !.source = NoSource] \in Install
            /\ ~parked.enabled /\ parked.digest = install.digest
            /\ parked.state = "removed" => install.state = "removed"
        BY <2>1, ParkedFields
      <3>2. wanted = IF Present /\ install.source = s
                     THEN [parked EXCEPT !.source = NoSource] ELSE install
        OBVIOUS
      <3> HIDE DEF wanted, parked
      <3> QED BY <2>1, <3>1, <3>2 DEF Install
    <2> HIDE DEF wanted, z
    <2>4. /\ x \in Request /\ x.kind = "remove_source" /\ x.pc = "locked" /\ x.src = s
          /\ Patch(x)
      <3>1. wanted.enabled \in BOOLEAN /\ install.enabled \in BOOLEAN
        BY <2>1, <2>3 DEF Install
      <3> QED BY <2>1, <2>2, <2>3, <3>1, SendsFields DEF Patch
    <2>5. LocksSource(r, s) /\ Enter(r, x)
      BY <1>1 DEF remove_source, wanted, z
    <2> HIDE DEF x
    <2>6. Shaped(x) /\ Agrees(x) /\ ~HoldsInstall(x)
      BY <2>4 DEF Shaped, Agrees, HoldsInstall, InstallLockers
    <2>7. SourceFree(x.src)
      BY <2>4, <2>5 DEF LocksSource
    <2> QED BY <2>4, <2>5, <2>6, <2>7, EnterKeeps
  <1>2. CASE sync_source(r, s)
    <2> DEFINE x == [Idle EXCEPT !.kind = "sync_source", !.pc = "locked", !.src = s]
    <2>1. /\ x \in Request /\ x.kind = "sync_source" /\ x.src = s
          /\ Shaped(x) /\ Patch(x) /\ Agrees(x) /\ ~HoldsInstall(x)
      BY IdleType DEF Request, Idle, Kinds, Shaped, Patch, Agrees, HoldsInstall, InstallLockers
    <2>2. LocksSource(r, s) /\ Enter(r, x)
      BY <1>2 DEF sync_source
    <2> HIDE DEF x
    <2>3. SourceFree(x.src)
      BY <2>1, <2>2 DEF LocksSource
    <2> QED BY <2>1, <2>2, <2>3, EnterKeeps
  <1>3. ASSUME NEW d \in Digests, install_extension(r, s, d)
        PROVE  ExtensionsInvariant'
    <2> DEFINE wanted == Landed(install, s, d)
               z == [Idle EXCEPT !.kind = "install_extension", !.pc = "locked", !.src = s,
                                 !.found = install.state]
               x == SendsRecord(z, install, wanted)
    <2>1. install \in Install
      BY TypeFacts
    <2>2. z \in Request /\ z.kind = "install_extension" /\ z.pc = "locked" /\ z.src = s
      BY <2>1, IdleType DEF Request, Idle, Kinds, Install
    <2>3. /\ wanted \in Install
          /\ wanted.state = "installed" /\ ~wanted.enabled /\ wanted.source = s
          /\ wanted.digest = d /\ d \in wanted.consents
      BY <2>1 DEF Install, Landed, States
    <2> HIDE DEF wanted, z
    <2>4. /\ x \in Request /\ x.kind = "install_extension" /\ x.pc = "locked" /\ x.src = s
          /\ Patch(x)
      BY <2>1, <2>2, <2>3, SendsRecordFields DEF Patch
    <2>5. LocksSource(r, s) /\ Enter(r, x)
      BY <1>3 DEF install_extension, wanted, z
    <2> HIDE DEF x
    <2>6. Shaped(x) /\ Agrees(x) /\ ~HoldsInstall(x)
      BY <2>4, <2>5 DEF Shaped, Agrees, HoldsInstall, InstallLockers, LocksSource
    <2>7. SourceFree(x.src)
      BY <2>4, <2>5 DEF LocksSource
    <2> QED BY <2>4, <2>5, <2>6, <2>7, EnterKeeps
  <1> QED BY <1>1, <1>2, <1>3

(* An update starts with the consent record of its content.                 *)
LEMMA ApplyKeeps ==
    ASSUME ExtensionsInvariant, NEW r \in Requests, apply_update(r) \/ ApplyLock(r)
    PROVE  ExtensionsInvariant'
  <1>1. CASE apply_update(r)
    <2> DEFINE wanted == Applied(install, install.update)
               z == [Idle EXCEPT !.kind = "apply_update", !.pc = "read",
                                 !.src = install.source, !.found = install.state]
               x == SendsRecord(z, install, wanted)
    <2>1. install \in Install /\ install.update \in Digests
      BY <1>1, TypeFacts DEF apply_update
    <2>2. z \in Request /\ z.kind = "apply_update" /\ z.pc = "read"
      BY <2>1, IdleType DEF Request, Idle, Kinds, Install
    <2>3. /\ wanted \in Install
          /\ wanted.state = install.state /\ wanted.enabled = install.enabled
          /\ wanted.source = install.source
          /\ wanted.digest \in wanted.consents
      BY <2>1 DEF Install, Applied
    <2>5. x \in Request /\ x.kind = "apply_update" /\ x.pc = "read"
      <3> HIDE DEF wanted, z
      <3> QED BY <2>1, <2>2, <2>3, SendsRecordFields
    <2>6. Patch(x)
      <3>1. "state" \notin x.changed /\ "enabled" \notin x.changed
        <4> HIDE DEF wanted, z
        <4> QED BY <2>1, <2>2, <2>3, SendsRecordFields
      <3> HIDE DEF wanted, z
      <3> QED BY <2>1, <2>2, <2>3, <3>1, SendsRecordFields DEF Patch
    <2>7. Enter(r, x)
      BY <1>1 DEF apply_update
    <2> HIDE DEF x
    <2>8. Shaped(x) /\ Agrees(x) /\ ~HoldsInstall(x) /\ ~HoldsSource(x)
      BY <2>5 DEF Shaped, Agrees, HoldsInstall, HoldsSource, AlwaysLocked
    <2> QED BY <2>5, <2>6, <2>7, <2>8, EnterKeeps
  <1>2. CASE ApplyLock(r)
    <2> DEFINE x == [req[r] EXCEPT !.pc = "locked"]
    <2>1. req[r] \in Request /\ Patch(req[r]) /\ req[r].kind = "apply_update"
      BY <1>2, TypeFacts DEF ApplyLock
    <2>2. /\ x \in Request /\ x.kind = "apply_update" /\ x.src = req[r].src
          /\ x.changed = req[r].changed /\ x.row = req[r].row
      BY <2>1 DEF Request
    <2>3. Enter(r, x) /\ SourceFree(req[r].src) /\ InstallFree
      BY <1>2 DEF ApplyLock
    <2> HIDE DEF x
    <2>4. Shaped(x) /\ Patch(x) /\ Agrees(x)
      BY <2>1, <2>2 DEF Shaped, Patch, Agrees, AlwaysLocked
    <2> QED BY <2>2, <2>3, <2>4, EnterKeeps
  <1> QED BY <1>1, <1>2

(* A fetch starts, and a self-disable changes its copy.                     *)
LEMMA SelfDisableKeeps ==
    ASSUME ExtensionsInvariant, NEW r \in Requests, FetchStarts(r) \/ self_disable(r)
    PROVE  ExtensionsInvariant'
  <1>1. CASE FetchStarts(r)
    <2> DEFINE x == [Idle EXCEPT !.kind = "self_disable", !.pc = "read",
                                 !.enable = (instance = "on"), !.found = install.state]
    <2>1. install.state \in States
      BY TypeFacts DEF Install
    <2>2. (instance = "on") \in BOOLEAN
      OBVIOUS
    <2>3. x \in Request /\ x.kind = "self_disable" /\ x.pc = "read" /\ x.changed = {}
      BY <2>1, <2>2, IdleType DEF Request, Idle, Kinds
    <2>4. Enter(r, x)
      BY <1>1 DEF FetchStarts
    <2> HIDE DEF x
    <2>5. Shaped(x) /\ Patch(x) /\ Agrees(x) /\ ~HoldsInstall(x) /\ ~HoldsSource(x)
      BY <2>3 DEF Shaped, Patch, Agrees, HoldsInstall, HoldsSource, AlwaysLocked
    <2> QED BY <2>3, <2>4, <2>5, EnterKeeps
  <1>2. CASE self_disable(r)
    <2> DEFINE row == [NoInstall EXCEPT !.state = "self-disabled"]
               x == [req[r] EXCEPT !.pc = "pending", !.changed = {"state", "enabled"},
                                   !.row = row]
    <2>1. req[r] \in Request /\ req[r].kind = "self_disable"
      BY <1>2, TypeFacts DEF self_disable
    <2>2. row \in Install /\ row.state = "self-disabled" /\ ~row.enabled
      BY NoInstallType DEF Install, States, NoInstall
    <2>3. {"state", "enabled"} \in SUBSET Columns
      BY ColumnsAre
    <2> HIDE DEF row
    <2>4. /\ x \in Request /\ x.kind = "self_disable" /\ x.pc = "pending"
          /\ x.changed = {"state", "enabled"} /\ x.row = row
      BY <2>1, <2>2, <2>3 DEF Request
    <2>5. Enter(r, x)
      BY <1>2 DEF self_disable, row
    <2> HIDE DEF x
    <2>6. Shaped(x) /\ Patch(x) /\ Agrees(x) /\ ~HoldsInstall(x) /\ ~HoldsSource(x)
      BY <2>2, <2>4 DEF Shaped, Patch, Agrees, HoldsInstall, HoldsSource, AlwaysLocked
    <2> QED BY <2>4, <2>5, <2>6, EnterKeeps
  <1> QED BY <1>1, <1>2

(* The controls start with the lock of the install.                         *)
LEMMA ControlStartKeeps ==
    ASSUME ExtensionsInvariant, NEW r \in Requests,
           \/ \E enable \in BOOLEAN : set_install_enabled(r, enable)
           \/ park_install(r) \/ tombstone_install(r)
    PROVE  ExtensionsInvariant'
  <1>1. install \in Install
    BY TypeFacts
  <1>2. ASSUME NEW enable \in BOOLEAN, set_install_enabled(r, enable)
        PROVE  ExtensionsInvariant'
    <2> DEFINE wanted == Switched(install, enable)
               z == [Idle EXCEPT !.kind = "set_install_enabled", !.pc = "locked",
                                 !.enable = enable, !.found = install.state]
               x == Sends(z, install, wanted)
    <2>1. z \in Request /\ z.kind = "set_install_enabled" /\ z.pc = "locked" /\ z.enable = enable
      BY <1>1, IdleType DEF Request, Idle, Kinds, Install
    <2>2. /\ wanted \in Install
          /\ wanted.enabled = enable /\ wanted.digest = install.digest
          /\ wanted.source = install.source
          /\ wanted.state = install.state \/ wanted.state = "installed"
      BY <1>1 DEF Install, Switched, States
    <2>3. LocksInstall(r) /\ install.state # "removed" /\ Enter(r, x)
      BY <1>2 DEF set_install_enabled
    <2> HIDE DEF wanted, z
    <2>4. x \in Request /\ x.kind = "set_install_enabled" /\ x.pc = "locked" /\ Patch(x)
      BY <1>1, <2>1, <2>2, SendsFields DEF Patch
    <2> HIDE DEF x
    <2>5. Shaped(x) /\ Agrees(x) /\ ~HoldsSource(x) /\ InstallFree
      BY <2>3, <2>4 DEF Shaped, Agrees, HoldsSource, SourceLockers, LocksInstall
    <2> QED BY <2>3, <2>4, <2>5, EnterKeeps
  <1>3. CASE park_install(r)
    <2> DEFINE wanted == Parked(install)
               z == [Idle EXCEPT !.kind = "park_install", !.pc = "locked",
                                 !.found = install.state]
               x == Sends(z, install, wanted)
    <2>1. z \in Request /\ z.kind = "park_install" /\ z.pc = "locked"
      BY <1>1, IdleType DEF Request, Idle, Kinds, Install
    <2>2. /\ wanted \in Install /\ ~wanted.enabled
          /\ wanted.digest = install.digest /\ wanted.source = install.source
          /\ wanted.state = "removed" => install.state = "removed"
      BY <1>1, ParkedFields
    <2>3. LocksInstall(r) /\ Enter(r, x)
      BY <1>3 DEF park_install
    <2> HIDE DEF wanted, z
    <2>4. x \in Request /\ x.kind = "park_install" /\ x.pc = "locked" /\ Patch(x)
      BY <1>1, <2>1, <2>2, SendsFields DEF Patch
    <2> HIDE DEF x
    <2>5. Shaped(x) /\ Agrees(x) /\ ~HoldsSource(x) /\ InstallFree
      BY <2>3, <2>4 DEF Shaped, Agrees, HoldsSource, SourceLockers, LocksInstall
    <2> QED BY <2>3, <2>4, <2>5, EnterKeeps
  <1>4. CASE tombstone_install(r)
    <2> DEFINE parked == Parked(install)
               wanted == [parked EXCEPT !.state = "removed"]
               z == [Idle EXCEPT !.kind = "tombstone_install", !.pc = "locked",
                                 !.found = install.state]
               x == Sends(z, install, wanted)
    <2>1. z \in Request /\ z.kind = "tombstone_install" /\ z.pc = "locked"
      BY <1>1, IdleType DEF Request, Idle, Kinds, Install
    <2>2. /\ parked \in Install /\ wanted \in Install /\ ~parked.enabled
          /\ parked.digest = install.digest /\ parked.source = install.source
      BY <1>1, ParkedFields
    <2>3. LocksInstall(r) /\ Enter(r, x)
      BY <1>4 DEF tombstone_install
    <2>4. /\ wanted \in Install /\ ~wanted.enabled
          /\ wanted.digest = install.digest /\ wanted.source = install.source
      <3> HIDE DEF parked
      <3> QED BY <2>2 DEF Install
    <2> HIDE DEF wanted, z, parked
    <2>5. /\ x \in Request /\ x.kind = "tombstone_install" /\ x.pc = "locked"
          /\ Patch(x)
          /\ "enabled" \notin x.changed => ~install.enabled
      BY <1>1, <2>1, <2>4, SendsFields DEF Patch
    <2> HIDE DEF x
    <2>6. Shaped(x) /\ Agrees(x) /\ ~HoldsSource(x) /\ InstallFree
      BY <2>3, <2>5 DEF Shaped, Agrees, HoldsSource, SourceLockers, LocksInstall
    <2> QED BY <2>3, <2>5, <2>6, EnterKeeps
  <1> QED BY <1>2, <1>3, <1>4

(* A reconcile sends neither content nor a switch that is on.               *)
LEMMA QuietPatch ==
    ASSUME NEW z \in Request, NEW loaded \in Install, NEW wanted \in Install,
           NEW x, x = Sends(z, loaded, wanted),
           z.kind = "reconcile",
           wanted.digest = loaded.digest,
           wanted.enabled => loaded.enabled,
           wanted.state = "removed" => loaded.state = "removed"
    PROVE  x \in Request /\ x.kind = "reconcile" /\ x.pc = z.pc /\ Patch(x)
  <1>1. /\ x \in Request /\ x.kind = "reconcile" /\ x.pc = z.pc
        /\ "digest" \notin x.changed
        /\ "state" \in x.changed => wanted.state # loaded.state /\ x.row.state = wanted.state
        /\ "enabled" \in x.changed =>
              wanted.enabled # loaded.enabled /\ x.row.enabled = wanted.enabled
    BY SendsFields
  <1>2. ~("state" \in x.changed /\ x.row.state = "removed")
    BY <1>1
  <1>3. ~("enabled" \in x.changed /\ x.row.enabled)
    <2>1. wanted.enabled \in BOOLEAN /\ loaded.enabled \in BOOLEAN
      BY DEF Install
    <2> QED BY <1>1, <2>1
  <1> QED BY <1>1, <1>2, <1>3 DEF Patch

(* The steps of a reconcile up to its commit.                               *)
LEMMA ReconcileKeeps ==
    ASSUME ExtensionsInvariant, NEW r \in Requests,
           \/ \E s \in Sources \cup {NoSource}, pin \in Digests \cup {"none"} : reconcile(r, s, pin)
           \/ ReconcilePin(r) \/ ReconcileMissing(r) \/ ReconcileRestore(r) \/ ReconcileSkips(r)
    PROVE  ExtensionsInvariant'
  <1>1. install \in Install /\ req[r] \in Request /\ Patch(req[r])
    BY TypeFacts
  <1>2. ASSUME NEW s \in Sources \cup {NoSource}, NEW pin \in Digests \cup {"none"},
               reconcile(r, s, pin)
        PROVE  ExtensionsInvariant'
    <2> DEFINE wanted == Reconciled(install, s, pin)
               z == [Idle EXCEPT !.kind = "reconcile",
                                 !.pc = IF s = NoSource THEN "pending" ELSE "read",
                                 !.src = s, !.pin = IF Present THEN "none" ELSE pin,
                                 !.found = install.state]
               x == Sends(z, install, wanted)
    <2>1. z \in Request /\ z.kind = "reconcile" /\ z.pc # "locked"
      <3> DEFINE p == IF s = NoSource THEN "pending" ELSE "read"
                 d == IF Present THEN "none" ELSE pin
                 found == install.state
      <3>1. p \in {"pending", "read"} /\ d \in Digests \cup {"none"} /\ found \in States
        BY <1>1 DEF Install
      <3> HIDE DEF p, d, found
      <3>2. z = [Idle EXCEPT !.kind = "reconcile", !.pc = p, !.src = s, !.pin = d,
                             !.found = found]
        BY DEF p, d, found
      <3> HIDE DEF z
      <3>3. Idle \in Request
        BY IdleType
      <3>4. z \in Request /\ z.kind = "reconcile" /\ z.pc = p
        BY <3>1, <3>2, <3>3 DEF Request, Kinds
      <3> QED BY <3>1, <3>4
    <2>2. /\ wanted \in Install
          /\ wanted.digest = install.digest
          /\ wanted.enabled => install.enabled
          /\ wanted.state = "removed" => install.state = "removed"
      <3>1. CASE wanted = install
        BY <1>1, <3>1
      <3>2. CASE wanted = Parked(install)
        BY <1>1, <3>2, ParkedFields
      <3>3. CASE s # NoSource /\ wanted = Repinned(install, pin) /\ wanted # install
        <4>1. pin \in Digests
          BY <1>1, <3>3 DEF Repinned, Install
        <4> QED BY <1>1, <3>3, <4>1 DEF Repinned, Install
      <3> QED BY <3>1, <3>2, <3>3 DEF Reconciled
    <2>3. Enter(r, x)
      BY <1>2 DEF reconcile
    <2> HIDE DEF wanted, z
    <2>4. x \in Request /\ x.kind = "reconcile" /\ x.pc # "locked" /\ Patch(x)
      BY <1>1, <2>1, <2>2, QuietPatch
    <2> HIDE DEF x
    <2>5. Shaped(x) /\ Agrees(x) /\ ~HoldsSource(x) /\ ~HoldsInstall(x)
      BY <2>4 DEF Shaped, Agrees, HoldsSource, HoldsInstall, AlwaysLocked
    <2> QED BY <2>3, <2>4, <2>5, EnterKeeps
  <1>3. CASE ReconcilePin(r)
    <2> DEFINE x == [req[r] EXCEPT !.pc = "pending"]
    <2>1. /\ x \in Request /\ x.kind = "reconcile" /\ x.pc = "pending"
          /\ x.changed = req[r].changed /\ x.row = req[r].row
      BY <1>1, <1>3 DEF Request, ReconcilePin, Reconciling
    <2>2. Enter(r, x) /\ req[r].kind = "reconcile"
      BY <1>3 DEF ReconcilePin, Reconciling
    <2> HIDE DEF x
    <2>3. Shaped(x) /\ Patch(x) /\ Agrees(x) /\ ~HoldsSource(x) /\ ~HoldsInstall(x)
      BY <1>1, <2>1, <2>2 DEF Shaped, Patch, Agrees, HoldsSource, HoldsInstall, AlwaysLocked
    <2> QED BY <2>1, <2>2, <2>3, EnterKeeps
  <1>4. CASE ReconcileMissing(r)
    <2> DEFINE x == [req[r] EXCEPT !.pc = "locked"]
    <2>1. /\ x \in Request /\ x.kind = "reconcile" /\ x.src = req[r].src
          /\ x.changed = req[r].changed /\ x.row = req[r].row
      BY <1>1, <1>4 DEF Request, ReconcileMissing, Reconciling
    <2>2. Enter(r, x) /\ req[r].kind = "reconcile" /\ SourceFree(req[r].src)
      BY <1>4 DEF ReconcileMissing, Reconciling
    <2> HIDE DEF x
    <2>3. Shaped(x) /\ Patch(x) /\ Agrees(x) /\ ~HoldsInstall(x)
      BY <1>1, <2>1, <2>2 DEF Shaped, Patch, Agrees, HoldsInstall, InstallLockers, AlwaysLocked
    <2> QED BY <2>1, <2>2, <2>3, EnterKeeps
  <1>5. CASE ReconcileRestore(r)
    <2> DEFINE wanted == Restored(install, req[r].src, req[r].pin)
               z == [req[r] EXCEPT !.pc = "pending", !.found = install.state]
               x == Sends(z, install, wanted)
    <2>1. z \in Request /\ z.kind = "reconcile" /\ z.pc = "pending"
      BY <1>1, <1>5 DEF Request, Install, ReconcileRestore, Reconciling
    <2>2. /\ wanted \in Install
          /\ wanted.digest = install.digest
          /\ wanted.enabled => install.enabled
          /\ wanted.state = "removed" => install.state = "removed"
      <3>1. req[r].src \in Sources \cup {NoSource}
        BY <1>1 DEF Request
      <3>2. wanted \in {install, [install EXCEPT !.state = "installed", !.parked = FALSE,
                                  !.enabled = FALSE, !.managed_by = "gitops",
                                  !.source = req[r].src]}
        BY DEF Restored
      <3> QED BY <1>1, <3>1, <3>2 DEF Install, States
    <2>3. Enter(r, x)
      BY <1>5 DEF ReconcileRestore
    <2> HIDE DEF wanted, z
    <2>4. x \in Request /\ x.kind = "reconcile" /\ x.pc = "pending" /\ Patch(x)
      BY <1>1, <2>1, <2>2, QuietPatch
    <2> HIDE DEF x
    <2>5. Shaped(x) /\ Agrees(x) /\ ~HoldsSource(x) /\ ~HoldsInstall(x)
      BY <2>4 DEF Shaped, Agrees, HoldsSource, HoldsInstall, AlwaysLocked
    <2> QED BY <2>3, <2>4, <2>5, EnterKeeps
  <1>6. CASE ReconcileSkips(r)
    <2> DEFINE x == [Idle EXCEPT !.kind = "reconcile", !.pc = "pending"]
    <2>1. /\ x \in Request
          /\ Shaped(x) /\ Patch(x) /\ Agrees(x) /\ ~HoldsSource(x) /\ ~HoldsInstall(x)
      BY IdleType DEF Request, Idle, Kinds, Shaped, Patch, Agrees, HoldsSource, HoldsInstall,
                      AlwaysLocked
    <2>2. Enter(r, x)
      BY <1>6 DEF ReconcileSkips
    <2> HIDE DEF x
    <2> QED BY <2>1, <2>2, EnterKeeps
  <1> QED BY <1>2, <1>3, <1>4, <1>5, <1>6

-----------------------------------------------------------------------------
(* Commits                                                                  *)

(* The row a commit leaves names a registered source.                       *)
LEMMA MergedTyped ==
    ASSUME ExtensionsInvariant, NEW r \in Requests, NEW row, row = Merged(req[r]),
           req[r].kind = "reconcile" /\ "source" \in req[r].changed =>
               req[r].row.source \in sources
    PROVE  row \in Install /\ row.source \in sources \cup {NoSource}
  <1>1. /\ install \in Install /\ req[r] \in Request /\ Patch(req[r]) /\ Agrees(req[r])
        /\ install.source \in sources \cup {NoSource}
    BY TypeFacts DEF ExtensionsInvariant, ExtTypeOK
  <1>2. /\ row \in Install
        /\ row.source = IF "source" \in req[r].changed THEN req[r].row.source
                        ELSE install.source
    BY <1>1, MergedFields
  <1> QED BY <1>1, <1>2 DEF Patch, Agrees

(* Who neither enables nor buries leaves the switch and the state no worse. *)
LEMMA QuietMerge ==
    ASSUME ExtensionsInvariant, NEW r \in Requests, NEW row, row = Merged(req[r])
    PROVE  /\ row.enabled =>
                 \/ install.enabled
                 \/ req[r].kind = "set_install_enabled" /\ req[r].enable
           /\ row.state = "removed" =>
                 install.state = "removed" \/ req[r].kind = "tombstone_install"
  <1>1. install \in Install /\ req[r] \in Request /\ Patch(req[r])
    BY TypeFacts
  <1>2. /\ row.state = IF "state" \in req[r].changed THEN req[r].row.state ELSE install.state
        /\ row.enabled = IF "enabled" \in req[r].changed THEN req[r].row.enabled
                         ELSE install.enabled
    BY <1>1, MergedFields
  <1>3. row.enabled => \/ install.enabled
                       \/ req[r].kind = "set_install_enabled" /\ req[r].enable
    <2> SUFFICES ASSUME row.enabled, ~install.enabled
                 PROVE  req[r].kind = "set_install_enabled" /\ req[r].enable
      OBVIOUS
    <2>1. "enabled" \in req[r].changed /\ req[r].row.enabled
      BY <1>2
    <2> QED BY <1>1, <2>1 DEF Patch
  <1>4. ASSUME row.state = "removed", install.state # "removed"
        PROVE  req[r].kind = "tombstone_install"
    <2>1. "state" \in req[r].changed /\ req[r].row.state = "removed"
      BY <1>2, <1>4
    <2> QED BY <1>1, <2>1 DEF Patch
  <1> QED BY <1>3, <1>4

(* The row a commit leaves is off if it is tombstoned: the tombstone found  *)
(* it off or turns it off, the enable did not find a tombstone.             *)
LEMMA MergedOff ==
    ASSUME ExtensionsInvariant, NEW r \in Requests, NEW row, row = Merged(req[r]),
           row.state = "removed", row.enabled
    PROVE  FALSE
  <1>1. /\ install \in Install /\ req[r] \in Request /\ Patch(req[r]) /\ Agrees(req[r])
        /\ TombstoneIsOff
    BY TypeFacts DEF ExtensionsInvariant
  <1>2. /\ row.state = IF "state" \in req[r].changed THEN req[r].row.state ELSE install.state
        /\ row.enabled = IF "enabled" \in req[r].changed THEN req[r].row.enabled
                         ELSE install.enabled
    BY <1>1, MergedFields
  <1>3. CASE req[r].kind = "tombstone_install"
    BY <1>1, <1>2, <1>3 DEF Patch, Agrees
  <1>4. CASE req[r].kind # "tombstone_install"
    <2>1. install.state = "removed" /\ ~install.enabled
      BY <1>1, <1>4, QuietMerge DEF TombstoneIsOff
    <2>2. req[r].kind = "set_install_enabled"
      BY <2>1, QuietMerge
    <2> QED BY <1>1, <2>1, <2>2 DEF Agrees
  <1> QED BY <1>3, <1>4

(* A commit that merges its patch into the row keeps the invariant.         *)
LEMMA MergeKeeps ==
    ASSUME ExtensionsInvariant, NEW r \in Requests, Leave(r),
           install' = Merged(req[r]), sources' = sources,
           instance' \in {"absent", "off", "on"}, buried' \in BOOLEAN,
           req[r].kind = "reconcile" /\ "source" \in req[r].changed =>
               req[r].row.source \in sources
    PROVE  ExtensionsInvariant'
  <1>1. install' \in Install /\ install'.source \in sources \cup {NoSource}
    BY MergedTyped
  <1>2. ~(install'.state = "removed" /\ install'.enabled)
    BY MergedOff
  <1>3. TombstoneIsOff'
    BY <1>2 DEF TombstoneIsOff
  <1>4. \/ HoldsInstall(req[r])
        \/ /\ install'.enabled => install.enabled
           /\ install'.state = "removed" => install.state = "removed"
    <2>1. CASE req[r].kind \in {"set_install_enabled", "tombstone_install"}
      BY <2>1, TypeFacts DEF Shaped, AlwaysLocked, HoldsInstall, InstallLockers
    <2>2. CASE req[r].kind \notin {"set_install_enabled", "tombstone_install"}
      BY <2>2, QuietMerge
    <2> QED BY <2>1, <2>2
  <1>5. \A q \in Requests \ {r} : req'[q] = req[q]
    BY TypeFacts DEF Leave
  <1>6. \A q \in Requests \ {r} : Agrees(req[q])'
    BY <1>4, <1>5, OthersAgree
  <1>7. sources' \subseteq Sources
    BY DEF ExtensionsInvariant, ExtTypeOK
  <1> QED BY <1>1, <1>3, <1>6, <1>7, LeaveKeeps

(* Imports, updates, self-disables, switches, parks and reconciles commit.  *)
LEMMA CommitKeeps ==
    ASSUME ExtensionsInvariant, NEW r \in Requests,
           \/ LandCommit(r) \/ ApplyCommit(r) \/ SelfDisableCommit(r)
           \/ SwitchCommit(r) \/ ParkCommit(r) \/ ReconcileCommit(r)
    PROVE  ExtensionsInvariant'
  <1>1. instance \in {"absent", "off", "on"} /\ buried \in BOOLEAN
    BY DEF ExtensionsInvariant, ExtTypeOK
  <1>2. CASE LandCommit(r)
    <2>1. instance' \in {"absent", "off", "on"} /\ buried' \in BOOLEAN
      BY <1>2 DEF LandCommit
    <2>2. /\ Leave(r) /\ install' = Merged(req[r]) /\ sources' = sources
          /\ req[r].kind # "reconcile"
      BY <1>2 DEF LandCommit, Commits
    <2> QED BY <2>1, <2>2, MergeKeeps
  <1>3. CASE ApplyCommit(r)
    <2>1. instance' \in {"absent", "off", "on"} /\ buried' \in BOOLEAN
      BY <1>1, <1>3 DEF ApplyCommit
    <2>2. /\ Leave(r) /\ install' = Merged(req[r]) /\ sources' = sources
          /\ req[r].kind # "reconcile"
      BY <1>3 DEF ApplyCommit, Commits
    <2> QED BY <2>1, <2>2, MergeKeeps
  <1>4. CASE SelfDisableCommit(r)
    <2>1. instance' \in {"absent", "off", "on"} /\ buried' \in BOOLEAN
      BY <1>1, <1>4 DEF SelfDisableCommit, SwitchOff
    <2> QED BY <1>4, <2>1, MergeKeeps DEF SelfDisableCommit, Commits
  <1>5. CASE SwitchCommit(r)
    <2>1. instance' \in {"absent", "off", "on"} /\ buried' \in BOOLEAN
      BY <1>1, <1>5 DEF SwitchCommit
    <2> QED BY <1>5, <2>1, MergeKeeps DEF SwitchCommit, Commits
  <1>6. CASE ParkCommit(r)
    <2>1. instance' \in {"absent", "off", "on"} /\ buried' \in BOOLEAN
      BY <1>1, <1>6 DEF ParkCommit, SwitchOff
    <2> QED BY <1>6, <2>1, MergeKeeps DEF ParkCommit, Commits
  <1>7. CASE ReconcileCommit(r)
    <2>1. instance' \in {"absent", "off", "on"} /\ buried' \in BOOLEAN
      BY <1>1, <1>7 DEF ReconcileCommit, SwitchOff
    <2> QED BY <1>7, <2>1, MergeKeeps DEF ReconcileCommit, Commits
  <1> QED BY <1>2, <1>3, <1>4, <1>5, <1>6, <1>7

(* A sync writes the note of an update and nothing else.                    *)
LEMMA SyncedRow ==
    ASSUME install \in Install, NEW r \in Requests, SyncCommit(r)
    PROVE  /\ install' \in Install /\ install'.source = install.source
           /\ install'.state = install.state /\ install'.enabled = install.enabled
           /\ install'.digest = install.digest
  <1>1. PICK note : /\ install' = [install EXCEPT !.update = note]
                    /\ note \in {"none", "drift", "absent"} \cup Digests
    BY DEF SyncCommit, Checked, Install
  <1> QED BY <1>1 DEF Install

(* ... so its commit keeps the invariant.                                   *)
LEMMA SyncCommitKeeps ==
    ASSUME ExtensionsInvariant, NEW r \in Requests, SyncCommit(r)
    PROVE  ExtensionsInvariant'
  <1>1. install \in Install /\ TombstoneIsOff
    BY TypeFacts DEF ExtensionsInvariant
  <1>3. /\ install' \in Install /\ install'.source = install.source
        /\ install'.state = install.state /\ install'.enabled = install.enabled
    BY <1>1, SyncedRow
  <1>4. Leave(r) /\ UNCHANGED <<sources, instance, buried>>
    BY DEF SyncCommit, Commits
  <1>5. \A q \in Requests \ {r} : req'[q] = req[q]
    BY <1>4, TypeFacts DEF Leave
  <1>6. \A q \in Requests \ {r} : Agrees(req[q])'
    BY <1>3, <1>4, <1>5, OthersAgree
  <1>7. TombstoneIsOff'
    BY <1>1, <1>3 DEF TombstoneIsOff
  <1>8. /\ sources' \subseteq Sources
        /\ install'.source \in sources' \cup {NoSource}
        /\ instance' \in {"absent", "off", "on"} /\ buried' \in BOOLEAN
    BY <1>3, <1>4 DEF ExtensionsInvariant, ExtTypeOK
  <1> QED BY <1>3, <1>4, <1>6, <1>7, <1>8, LeaveKeeps

(* A source that goes is held by the request that removes it: no import     *)
(* from it is under way, and no install names it.                           *)
LEMMA RemoveCommitKeeps ==
    ASSUME ExtensionsInvariant, NEW r \in Requests, RemoveCommit(r)
    PROVE  ExtensionsInvariant'
  <1> DEFINE row == Merged(req[r])
  <1>1. req[r].kind = "remove_source" /\ req[r].pc = "locked" /\ Leave(r)
    BY DEF RemoveCommit, Commits
  <1>2. row \in Install /\ row.source \in sources \cup {NoSource}
    BY <1>1, MergedTyped
  <1>3. /\ row.enabled => install.enabled
        /\ row.state = "removed" => install.state = "removed"
    BY <1>1, QuietMerge
  <1>4. install' = [row EXCEPT !.source = IF @ = req[r].src THEN NoSource ELSE @]
    BY DEF RemoveCommit
  <1> HIDE DEF row
  <1>5. /\ install' \in Install
        /\ install'.state = row.state /\ install'.enabled = row.enabled
        /\ install'.source = IF row.source = req[r].src THEN NoSource ELSE row.source
    BY <1>2, <1>4 DEF Install
  <1>6. sources' = sources \ {req[r].src} /\ sources \subseteq Sources
    BY DEF RemoveCommit, ExtensionsInvariant, ExtTypeOK
  <1>7. install'.source \in sources' \cup {NoSource}
    BY <1>2, <1>5, <1>6
  <1>8. instance' \in {"absent", "off", "on"} /\ buried' \in BOOLEAN
    BY DEF RemoveCommit, SwitchOff, ExtensionsInvariant, ExtTypeOK
  <1>9. TombstoneIsOff'
    BY <1>3, <1>5 DEF TombstoneIsOff, ExtensionsInvariant
  <1>10. ASSUME NEW q \in Requests \ {r}
         PROVE  Agrees(req[q])'
    <2>1. Shaped(req[q]) /\ Agrees(req[q]) /\ req'[q] = req[q]
      BY <1>1, TypeFacts DEF Leave
    <2>2. req[q].kind = "install_extension" => req[q].src # req[r].src
      BY <1>1, <2>1, Exclusive DEF Shaped, AlwaysLocked, HoldsSource, SourceLockers
    <2>3. /\ install'.enabled => install.enabled
          /\ install'.state = "removed" => install.state = "removed"
      BY <1>3, <1>5
    <2> QED BY <1>6, <2>1, <2>2, <2>3 DEF Agrees
  <1> QED BY <1>1, <1>5, <1>6, <1>7, <1>8, <1>9, <1>10, LeaveKeeps

(* A request that fails, a process that ends.                               *)
LEMMA FailureKeeps ==
    ASSUME ExtensionsInvariant, (\E r \in Requests : Fails(r)) \/ Crash
    PROVE  ExtensionsInvariant'
  <1>1. ASSUME NEW r \in Requests, Fails(r)
        PROVE  ExtensionsInvariant'
    <2>1. Leave(r) /\ UNCHANGED <<sources, install, instance, buried>>
      BY <1>1 DEF Fails, GivesUp
    <2>2. \A q \in Requests \ {r} : req'[q] = req[q]
      BY <2>1, TypeFacts DEF Leave
    <2>3. \A q \in Requests \ {r} : Agrees(req[q])'
      BY <2>1, <2>2, OthersAgree
    <2>4. /\ install' \in Install /\ sources' \subseteq Sources
          /\ install'.source \in sources' \cup {NoSource}
          /\ instance' \in {"absent", "off", "on"} /\ buried' \in BOOLEAN
          /\ TombstoneIsOff'
      BY <2>1 DEF ExtensionsInvariant, ExtTypeOK, TombstoneIsOff
    <2> QED BY <2>1, <2>3, <2>4, LeaveKeeps
  <1>2. CASE Crash
    <2>1. UNCHANGED <<sources, install, instance, buried>> /\ req' = [r \in Requests |-> Idle]
      BY <1>2 DEF Crash
    <2>2. ExtTypeOK' /\ TombstoneIsOff'
      BY <2>1, IdleType DEF ExtensionsInvariant, ExtTypeOK, TombstoneIsOff
    <2>3. (Shaped(Idle) /\ Patch(Idle) /\ Agrees(Idle))'
      BY IdleType, PTL
    <2>4. \A r \in Requests : req'[r] = Idle
      BY <2>1
    <2>5. \A r \in Requests : (Shaped(req[r]) /\ Patch(req[r]) /\ Agrees(req[r]))'
      BY <2>3, <2>4 DEF Shaped, Patch, Agrees
    <2>6. \A r \in Requests, q \in Requests : r # q => Compatible(req[r], req[q])'
      BY <2>4 DEF Compatible, HoldsInstall, HoldsSource, Idle
    <2> QED BY <2>2, <2>5, <2>6 DEF ExtensionsInvariant
  <1> QED BY <1>1, <1>2

(* Sources come, and the admin's endpoints write the job source.            *)
LEMMA TablesKeep ==
    ASSUME ExtensionsInvariant,
           \/ \E s \in Sources : add_source(s)
           \/ JobSourceStep
    PROVE  ExtensionsInvariant'
  <1>1. /\ UNCHANGED <<install, req, buried>>
        /\ sources \subseteq sources' /\ sources' \subseteq Sources
        /\ instance' \in {"absent", "off", "on"}
    BY DEF ExtensionsInvariant, ExtTypeOK, add_source, JobSourceStep,
           update_posting_source, delete_posting_source
  <1>2. ExtTypeOK' /\ TombstoneIsOff'
    BY <1>1 DEF ExtensionsInvariant, ExtTypeOK, TombstoneIsOff
  <1>3. \A r \in Requests : (Shaped(req[r]) /\ Patch(req[r]) /\ Agrees(req[r]))'
    BY <1>1 DEF ExtensionsInvariant, Shaped, Patch, Agrees
  <1>4. \A r \in Requests, q \in Requests : r # q => Compatible(req[r], req[q])'
    BY <1>1 DEF ExtensionsInvariant, Compatible, HoldsInstall, HoldsSource
  <1> QED BY <1>2, <1>3, <1>4 DEF ExtensionsInvariant

-----------------------------------------------------------------------------
(* The theorems                                                             *)

(* The initial state.                                                       *)
LEMMA InitHolds == Init => ExtensionsInvariant
  <1> SUFFICES ASSUME Init PROVE ExtensionsInvariant
    OBVIOUS
  <1>1. ExtTypeOK /\ TombstoneIsOff
    BY IdleType, NoInstallType DEF Init, ExtTypeOK, TombstoneIsOff, NoInstall
  <1>2. \A r \in Requests : req[r] = Idle
    BY DEF Init
  <1> QED BY <1>1, <1>2, IdleType DEF ExtensionsInvariant

(* Every step keeps the invariant.                                          *)
LEMMA StepHolds ==
    ASSUME ExtensionsInvariant, [Next]_vars
    PROVE  ExtensionsInvariant'
  <1>1. CASE UNCHANGED vars
    BY <1>1 DEF vars, ExtensionsInvariant, ExtTypeOK, TombstoneIsOff, Shaped, Patch, Agrees,
                Compatible, HoldsInstall, HoldsSource
  <1>2. CASE Next
    <2>1. ASSUME NEW r \in Requests, SourceStep(r)
          PROVE  ExtensionsInvariant'
      BY <2>1, SourceStartKeeps, RemoveCommitKeeps, SyncCommitKeeps, CommitKeeps
         DEF SourceStep
    <2>2. ASSUME NEW r \in Requests, InstallStep(r)
          PROVE  ExtensionsInvariant'
      BY <2>2, ApplyKeeps, SelfDisableKeeps, ControlStartKeeps, CommitKeeps
         DEF InstallStep
    <2>3. ASSUME NEW r \in Requests, ReconcileStep(r)
          PROVE  ExtensionsInvariant'
      <3>1. CASE ReconcileAdd(r)
        BY <3>1, TablesKeep DEF ReconcileAdd
      <3>2. CASE ~ReconcileAdd(r)
        BY <2>3, <3>2, ReconcileKeeps, CommitKeeps DEF ReconcileStep
      <3> QED BY <3>1, <3>2
    <2> QED BY <1>2, <2>1, <2>2, <2>3, TablesKeep, FailureKeeps DEF Next
  <1> QED BY <1>1, <1>2

(* The invariant holds of every behaviour, however the requests overlap.    *)
THEOREM InvariantHolds == Spec => []ExtensionsInvariant
  <1>1. ExtensionsInvariant /\ [Next]_vars => ExtensionsInvariant'
    BY StepHolds
  <1> QED BY InitHolds, <1>1, PTL DEF Spec

(* Types, and the foreign key from the install to its source (the columns   *)
(* of extension_model.py).                                                  *)
THEOREM ExtTypes == Spec => []ExtTypeOK
  BY InvariantHolds, PTL DEF ExtensionsInvariant

(* A tombstoned install is never enabled: the tombstone (lifecycle.py:2043) *)
(* and the enable (lifecycle.py:2001) hold the same lock, and no other      *)
(* request sends a switch that is on.                                       *)
THEOREM TombstoneIsOffHolds == Spec => []TombstoneIsOff
  BY InvariantHolds, PTL DEF ExtensionsInvariant

(* The steps that touch the row or the job source.                          *)
LEMMA WritingSteps ==
    ASSUME [Next]_vars,
           install' # install \/ instance' # instance
    PROVE  \/ \E r \in Requests :
                 \/ RemoveCommit(r) \/ SyncCommit(r) \/ LandCommit(r) \/ ApplyCommit(r)
                 \/ SelfDisableCommit(r) \/ SwitchCommit(r) \/ ParkCommit(r)
                 \/ ReconcileCommit(r)
           \/ JobSourceStep
  <1>1. ASSUME NEW r \in Requests, NEW x, Enter(r, x)
        PROVE  FALSE
    BY <1>1 DEF Enter
  <1>2. ~UNCHANGED vars
    BY DEF vars
  <1>3. ASSUME NEW s \in Sources, add_source(s)
        PROVE  FALSE
    BY <1>3 DEF add_source
  <1>4. ~Crash /\ \A r \in Requests : ~Fails(r)
    BY DEF Crash, Fails, GivesUp
  <1>5. ASSUME NEW r \in Requests, SourceStep(r)
        PROVE  RemoveCommit(r) \/ SyncCommit(r) \/ LandCommit(r)
    BY <1>1, <1>5 DEF SourceStep, remove_source, sync_source, install_extension
  <1>6. ASSUME NEW r \in Requests, InstallStep(r)
        PROVE  ApplyCommit(r) \/ SelfDisableCommit(r) \/ SwitchCommit(r) \/ ParkCommit(r)
    BY <1>1, <1>6 DEF InstallStep, apply_update, ApplyLock, FetchStarts, self_disable,
                      set_install_enabled, park_install, tombstone_install
  <1>7. ASSUME NEW r \in Requests, ReconcileStep(r)
        PROVE  ReconcileCommit(r)
    <2>1. ~ReconcileAdd(r)
      BY <1>3 DEF ReconcileAdd
    <2> QED BY <1>1, <1>7, <2>1 DEF ReconcileStep, reconcile, ReconcilePin, ReconcileMissing,
                               ReconcileRestore, ReconcileSkips
  <1> QED BY <1>2, <1>3, <1>4, <1>5, <1>6, <1>7 DEF Next

(* The content of a merged row is the row's own, with its own records or    *)
(* the records of the patch, or the patch's, with its record.               *)
LEMMA MergedContent ==
    ASSUME ExtensionsInvariant, NEW r \in Requests, NEW row, row = Merged(req[r]),
           row.digest # install.digest
    PROVE  row.digest \in row.consents
  <1>1. install \in Install /\ req[r] \in Request /\ Patch(req[r])
    BY TypeFacts
  <1> QED BY <1>1, MergedFields DEF Patch

(* A step that moves an install to a content leaves a record of the consent *)
(* to it (_land_install, lifecycle.py:1690; apply_update, :1861), however   *)
(* old the copies of overlapping requests are.                              *)
THEOREM ContentMovesWithRecordHolds == Spec => ContentMovesWithRecord
  <1>1. ASSUME ExtensionsInvariant, [Next]_vars, install'.digest # install.digest
        PROVE  install'.digest \in install'.consents
    <2>1. install \in Install /\ \A r \in Requests : req[r] \in Request
      BY <1>1 DEF ExtensionsInvariant, ExtTypeOK
    <2>2. ASSUME NEW r \in Requests, install' = Merged(req[r])
          PROVE  install'.digest \in install'.consents
      BY <1>1, <2>2, MergedContent
    <2>3. ASSUME NEW r \in Requests, RemoveCommit(r)
          PROVE  install'.digest \in install'.consents
      <3> DEFINE row == Merged(req[r])
      <3>1. install' = [row EXCEPT !.source = IF @ = req[r].src THEN NoSource ELSE @]
        BY <2>3 DEF RemoveCommit
      <3>2. row \in Install
        BY <2>1, MergedFields
      <3> HIDE DEF row
      <3>3. install'.digest = row.digest /\ install'.consents = row.consents
        BY <3>1, <3>2 DEF Install
      <3>4. row.digest \in row.consents
        BY <1>1, <3>3, MergedContent DEF row
      <3> QED BY <3>3, <3>4
    <2>4. ASSUME NEW r \in Requests, SyncCommit(r)
          PROVE  FALSE
      BY <1>1, <2>1, <2>4, SyncedRow
    <2>5. ~JobSourceStep
      BY <1>1 DEF JobSourceStep, update_posting_source, delete_posting_source
    <2> QED BY <1>1, <2>2, <2>3, <2>4, <2>5, WritingSteps
            DEF LandCommit, ApplyCommit, SelfDisableCommit, SwitchCommit, ParkCommit,
                ReconcileCommit
  <1> DEFINE Moves == install'.digest # install.digest => install'.digest \in install'.consents
  <1>2. ExtensionsInvariant /\ [Next]_vars => [Moves]_vars
    BY <1>1
  <1> QED BY <1>2, InvariantHolds, PTL DEF Spec, ContentMovesWithRecord

(* Only an admin's enable turns the install on (lifecycle.py:2001), only    *)
(* that or an admin's edit (admin.py:1044) the job source.                  *)
THEOREM OnlyAdminsEnableHolds == Spec => OnlyAdminsEnable
  <1> DEFINE Admins == /\ ~install.enabled /\ install'.enabled =>
                             \E r \in Requests : SwitchCommit(r) /\ req[r].enable
                       /\ instance # "on" /\ instance' = "on" =>
                             \/ \E r \in Requests : SwitchCommit(r) /\ req[r].enable
                             \/ update_posting_source(TRUE)
  <1>1. ASSUME ExtensionsInvariant, [Next]_vars
        PROVE  Admins
    <2>1. install \in Install /\ \A r \in Requests : req[r] \in Request
      BY <1>1 DEF ExtensionsInvariant, ExtTypeOK
    <2>2. CASE install' = install /\ instance' = instance
      BY <2>2
    <2>3. ASSUME NEW r \in Requests, install' = Merged(req[r]), install'.enabled, ~install.enabled
          PROVE  req[r].kind = "set_install_enabled" /\ req[r].enable
      BY <1>1, <2>3, QuietMerge
    <2>4. ASSUME NEW r \in Requests,
                 LandCommit(r) \/ ApplyCommit(r) \/ SelfDisableCommit(r)
                 \/ ParkCommit(r) \/ ReconcileCommit(r)
          PROVE  Admins
      <3>1. install' = Merged(req[r]) /\ req[r].kind # "set_install_enabled"
        BY <2>4 DEF LandCommit, ApplyCommit, SelfDisableCommit, ParkCommit, ReconcileCommit,
                    Reconciling
      <3>2. instance' = "on" => instance = "on"
        BY <2>4 DEF LandCommit, ApplyCommit, SelfDisableCommit, ParkCommit, ReconcileCommit,
                    SwitchOff
      <3> QED BY <2>3, <3>1, <3>2
    <2>5. ASSUME NEW r \in Requests, SwitchCommit(r)
          PROVE  Admins
      <3>1. install' = Merged(req[r]) /\ (instance' = "on" => req[r].enable)
        BY <2>5 DEF SwitchCommit
      <3> QED BY <2>3, <2>5, <3>1
    <2>6. ASSUME NEW r \in Requests, RemoveCommit(r)
          PROVE  Admins
      <3> DEFINE row == Merged(req[r])
      <3>1. install' = [row EXCEPT !.source = IF @ = req[r].src THEN NoSource ELSE @]
        BY <2>6 DEF RemoveCommit
      <3>2. row \in Install
        BY <2>1, MergedFields
      <3>3. row.enabled => install.enabled
        BY <1>1, <2>6, QuietMerge DEF RemoveCommit
      <3> HIDE DEF row
      <3>4. install'.enabled = row.enabled
        BY <3>1, <3>2 DEF Install
      <3>5. instance' = "on" => instance = "on"
        BY <2>6 DEF RemoveCommit, SwitchOff
      <3> QED BY <3>3, <3>4, <3>5
    <2>7. ASSUME NEW r \in Requests, SyncCommit(r)
          PROVE  Admins
      <3>1. install'.enabled = install.enabled /\ instance' = instance
        BY <2>1, <2>7, SyncedRow DEF SyncCommit
      <3> QED BY <3>1
    <2>8. CASE JobSourceStep
      <3>1. install' = install
        BY <2>8 DEF JobSourceStep, update_posting_source, delete_posting_source
      <3>2. instance' = "on" => update_posting_source(TRUE)
        BY <2>8 DEF JobSourceStep, update_posting_source, delete_posting_source
      <3> QED BY <3>1, <3>2
    <2> QED BY <1>1, <2>2, <2>4, <2>5, <2>6, <2>7, <2>8, WritingSteps
  <1>2. ExtensionsInvariant /\ [Next]_vars => [Admins]_vars
    BY <1>1
  <1> QED BY <1>2, InvariantHolds, PTL DEF Spec, OnlyAdminsEnable
=============================================================================
