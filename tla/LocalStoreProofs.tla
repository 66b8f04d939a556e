--------------------------- MODULE LocalStoreProofs ---------------------------
(***************************************************************************)
(* Proofs about LocalStore: whatever its threads and the worker interleave  *)
(* on the JSON files, and wherever one of them dies, the files keep their   *)
(* type, every vault in vaults.json agrees with itself, the tables are what *)
(* the completed operations made them, and no delivery outlives its vault,  *)
(* all but for the writes and deletions the histories name.  Any number of  *)
(* threads, documents, recipients, files, writes and deaths.                *)
(***************************************************************************)
EXTENDS LocalStore, VaultDocumentProofs

\* Every vault of a vaults.json, on disk or held by a process, agrees with itself.
TextConsistent(x) == \A i \in Ids : x.vaults[i] # None => Consistent(x.vaults[i])

SoundText(x) == x \in VaultsText /\ TextConsistent(x)

\* The call will write vaults.json, now or after the file it is moving documents to.
WritesVaults(k) == k.step \in {"merge", "truncate", "fill"} /\ (k.name = "vault" \/ Moving(k))

WritesTable(k) == k.step \in {"truncate", "fill"} /\ k.name # "vault"

\* A write of an operation: only delete_vault takes a vault out, and only three
\* operations write deliveries.
PlainWrite(k) ==
    /\ k.key \in Ids
    /\ k.name = "vault" => k.op = "delete_vault" \/ k.vtext.vaults[k.key] # None
    /\ k.name = "delivery" => \/ k.op \in {"worker", "backfill"}
                              \/ k.op = "delete_vault" /\ k.text[k.key] = None
    /\ k.op = "delete_vault" => k.name \in {"vault", "delivery"}

\* A write of a pass of backfill_document_shapes, which changes no document.
ShapeWrite(k) == k.op = "backfill" /\ k.key = None /\ k.name \in DOMAIN NextPass

StartUpSteps == ReadingSteps \ {"purge"}

\* The steps between two writes.
BetweenSteps == ReadingSteps \cup {"update", "mirror", "audit"}

\* A call holds the texts of the file it is writing and no other, and its step is one of
\* its operation's.
Orderly(k) ==
    /\ k.step \notin {"truncate", "fill"} \/ k.name = "vault" => k.text = None
    /\ ~WritesVaults(k) => k.vtext = None
    /\ k.step = "purge" \/ k.after = "purge" => k.op = "delete_vault"
    /\ {k.step, k.after} \cap StartUpSteps # {} => k.op = "backfill"
    /\ k.step \in {"update", "mirror", "audit"} => k.op = "worker"
    /\ k.after = "idle" => k.op = "initialize"
    /\ k.step \in {"truncate", "fill"} /\ ~Moving(k) => PlainWrite(k) \/ ShapeWrite(k)

\* What a call holds for the steps it has still to take.
CallSound(k) ==
    /\ Orderly(k)
    /\ WritesVaults(k) => SoundText(k.vtext)
    /\ WritesTable(k) => k.name \in Moved /\ k.text \in Documents
    /\ k.step = "merge" => k.name \in Moved /\ Moving(k)
    /\ k.step \in {"purge", "mirror"} => k.key \in Ids
    /\ k.after = "purge" => k.key \in Ids
    /\ k.op \in {"delete_vault", "worker"} => k.key \in Ids
    /\ k.step \in {"none"} \cup BetweenSteps => ~Moving(k)

LocalInv == /\ LocalTypeOK
            /\ TextConsistent(vaultsFile)
            /\ \A p \in Processes : CallSound(call[p])

-----------------------------------------------------------------------------
(* The documents the operations write, those of VaultDocumentProofs apart.  *)

\* A vault found in vaults.json is a document that agrees with itself.
LEMMA KnownDocument ==
    ASSUME LocalInv, NEW i \in Ids, Known(i)
    PROVE  Doc(i) \in VaultDoc /\ Consistent(Doc(i))
BY DEF LocalInv, LocalTypeOK, VaultsText, TextConsistent, Known, Doc

\* POST /vaults with the default threshold.
LEMMA NewLocalVault ==
    ASSUME NEW R \in SUBSET Recipients
    PROVE  NewVault(R, R, 1, 1) \in VaultDoc /\ Consistent(NewVault(R, R, 1, 1))
<1>1. ValidThreshold(1, R)
  BY RecipientSets DEF ValidThreshold
<1> QED
  BY <1>1, NewVaultLemma

\* update_vault with a list of recipients, a threshold and the hours.
LEMMA LocalUpdateRecipients ==
    ASSUME NEW v \in VaultDoc, Consistent(v), NEW R \in SUBSET Recipients, NEW A \in SUBSET R,
           NEW t \in 1..2, NEW h \in 1..2
    PROVE  LET w == UpdateVault([v EXCEPT !.recipients = R, !.can_activate = A,
                                          !.threshold = t, !.hours = h], 0)
           IN w \in VaultDoc /\ Consistent(w)
<1>1. t \in Nat \ {0} /\ h \in Nat \ {0}
  OBVIOUS
<1> QED
  BY <1>1, MergeRecipientsLemma, UpdateVaultLemma

\* update_vault with a file list.
LEMMA LocalUpdateFiles ==
    ASSUME NEW v \in VaultDoc, Consistent(v), NEW F \in SUBSET Files,
           NEW a \in SUBSET (F \X v.recipients)
    PROVE  LET w == UpdateVault([v EXCEPT !.files = F, !.assigned = a], 0)
           IN w \in VaultDoc /\ Consistent(w)
<1> DEFINE m == [v EXCEPT !.files = F, !.assigned = a]
<1>1. v.recipients \in SUBSET Recipients
  BY DEF VaultDoc
<1>2. a \in SUBSET (Files \X Recipients) /\ a \subseteq F \X Recipients
  BY <1>1
<1>3. m \in VaultDoc
  BY <1>2 DEF VaultDoc
<1>4. /\ m.recipients = v.recipients /\ m.can_activate = v.can_activate
      /\ m.assigned = a /\ m.files = F /\ m.status = v.status
      /\ m.expires = v.expires /\ m.published = v.published /\ m.packages = v.packages
  BY DEF VaultDoc
<1>5. Mergeable(v)
  BY ConsistentIsSettled
<1>6. Mergeable(m)
  BY <1>2, <1>3, <1>4, <1>5 DEF Mergeable, ClockOK, ArchiveOK
<1> HIDE DEF m
<1>7. UpdateVault(m, 0) \in VaultDoc /\ Consistent(UpdateVault(m, 0))
  BY <1>6, UpdateVaultLemma
<1> QED
  BY <1>7 DEF m

\* What the worker packs for the recipients of the vault it has read.
LEMMA PackedRecipients ==
    ASSUME NEW v \in VaultDoc, v.recipients # {}
    PROVE  LocalPackages(v) \in (SUBSET Package) \ {{}}
<1>1. v.recipients \subseteq Recipients /\ v.files \subseteq Files
  BY DEF VaultDoc
<1>2. ASSUME NEW r \in v.recipients
      PROVE  [to |-> r, files |-> {f \in v.files : <<f, r>> \in v.assigned}] \in Package
  BY <1>1 DEF Package
<1> QED
  BY <1>2 DEF LocalPackages

\* _update_local_vault writes the archived vault, or its error, without normalising.
LEMMA WorkerDocuments ==
    ASSUME NEW v \in VaultDoc, Consistent(v)
    PROVE  /\ [v EXCEPT !.error = TRUE] \in VaultDoc
           /\ Consistent([v EXCEPT !.error = TRUE])
           /\ \A P \in (SUBSET Package) \ {{}} :
                 LocalArchived(v, P) \in VaultDoc /\ Consistent(LocalArchived(v, P))
<1> DEFINE e == [v EXCEPT !.error = TRUE]
<1>1. e \in VaultDoc
  BY DEF VaultDoc
<1>2. /\ e.recipients = v.recipients /\ e.can_activate = v.can_activate
      /\ e.assigned = v.assigned /\ e.files = v.files /\ e.status = v.status
      /\ e.expires = v.expires /\ e.published = v.published /\ e.packages = v.packages
      /\ e.threshold = v.threshold /\ e.requests = v.requests
  BY DEF VaultDoc
<1>3. Consistent(e)
  BY <1>2 DEF Consistent, ConsentOK, ThresholdOK, StatusOK, ClockOK, FilesOK, ArchiveOK
<1> HIDE DEF e
<1>4. ASSUME NEW P \in (SUBSET Package) \ {{}}
      PROVE  LocalArchived(v, P) \in VaultDoc /\ Consistent(LocalArchived(v, P))
  <2> DEFINE a == LocalArchived(v, P)
  <2>1. a = [v EXCEPT !.status = "delivered_archived", !.error = FALSE, !.packages = P]
    BY DEF LocalArchived
  <2> HIDE DEF a
  <2>2. a \in VaultDoc
    BY <2>1 DEF VaultDoc, Statuses
  <2>3. /\ a.recipients = v.recipients /\ a.can_activate = v.can_activate
        /\ a.assigned = v.assigned /\ a.files = v.files /\ a.status = "delivered_archived"
        /\ a.packages = P /\ a.threshold = v.threshold /\ a.requests = v.requests
    BY <2>1 DEF VaultDoc
  <2>4. Consistent(a)
    BY <2>3 DEF Consistent, ConsentOK, ThresholdOK, StatusOK, ClockOK, FilesOK, ArchiveOK
  <2> QED
    BY <2>2, <2>4 DEF a
<1> QED
  BY <1>1, <1>3, <1>4 DEF e

-----------------------------------------------------------------------------
(* The calls.                                                               *)

\* The steps by name.
LEMMA StepNames ==
    /\ DOMAIN PassOver = {"shape_vault", "shape_delivery", "shape_audit"}
    /\ ReadingSteps = {"shape_vault", "shape_delivery", "shape_audit", "list", "backfill", "purge"}
    /\ StartUpSteps = {"shape_vault", "shape_delivery", "shape_audit", "list", "backfill"}
    /\ BetweenSteps = ReadingSteps \cup {"update", "mirror", "audit"}
BY DEF PassOver, ReadingSteps, StartUpSteps, BetweenSteps

\* The files of the passes, and the pass after each.
LEMMA Passes ==
    /\ DOMAIN NextPass = {"vault", "delivery", "audit_log"}
    /\ \A s \in DOMAIN PassOver : PassOver[s] \in DOMAIN NextPass
    /\ \A name \in DOMAIN NextPass : NextPass[name] \in StartUpSteps
BY StepNames DEF PassOver, NextPass

\* A process with nothing to do holds nothing.
LEMMA IdleSound == Idle \in LocalCall /\ CallSound(Idle)
BY StepNames DEF Idle, LocalCall, LocalOperations, VaultEdits, CallSound, WritesVaults,
                 WritesTable, Moving, InitializeComesFrom, Orderly

\* One process takes a step of its call, the others keep theirs.
LEMMA CallStep ==
    ASSUME LocalInv, NEW p \in Processes, NEW k \in LocalCall, CallSound(k),
           call' = [call EXCEPT ![p] = k]
    PROVE  call' \in [Processes -> LocalCall] /\ \A q \in Processes : CallSound(call'[q])
BY DEF LocalInv, LocalTypeOK

\* A text of vaults.json with another document of one vault.
LEMMA EditedText ==
    ASSUME LocalInv, NEW i \in Ids, NEW doc,
           \/ doc = None
           \/ doc \in VaultDoc /\ Consistent(doc)
    PROVE  SoundText([vaultsFile EXCEPT !.vaults[i] = doc])
<1> DEFINE x == [vaultsFile EXCEPT !.vaults[i] = doc]
<1>1. vaultsFile \in VaultsText /\ TextConsistent(vaultsFile)
  BY DEF LocalInv, LocalTypeOK
<1>2. x = [vaultsFile EXCEPT !.vaults = [vaultsFile.vaults EXCEPT ![i] = doc]]
  BY <1>1 DEF VaultsText
<1>3. x.vaults = [vaultsFile.vaults EXCEPT ![i] = doc] /\ x.legacy = vaultsFile.legacy
  BY <1>1, <1>2 DEF VaultsText
<1>4. x \in VaultsText
  BY <1>1, <1>2 DEF VaultsText
<1>5. TextConsistent(x)
  BY <1>1, <1>3 DEF TextConsistent, VaultsText
<1> QED
  BY <1>4, <1>5 DEF SoundText

\* The disk, the histories and the bounds keep their types when only a call changes.
LEMMA QuietStep ==
    ASSUME LocalInv, NEW p \in Processes, NEW k \in LocalCall, CallSound(k),
           call' = [call EXCEPT ![p] = k], OnDiskUnchanged, written' \in 0..mix.writes
    PROVE  LocalInv'
<1>1. call' \in [Processes -> LocalCall] /\ \A q \in Processes : CallSound(call'[q])
  BY CallStep
<1> QED
  BY <1>1 DEF LocalInv, LocalTypeOK, OnDiskUnchanged, disk, localHistory, TextConsistent

-----------------------------------------------------------------------------
(* The steps of initialize and of start-up.                                 *)

\* _migrate_legacy_*: vaults.json has been read, with documents of an older version in it.
LEMMA ReadLegacySound ==
    ASSUME LocalInv, NEW p \in Processes, ReadLegacy(p)
    PROVE  LocalInv'
<1> DEFINE k == [call[p] EXCEPT !.op = IF call[p] = Idle THEN "initialize" ELSE call[p].op,
                                !.step = "merge", !.name = FirstLegacy, !.vtext = vaultsFile,
                                !.after = IF call[p] = Idle THEN "idle" ELSE call[p].step]
<1>1. call[p] \in LocalCall /\ CallSound(call[p])
  BY DEF LocalInv, LocalTypeOK
<1>2. /\ call' = [call EXCEPT ![p] = k] /\ OnDiskUnchanged /\ written' = written
      /\ call[p] = Idle \/ call[p].step \in ReadingSteps
  BY <1>1 DEF ReadLegacy, LocalInv, LocalTypeOK
<1>3. FirstLegacy \in Moved
  BY DEF FirstLegacy, Moved
<1>4. SoundText(vaultsFile)
  BY DEF LocalInv, LocalTypeOK, SoundText
<1>5. /\ (IF call[p] = Idle THEN "idle" ELSE call[p].step) \in InitializeComesFrom
      /\ (IF call[p] = Idle THEN "idle" ELSE call[p].step) # "none"
  BY <1>2, StepNames DEF InitializeComesFrom
<1>6. /\ k.op = IF call[p] = Idle THEN "initialize" ELSE call[p].op
      /\ k.step = "merge" /\ k.name = FirstLegacy /\ k.vtext = vaultsFile
      /\ k.key = call[p].key /\ k.text = call[p].text /\ k.todo = call[p].todo
      /\ k.after = IF call[p] = Idle THEN "idle" ELSE call[p].step
  BY <1>1 DEF LocalCall
<1>7. k \in LocalCall
  <2>1. k.op \in LocalOperations \cup {"idle", "initialize", "backfill"}
    BY <1>1, <1>6 DEF LocalCall
  <2>2. k.after \in {"none"} \cup InitializeComesFrom
    BY <1>5, <1>6
  <2>3. k.vtext \in VaultsText /\ k.name \in Moved
    BY <1>3, <1>4, <1>6 DEF SoundText
  <2> DEFINE o == k.op
             a == k.after
             m == k.name
  <2>4. k = [call[p] EXCEPT !.op = o, !.step = "merge", !.name = m, !.vtext = vaultsFile,
                            !.after = a]
    BY <1>1, <1>6 DEF LocalCall
  <2> HIDE DEF o, a, m, k
  <2>5. o \in LocalOperations \cup {"idle", "initialize", "backfill"}
        /\ a \in {"none"} \cup InitializeComesFrom /\ m \in Moved
    BY <2>1, <2>2, <2>3 DEF o, a, m
  <2>6. vaultsFile \in VaultsText
    BY <1>4 DEF SoundText
  <2> QED
    BY <1>1, <2>4, <2>5, <2>6 DEF LocalCall
<1> HIDE DEF k
<1>8. CallSound(k)
  <2>1. k.after = "purge" => call[p].step = "purge"
    BY <1>6
  <2>2. Moving(k)
    BY <1>5, <1>6 DEF Moving
  <2>3. k.op \in {"delete_vault", "worker"} => call[p].op = k.op
    BY <1>6
  <2>4. call[p].step = "purge" \/ call[p].op \in {"delete_vault", "worker"} =>
            call[p].key \in Ids
    BY <1>1 DEF CallSound
  <2>5. /\ k.after = "purge" => k.key \in Ids
        /\ k.op \in {"delete_vault", "worker"} => k.key \in Ids
    BY <1>6, <2>1, <2>3, <2>4
  <2>6. k.step = "merge" /\ k.name \in Moved /\ SoundText(k.vtext)
    BY <1>3, <1>4, <1>6
  <2>7. Orderly(k)
    <3>1. Idle.step = "none" /\ Idle.text = None
      BY DEF Idle
    <3>2. k.text = None
      BY <1>1, <1>2, <1>6, <3>1, StepNames DEF CallSound, Orderly
    <3>3. k.after \in ReadingSteps => call[p].step = k.after /\ k.op = call[p].op
      <4>1. "idle" \notin ReadingSteps
        BY StepNames
      <4> QED
        BY <1>6, <4>1
    <3>4. k.after = "idle" => k.op = "initialize"
      <4>1. "idle" \notin ReadingSteps
        BY StepNames
      <4>2. CASE call[p] = Idle
        BY <1>6, <4>2
      <4>3. CASE call[p] # Idle
        BY <1>2, <1>6, <4>1, <4>3
      <4> QED
        BY <4>2, <4>3
    <3>5. k.after = "purge" => k.op = "delete_vault"
      BY <1>1, <2>1, <3>3, StepNames DEF CallSound, Orderly
    <3>6. k.after \in StartUpSteps => k.op = "backfill"
      BY <1>1, <3>3 DEF CallSound, Orderly, StartUpSteps
    <3>7. {k.step, k.after} \cap StartUpSteps # {} => k.op = "backfill"
      BY <2>6, <3>6, StepNames
    <3>8. k.step = "merge"
      BY <2>6
    <3>9. WritesVaults(k)
      BY <2>2, <3>8 DEF WritesVaults
    <3> QED
      BY <3>2, <3>4, <3>5, <3>7, <3>8, <3>9 DEF Orderly
  <2> QED
    BY <2>2, <2>5, <2>6, <2>7, StepNames DEF CallSound, WritesVaults, WritesTable
<1>9. written' \in 0..mix.writes
  BY <1>2 DEF LocalInv, LocalTypeOK
<1> QED
  BY <1>2, <1>7, <1>8, <1>9, QuietStep

\* Documents of an older version join those moved before.
LEMMA MergedDocuments ==
    ASSUME NEW a \in Documents, NEW b \in Documents
    PROVE  Merged(a, b) \in Documents
BY DEF Merged, Documents

\* A call that has read what it needs goes on to rewrite a file.
LEMMA RewriteSound ==
    ASSUME LocalInv, NEW p \in Processes, NEW name \in Moved, NEW key \in Ids \cup {None},
           NEW text \in Documents, NEW vtext \in VaultsText \cup {None},
           Moving(call[p]) => SoundText(vtext),
           ~Moving(call[p]) => vtext = None,
           ~Moving(call[p]) => PlainWrite([op |-> call[p].op, name |-> name, key |-> key,
                                           text |-> text, vtext |-> vtext]),
           call[p].step \in {"merge", "purge", "mirror", "audit"},
           ~Moving(call[p]) \/ call[p].after = "purge"
             \/ call[p].op \in {"delete_vault", "worker"} => key \in Ids,
           Rewrite(p, name, key, text, vtext)
    PROVE  /\ call' \in [Processes -> LocalCall]
           /\ \A q \in Processes : CallSound(call'[q])
<1> DEFINE k == [call[p] EXCEPT !.step = "truncate", !.name = name, !.key = key,
                                !.text = text, !.vtext = vtext]
<1>1. call[p] \in LocalCall /\ call \in [Processes -> LocalCall]
  BY DEF LocalInv, LocalTypeOK
<1>2. call' = [call EXCEPT ![p] = k]
  BY <1>1 DEF Rewrite
<1>3. k \in LocalCall
  BY <1>1 DEF LocalCall
<1>4. /\ k.op = call[p].op /\ k.step = "truncate" /\ k.name = name /\ k.key = key
      /\ k.text = text /\ k.vtext = vtext /\ k.after = call[p].after
  BY <1>1 DEF LocalCall
<1> HIDE DEF k
<1>5. name # "vault" /\ (Moving(k) <=> Moving(call[p]))
  BY <1>4 DEF Moved, Moving
<1>6. Orderly(k)
  <2>1. CallSound(call[p])
    BY DEF LocalInv
  <2>2. ~Moving(k) => PlainWrite(k)
    BY <1>4, <1>5 DEF PlainWrite
  <2> QED
    BY <1>4, <1>5, <2>1, <2>2, StepNames DEF CallSound, Orderly, WritesVaults, Moving
<1>7. CallSound(k)
  BY <1>4, <1>5, <1>6, StepNames DEF CallSound, WritesVaults, WritesTable
<1> QED
  BY <1>2, <1>3, <1>7, CallStep

\* The step of initialize that computes the new text of the file it moves documents to.
LEMMA MergeLegacySound ==
    ASSUME LocalInv, NEW p \in Processes, MergeLegacy(p)
    PROVE  LocalInv'
<1> DEFINE k == call[p]
           text == Merged(files[k.name], k.vtext.legacy[k.name])
<1>1. k \in LocalCall /\ CallSound(k) /\ k.step = "merge"
  BY DEF LocalInv, LocalTypeOK, MergeLegacy
<1>2. k.name \in Moved /\ Moving(k) /\ SoundText(k.vtext) /\ k.key \in Ids \cup {None}
  BY <1>1 DEF CallSound, WritesVaults, LocalCall
<1>3. files[k.name] \in Documents /\ k.vtext.legacy[k.name] \in Documents
  BY <1>2 DEF LocalInv, LocalTypeOK, SoundText, VaultsText
<1>4. text \in Documents
  BY <1>3, MergedDocuments
<1>5. Rewrite(p, k.name, k.key, text, k.vtext) /\ OnDiskUnchanged /\ written' = written
  BY DEF MergeLegacy
<1> HIDE DEF text
<1>6. k.after = "purge" \/ k.op \in {"delete_vault", "worker"} => k.key \in Ids
  BY <1>1 DEF CallSound
<1>7. k.vtext \in VaultsText
  BY <1>2 DEF SoundText
<1>8. call' \in [Processes -> LocalCall] /\ \A q \in Processes : CallSound(call'[q])
  BY <1>1, <1>2, <1>4, <1>5, <1>6, <1>7, RewriteSound
<1> QED
  BY <1>5, <1>8 DEF LocalInv, LocalTypeOK, OnDiskUnchanged, disk, localHistory, TextConsistent

\* open(path, "w"): the file is empty, the call goes on to write it.
LEMMA TruncateSound ==
    ASSUME LocalInv, NEW p \in Processes, Truncate(p)
    PROVE  LocalInv'
<1> DEFINE k == [call[p] EXCEPT !.step = "fill"]
<1>1. call[p] \in LocalCall /\ CallSound(call[p]) /\ call[p].step = "truncate"
  BY DEF LocalInv, LocalTypeOK, Truncate
<1>2. call' = [call EXCEPT ![p] = k]
  BY <1>1 DEF Truncate
<1>3. /\ k \in LocalCall /\ k.step = "fill" /\ k.op = call[p].op /\ k.name = call[p].name
      /\ k.key = call[p].key /\ k.text = call[p].text /\ k.vtext = call[p].vtext
      /\ k.after = call[p].after
  BY <1>1 DEF LocalCall
<1> HIDE DEF k
<1>4. CallSound(k)
  BY <1>1, <1>3, StepNames
     DEF CallSound, WritesVaults, WritesTable, Moving, Orderly, PlainWrite, ShapeWrite
<1>5. call' \in [Processes -> LocalCall] /\ \A q \in Processes : CallSound(call'[q])
  BY <1>2, <1>3, <1>4, CallStep
<1>6. NoDocuments \in Documents /\ NoVaults \in VaultsText /\ TextConsistent(NoVaults)
  BY DEF NoDocuments, NoVaults, Documents, VaultsText, TextConsistent
<1>7. vaultsFile' \in VaultsText /\ TextConsistent(vaultsFile')
  BY <1>6 DEF Truncate, LocalInv, LocalTypeOK
<1>8. files' \in [Moved -> Documents]
  BY <1>6 DEF Truncate, LocalInv, LocalTypeOK
<1> QED
  BY <1>5, <1>7, <1>8 DEF Truncate, LocalInv, LocalTypeOK, localHistory

\* The call of a process between two writes.
LEMMA BetweenWrites ==
    ASSUME NEW op \in LocalOperations \cup {"idle", "initialize", "backfill"},
           NEW step \in BetweenSteps,
           NEW key \in Ids \cup {None}, NEW todo \in SUBSET Ids
    PROVE  [Idle EXCEPT !.op = op, !.step = step, !.key = key, !.todo = todo] \in LocalCall
<1>1. step \in {"none", "merge", "truncate", "fill", "update", "mirror", "audit"} \cup ReadingSteps
  BY DEF BetweenSteps
<1> QED
  BY <1>1, IdleSound, ZenonT(60) DEF LocalCall

\* What the start-up goes on with after a write.
LEMMA StartUpPass ==
    ASSUME NEW k, CallSound(k), k.step = "fill", ~Moving(k), k.op = "backfill"
    PROVE  (IF k.key = None THEN NextPass[k.name] ELSE "backfill") \in StartUpSteps
<1>1. k.key = None => k.name \in DOMAIN NextPass
  BY LocalBounds DEF CallSound, Orderly, PlainWrite, ShapeWrite
<1> QED
  BY <1>1, Passes, StepNames

\* What a call goes on with after a write is sound again.
LEMMA ResumedSound ==
    ASSUME NEW k \in LocalCall, CallSound(k), k.step = "fill"
    PROVE  Resumed(k) \in LocalCall /\ CallSound(Resumed(k))
<1>1. Idle \in LocalCall /\ CallSound(Idle)
  BY IdleSound
<1>i. /\ Idle.key = None /\ Idle.todo = {} /\ Idle.after = "none"
      /\ Idle.text = None /\ Idle.vtext = None
  BY DEF Idle
<1>2. CASE Moving(k) /\ k.name # "vault"
  <2> DEFINE x == [k.vtext EXCEPT !.legacy[k.name] = NoDocuments]
             r == [k EXCEPT !.step = "truncate", !.name = "vault", !.text = None, !.vtext = x]
  <2>1. SoundText(k.vtext) /\ k.name \in Moved
    BY <1>2 DEF CallSound, WritesVaults, WritesTable
  <2>2. NoDocuments \in Documents
    BY DEF NoDocuments, Documents
  <2>3. x = [k.vtext EXCEPT !.legacy = [k.vtext.legacy EXCEPT ![k.name] = NoDocuments]]
    BY <2>1 DEF SoundText, VaultsText
  <2>4. x \in VaultsText /\ x.vaults = k.vtext.vaults
    BY <2>1, <2>2, <2>3 DEF SoundText, VaultsText
  <2>5. Resumed(k) = r
    BY <1>2, <2>1 DEF Resumed, LocalCall
  <2> HIDE DEF x
  <2>6. r \in LocalCall
    BY <2>4 DEF LocalCall
  <2>7. /\ r.step = "truncate" /\ r.name = "vault" /\ r.vtext = x /\ r.after = k.after
        /\ r.op = k.op /\ r.key = k.key
    BY DEF LocalCall
  <2> HIDE DEF r
  <2>8. SoundText(r.vtext)
    BY <2>1, <2>4, <2>7 DEF SoundText, TextConsistent
  <2>i. r.text = None
    BY DEF LocalCall, r
  <2>o. Orderly(r)
    BY <1>2, <2>7, <2>i, StepNames DEF CallSound, Orderly, WritesVaults, Moving
  <2>9. CallSound(r)
    BY <1>2, <2>7, <2>8, <2>o, StepNames DEF CallSound, WritesVaults, WritesTable, Moving
  <2> QED
    BY <2>5, <2>6, <2>9
<1>3. ASSUME NEW step \in BetweenSteps, NEW todo \in SUBSET Ids,
             step \in {"purge", "mirror"} \/ k.op \in {"delete_vault", "worker"} => k.key \in Ids,
             NEW key \in {k.key, None},
             step \in {"purge", "mirror"} \/ k.op \in {"delete_vault", "worker"} => key = k.key,
             step = "purge" => k.op = "delete_vault",
             step \in StartUpSteps => k.op = "backfill",
             step \in {"update", "mirror", "audit"} => k.op = "worker",
             Resumed(k) = [Idle EXCEPT !.op = k.op, !.step = step, !.key = key, !.todo = todo]
      PROVE  Resumed(k) \in LocalCall /\ CallSound(Resumed(k))
  <2> DEFINE r == [Idle EXCEPT !.op = k.op, !.step = step, !.key = key, !.todo = todo]
  <2>1. /\ k.op \in LocalOperations \cup {"idle", "initialize", "backfill"}
        /\ key \in Ids \cup {None}
    BY DEF LocalCall
  <2>2. r \in LocalCall
    BY <2>1, BetweenWrites
  <2>3. /\ r.op = k.op /\ r.step = step /\ r.key = key /\ r.after = "none"
        /\ r.text = None /\ r.vtext = None
    BY <1>1, <1>i DEF LocalCall
  <2> HIDE DEF r
  <2>n. "none" \notin StartUpSteps /\ step \notin {"none", "merge", "truncate", "fill"}
    BY StepNames
  <2>o. Orderly(r)
    BY <1>3, <2>3, <2>n DEF Orderly, Moving, WritesVaults
  <2>4. CallSound(r)
    BY <1>3, <2>3, <2>o, <2>n DEF CallSound, WritesVaults, WritesTable, Moving
  <2> QED
    BY <1>3, <2>2, <2>4 DEF r
<1>4. CASE Moving(k) /\ k.name = "vault" /\ k.after # "idle"
  <2>1. Resumed(k) = [Idle EXCEPT !.op = k.op, !.step = k.after, !.key = k.key,
                                  !.todo = k.todo]
    BY <1>4 DEF Resumed
  <2>2. k.after \in ReadingSteps /\ k.todo \in SUBSET Ids
    BY <1>4 DEF LocalCall, InitializeComesFrom, Moving
  <2>3. k.after \in {"purge", "mirror"} \/ k.op \in {"delete_vault", "worker"} => k.key \in Ids
    BY <2>2, StepNames DEF CallSound
  <2>4. /\ k.after = "purge" => k.op = "delete_vault"
        /\ k.after \in StartUpSteps => k.op = "backfill"
    BY DEF CallSound, Orderly
  <2> QED
    BY <1>3, <2>1, <2>2, <2>3, <2>4, StepNames
<1>5. CASE ~Moving(k) /\ k.op = "delete_vault" /\ k.name = "vault"
  <2>0. Resumed(k) = [Idle EXCEPT !.op = k.op, !.step = "purge", !.key = k.key]
    BY <1>5 DEF Resumed
  <2>1. Resumed(k) = [Idle EXCEPT !.op = k.op, !.step = "purge", !.key = k.key,
                                  !.todo = Idle.todo]
    BY <1>1, <2>0 DEF LocalCall
  <2>2. k.key \in Ids
    BY <1>5 DEF CallSound
  <2>3. "purge" \in BetweenSteps /\ "purge" \notin StartUpSteps /\ Idle.todo \in SUBSET Ids
    BY <1>i, StepNames
  <2> QED
    BY <1>3, <1>5, <2>1, <2>2, <2>3
<1>6. CASE ~Moving(k) /\ k.op = "backfill"
  <2> DEFINE step == IF k.key = None THEN NextPass[k.name] ELSE "backfill"
  <2>0. Resumed(k) = [Idle EXCEPT !.op = k.op, !.todo = k.todo, !.step = step]
    BY <1>6 DEF Resumed
  <2>1. Resumed(k) = [Idle EXCEPT !.op = k.op, !.step = step, !.key = Idle.key,
                                  !.todo = k.todo]
    BY <1>1, <2>0 DEF LocalCall
  <2>2. k.todo \in SUBSET Ids
    BY DEF LocalCall
  <2>3. step \in StartUpSteps
    BY <1>6, StartUpPass
  <2> HIDE DEF step
  <2>4. step \in BetweenSteps /\ step \notin {"purge", "update", "mirror", "audit"}
    BY <2>3, StepNames
  <2> QED
    BY <1>3, <1>6, <1>i, <2>1, <2>2, <2>4
<1>7. CASE ~Moving(k) /\ k.op = "worker" /\ k.name \in {"vault", "delivery"}
  <2> DEFINE step == IF k.name = "vault" THEN "mirror" ELSE "audit"
  <2>0. Resumed(k) = [Idle EXCEPT !.op = k.op, !.step = step, !.key = k.key]
    BY <1>7 DEF Resumed
  <2>1. Resumed(k) = [Idle EXCEPT !.op = k.op, !.step = step, !.key = k.key,
                                  !.todo = Idle.todo]
    BY <1>1, <2>0 DEF LocalCall
  <2>2. k.key \in Ids
    BY <1>7 DEF CallSound
  <2>3. step \in {"mirror", "audit"}
    OBVIOUS
  <2> HIDE DEF step
  <2>4. /\ step \in BetweenSteps /\ step # "purge" /\ step \notin StartUpSteps
        /\ Idle.todo \in SUBSET Ids
    BY <1>i, <2>3, StepNames
  <2> QED
    BY <1>3, <1>7, <2>1, <2>2, <2>4
<1>8. CASE /\ ~(Moving(k) /\ k.name # "vault")
           /\ ~(Moving(k) /\ k.name = "vault" /\ k.after # "idle")
           /\ ~(~Moving(k) /\ k.op = "delete_vault" /\ k.name = "vault")
           /\ ~(~Moving(k) /\ k.op = "backfill")
           /\ ~(~Moving(k) /\ k.op = "worker" /\ k.name \in {"vault", "delivery"})
  <2>1. Resumed(k) = Idle
    BY <1>8 DEF Resumed
  <2> QED
    BY <1>1, <2>1
<1> QED
  BY <1>2, <1>4, <1>5, <1>6, <1>7, <1>8

\* A write that changes one document is an operation's.
LEMMA OneChanged ==
    ASSUME NEW k \in LocalCall, CallSound(k), k.step = "fill", ChangesOne(k)
    PROVE  k.key \in Ids /\ PlainWrite(k)
BY DEF CallSound, Orderly, PlainWrite, ShapeWrite, ChangesOne

\* write(text): the file and the history take what the call held.
LEMMA FillSound ==
    ASSUME LocalInv, NEW p \in Processes, Fill(p)
    PROVE  LocalInv'
<1> DEFINE k == call[p]
<1>1. k \in LocalCall /\ CallSound(k) /\ k.step = "fill"
  BY DEF LocalInv, LocalTypeOK, Fill
<1>2. call' = [call EXCEPT ![p] = Resumed(k)]
  BY DEF Fill
<1>3. call' \in [Processes -> LocalCall] /\ \A q \in Processes : CallSound(call'[q])
  BY <1>1, <1>2, ResumedSound, CallStep
<1>4. k.name \in Moved \cup {"vault"}
  BY <1>1 DEF CallSound, WritesTable
<1>5. k.name = "vault" => SoundText(k.vtext)
  BY <1>1 DEF CallSound, WritesVaults
<1>6. k.name # "vault" => k.name \in Moved /\ k.text \in Documents
  BY <1>1 DEF CallSound, WritesTable
<1>7. vaultsFile' \in VaultsText /\ TextConsistent(vaultsFile')
  BY <1>5 DEF Fill, LocalInv, LocalTypeOK, SoundText
<1>8. files' \in [Moved -> Documents]
  BY <1>6 DEF Fill, LocalInv, LocalTypeOK
<1>9. intended' \in [vaults : [Ids -> VaultDoc \cup {None}], docs : [Moved -> Documents]]
  <2>1. intended \in [vaults : [Ids -> VaultDoc \cup {None}], docs : [Moved -> Documents]]
    BY DEF LocalInv, LocalTypeOK
  <2>2. CASE ~ChangesOne(k)
    BY <2>1, <2>2 DEF Fill
  <2>3. CASE ChangesOne(k) /\ k.name = "vault"
    <3>1. intended' = [intended EXCEPT !.vaults[k.key] = k.vtext.vaults[k.key]]
      BY <2>3 DEF Fill
    <3>2. k.key \in Ids /\ k.vtext.vaults[k.key] \in VaultDoc \cup {None}
      BY <1>1, <1>5, <2>3, OneChanged DEF SoundText, VaultsText
    <3> QED
      BY <2>1, <3>1, <3>2
  <2>4. CASE ChangesOne(k) /\ k.name # "vault"
    <3>1. intended' = [intended EXCEPT !.docs[k.name][k.key] = k.text[k.key]]
      BY <2>4 DEF Fill
    <3>2. k.key \in Ids /\ k.text[k.key] \in Nat \cup {None}
      BY <1>1, <1>6, <2>4, OneChanged DEF Documents
    <3>3. [intended.docs[k.name] EXCEPT ![k.key] = k.text[k.key]] \in Documents
      BY <1>6, <2>1, <2>4, <3>2 DEF Documents
    <3>4. intended' = [intended EXCEPT !.docs = [intended.docs EXCEPT
                          ![k.name] = [intended.docs[k.name] EXCEPT ![k.key] = k.text[k.key]]]]
      BY <1>6, <2>1, <2>4, <3>1
    <3> QED
      BY <1>6, <2>1, <2>4, <3>3, <3>4
  <2> QED
    BY <2>2, <2>3, <2>4
<1>10. disturbed' \subseteq Moved \cup {"vault"}
  BY <1>4 DEF Fill, LocalInv, LocalTypeOK
<1>11. stranded' \subseteq Ids
  <2>1. k.op = "delete_vault" => k.key \in Ids
    BY <1>1 DEF CallSound
  <2> QED
    BY <2>1 DEF Fill, LocalInv, LocalTypeOK
<1> QED
  BY <1>3, <1>7, <1>8, <1>9, <1>10, <1>11 DEF Fill, LocalInv, LocalTypeOK

\* backfill_document_shapes begins with vaults.json.
LEMMA StartBackfillSound ==
    ASSUME LocalInv, NEW p \in Processes, StartBackfill(p)
    PROVE  LocalInv'
<1> DEFINE k == [Idle EXCEPT !.op = "backfill", !.step = "shape_vault"]
<1>1. call' = [call EXCEPT ![p] = k] /\ OnDiskUnchanged /\ written' = written
  BY DEF StartBackfill
<1>2. "shape_vault" \in ReadingSteps
  BY StepNames
<1>3. /\ k \in LocalCall /\ k.step = "shape_vault" /\ k.op = "backfill"
      /\ k.after = Idle.after /\ k.text = Idle.text /\ k.vtext = Idle.vtext
  BY <1>2, IdleSound DEF LocalCall
<1> HIDE DEF k
<1>4. Idle.after = "none" /\ Idle.text = None /\ Idle.vtext = None
  BY DEF Idle
<1>5. CallSound(k)
  BY <1>3, <1>4, StepNames DEF CallSound, WritesVaults, WritesTable, Moving, Orderly
<1>6. written' \in 0..mix.writes
  BY <1>1 DEF LocalInv, LocalTypeOK
<1> QED
  BY <1>1, <1>3, <1>5, <1>6, QuietStep

\* The start-up at one of its steps: it holds nothing but the vaults still to be filled in.
LEMMA StartUpHolds ==
    ASSUME LocalInv, NEW p \in Processes, call[p].step \in StartUpSteps
    PROVE  /\ call[p] \in LocalCall /\ call[p].op = "backfill" /\ ~Moving(call[p])
           /\ call[p].text = None /\ call[p].vtext = None
BY StepNames DEF LocalInv, LocalTypeOK, CallSound, Orderly, WritesVaults

\* It goes on to another step.
LEMMA StartUpGoesOn ==
    ASSUME LocalInv, NEW p \in Processes, call[p].step \in StartUpSteps,
           NEW step \in StartUpSteps, NEW T \in SUBSET Ids, NEW k,
           k = [call[p] EXCEPT !.step = step, !.todo = T]
    PROVE  /\ k \in LocalCall /\ CallSound(k) /\ k.step = step /\ k.todo = T
           /\ k.op = "backfill" /\ k.key = call[p].key /\ k.text = None /\ k.vtext = None
<1>1. /\ call[p] \in LocalCall /\ call[p].op = "backfill" /\ ~Moving(call[p])
      /\ call[p].text = None /\ call[p].vtext = None
  BY StartUpHolds
<1>2. step \in ReadingSteps
  BY DEF StartUpSteps
<1>3. /\ k \in LocalCall /\ k.step = step /\ k.op = "backfill" /\ k.after = call[p].after
      /\ k.text = None /\ k.vtext = None /\ k.key = call[p].key /\ k.todo = T
  BY <1>1, <1>2 DEF LocalCall
<1>4. CallSound(k)
  BY <1>1, <1>3, StepNames DEF CallSound, WritesVaults, WritesTable, Moving, Orderly
<1> QED
  BY <1>3, <1>4

\* A pass has found nothing to change.
LEMMA PassesBy ==
    ASSUME LocalInv, NEW p \in Processes, call[p].step \in DOMAIN PassOver,
           call' = [call EXCEPT ![p].step = NextPass[PassOver[call[p].step]]]
    PROVE  \E step \in StartUpSteps : \E k :
              /\ k = [call[p] EXCEPT !.step = step, !.todo = call[p].todo]
              /\ call' = [call EXCEPT ![p] = k]
<1> DEFINE step == NextPass[PassOver[call[p].step]]
<1>1. step \in StartUpSteps
  BY Passes
<1> HIDE DEF step
<1>2. call[p] \in LocalCall /\ call \in [Processes -> LocalCall]
  BY DEF LocalInv, LocalTypeOK
<1>3. [call[p] EXCEPT !.step = step] = [call[p] EXCEPT !.step = step, !.todo = call[p].todo]
  BY <1>2 DEF LocalCall
<1>4. call' = [call EXCEPT ![p] = [call[p] EXCEPT !.step = step]]
  BY <1>2 DEF step
<1> QED
  BY <1>1, <1>3, <1>4

\* A pass rewrites its file.
LEMMA PassWrites ==
    ASSUME LocalInv, NEW p \in Processes, call[p].step \in DOMAIN PassOver, NEW name,
           name = PassOver[call[p].step],
           Rewrite(p, name, None, IF name = "vault" THEN None ELSE files[name],
                                  IF name = "vault" THEN vaultsFile ELSE None)
    PROVE  \E k \in LocalCall :
              /\ call' = [call EXCEPT ![p] = k] /\ CallSound(k)
              /\ k.step = "truncate" /\ k.op = "backfill" /\ k.name = name /\ k.key = None
              /\ name \in DOMAIN NextPass /\ ~Moving(k) /\ k.todo = call[p].todo
              /\ k.text = (IF name = "vault" THEN None ELSE files[name])
              /\ k.vtext = (IF name = "vault" THEN vaultsFile ELSE None)
<1> DEFINE x == IF name = "vault" THEN None ELSE files[name]
           v == IF name = "vault" THEN vaultsFile ELSE None
           k == [call[p] EXCEPT !.step = "truncate", !.name = name, !.key = None,
                                !.text = x, !.vtext = v]
<1>1. /\ call[p] \in LocalCall /\ call[p].op = "backfill" /\ ~Moving(call[p])
      /\ call' = [call EXCEPT ![p] = k]
  BY StartUpHolds, StepNames DEF Rewrite, LocalInv, LocalTypeOK
<1>2. name \in DOMAIN NextPass /\ name \in Moved \cup {"vault"}
  BY Passes DEF Moved
<1>3. /\ SoundText(vaultsFile)
      /\ name # "vault" => files[name] \in Documents /\ name \in Moved
  BY <1>2 DEF LocalInv, LocalTypeOK, SoundText
<1>4. /\ x \in Documents \cup {None} /\ v \in VaultsText \cup {None}
      /\ name = "vault" => x = None /\ SoundText(v)
      /\ name # "vault" => x \in Documents /\ v = None
  BY <1>3 DEF SoundText
<1>5. x = (IF name = "vault" THEN None ELSE files[name])
      /\ v = (IF name = "vault" THEN vaultsFile ELSE None)
  OBVIOUS
<1> HIDE DEF x, v
<1>6. /\ k \in LocalCall /\ k.step = "truncate" /\ k.op = call[p].op /\ k.name = name
      /\ k.key = None /\ k.text = x /\ k.vtext = v /\ k.after = call[p].after
      /\ k.todo = call[p].todo
  BY <1>1, <1>2, <1>4, ZenonT(30) DEF LocalCall
<1> HIDE DEF k
<1>7. Orderly(k)
  BY <1>1, <1>2, <1>4, <1>6, StepNames DEF Orderly, WritesVaults, ShapeWrite, Moving
<1>8. CallSound(k)
  BY <1>1, <1>3, <1>4, <1>6, <1>7, StepNames DEF CallSound, WritesVaults, WritesTable, Moving
<1> QED
  BY <1>1, <1>2, <1>5, <1>6, <1>8 DEF Moving

\* A pass of backfill_document_shapes over one file.
LEMMA ShapeFileSound ==
    ASSUME LocalInv, NEW p \in Processes, ShapeFile(p)
    PROVE  LocalInv'
<1> DEFINE name == PassOver[call[p].step]
<1>1. call[p].step \in DOMAIN PassOver /\ OnDiskUnchanged /\ written' = written
  BY DEF ShapeFile
<1>2. written' \in 0..mix.writes /\ call[p].step \in StartUpSteps /\ call[p].todo \in SUBSET Ids
  BY <1>1, StepNames DEF LocalInv, LocalTypeOK, LocalCall
<1>3. CASE call' = [call EXCEPT ![p].step = NextPass[name]]
  <2>1. PICK step \in StartUpSteps :
          \E k : /\ k = [call[p] EXCEPT !.step = step, !.todo = call[p].todo]
                 /\ call' = [call EXCEPT ![p] = k]
    BY <1>1, <1>3, PassesBy
  <2>p. PICK k : /\ k = [call[p] EXCEPT !.step = step, !.todo = call[p].todo]
                 /\ call' = [call EXCEPT ![p] = k]
    BY <2>1
  <2>2. k \in LocalCall /\ CallSound(k)
    BY <1>2, <2>p, StartUpGoesOn, ZenonT(30)
  <2> QED
    BY <1>1, <1>2, <2>p, <2>2, QuietStep
<1>4. CASE Rewrite(p, name, None, IF name = "vault" THEN None ELSE files[name],
                                  IF name = "vault" THEN vaultsFile ELSE None)
  <2>1. PICK k \in LocalCall : call' = [call EXCEPT ![p] = k] /\ CallSound(k)
    BY <1>1, <1>4, PassWrites
  <2> QED
    BY <1>1, <1>2, <2>1, QuietStep
<1> QED
  BY <1>3, <1>4 DEF ShapeFile

\* The start-up reads which vaults it is to give a delivery document.
LEMMA ListVaultsSound ==
    ASSUME LocalInv, NEW p \in Processes, ListVaults(p)
    PROVE  LocalInv'
<1>1. PICK T \in SUBSET {i \in Ids : Known(i)} :
        call' = [call EXCEPT ![p].step = "backfill", ![p].todo = T]
  BY DEF ListVaults
<1>2. /\ call[p].step \in StartUpSteps /\ "backfill" \in StartUpSteps
      /\ OnDiskUnchanged /\ written' = written
  BY StepNames DEF ListVaults
<1>3. PICK k : k = [call[p] EXCEPT !.step = "backfill", !.todo = T]
  OBVIOUS
<1>4. call' = [call EXCEPT ![p] = k] /\ T \in SUBSET Ids
  BY <1>1, <1>3 DEF LocalInv, LocalTypeOK
<1>5. k \in LocalCall /\ CallSound(k)
  BY <1>2, <1>3, <1>4, StartUpGoesOn
<1>6. written' \in 0..mix.writes
  BY <1>2 DEF LocalInv, LocalTypeOK
<1> QED
  BY <1>2, <1>4, <1>5, <1>6, QuietStep

\* The operations that count as a write stay within the bound.
LEMMA CountedWrite ==
    ASSUME LocalInv, written < mix.writes, written' = written + 1, mix' = mix
    PROVE  written' \in 0..mix.writes /\ written + 1 \in Nat
BY LocalBounds DEF LocalInv, LocalTypeOK

\* A table with another document.
LEMMA EditedTable ==
    ASSUME LocalInv, NEW t \in Moved, NEW i \in Ids, NEW doc \in Nat \cup {None}
    PROVE  [files[t] EXCEPT ![i] = doc] \in Documents
BY DEF LocalInv, LocalTypeOK, Documents

\* The start-up gives one vault its delivery document, or is done.
LEMMA BackfillNextSound ==
    ASSUME LocalInv, NEW p \in Processes, BackfillNext(p)
    PROVE  LocalInv'
<1>1. call[p] \in LocalCall /\ CallSound(call[p]) /\ call[p].step = "backfill"
  BY DEF LocalInv, LocalTypeOK, BackfillNext
<1>2. CASE call[p].todo = {}
  <2>1. call' = [call EXCEPT ![p] = Idle]
    BY <1>2 DEF BackfillNext
  <2>2. call' \in [Processes -> LocalCall] /\ \A q \in Processes : CallSound(call'[q])
    BY <2>1, IdleSound, CallStep
  <2> QED
    BY <1>2, <2>2 DEF BackfillNext, LocalInv, LocalTypeOK, disk, localHistory, TextConsistent
<1>3. CASE call[p].todo # {}
  <2>1. PICK i \in call[p].todo :
          /\ written < mix.writes /\ written' = written + 1
          /\ call' = [call EXCEPT ![p] = [call[p] EXCEPT
                         !.step = "truncate", !.name = "delivery",
                         !.key = i, !.todo = call[p].todo \ {i},
                         !.text = [files["delivery"] EXCEPT ![i] = written + 1]]]
          /\ UNCHANGED <<disk, deaths, mix, localHistory, serving>>
    BY <1>3 DEF BackfillNext
  <2> DEFINE x == [files["delivery"] EXCEPT ![i] = written + 1]
             d == call[p].todo \ {i}
             k == [call[p] EXCEPT !.step = "truncate", !.name = "delivery", !.key = i,
                                  !.todo = d, !.text = x]
  <2>2. i \in Ids /\ d \in SUBSET Ids
    BY <1>1 DEF LocalCall
  <2>3. written' \in 0..mix.writes /\ written + 1 \in Nat
    BY <2>1, CountedWrite
  <2>4. x \in Documents
    BY <2>2, <2>3, EditedTable DEF Moved
  <2>5. call' = [call EXCEPT ![p] = k]
    BY <2>1
  <2> HIDE DEF x, d
  <2>6. /\ k \in LocalCall /\ k.step = "truncate" /\ k.name = "delivery" /\ k.key = i
        /\ k.text = x /\ k.after = call[p].after /\ k.op = call[p].op
        /\ k.vtext = call[p].vtext
    BY <1>1, <2>2, <2>4 DEF LocalCall, Moved
  <2> HIDE DEF k
  <2>7. ~Moving(call[p]) /\ call[p].vtext = None /\ call[p].op = "backfill"
    BY <1>1, StartUpHolds, StepNames
  <2>o. Orderly(k)
    BY <2>2, <2>6, <2>7, StepNames DEF Orderly, WritesVaults, PlainWrite, Moving
  <2>8. CallSound(k)
    BY <2>2, <2>4, <2>6, <2>7, <2>o, StepNames DEF CallSound, WritesVaults, WritesTable, Moving, Moved
  <2> QED
    BY <2>1, <2>3, <2>5, <2>6, <2>8, QuietStep DEF OnDiskUnchanged
<1> QED
  BY <1>2, <1>3

-----------------------------------------------------------------------------
(* The operations.                                                          *)

\* An operation of mix.ops is one of the store's.
LEMMA MixOperations == ASSUME LocalInv PROVE mix.ops \subseteq LocalOperations
BY LocalBounds DEF LocalInv, LocalTypeOK

\* An operation begins with its new text of the vaults or of a table.
LEMMA OperateSound ==
    ASSUME LocalInv, NEW p \in Processes, NEW op, NEW name \in Moved \cup {"vault"},
           NEW i \in Ids, NEW text, NEW vtext, Operate(p, op, name, i, text, vtext),
           \/ /\ name = "vault" /\ text = None /\ SoundText(vtext)
              /\ op = "delete_vault" \/ vtext.vaults[i] # None
           \/ /\ name \in {"user", "audit_log"} /\ text \in Documents /\ vtext = None
              /\ op # "delete_vault"
    PROVE  LocalInv'
<1> DEFINE k == [Idle EXCEPT !.op = op, !.step = "truncate", !.name = name, !.key = i,
                             !.text = text, !.vtext = vtext]
<1>1. /\ call' = [call EXCEPT ![p] = k] /\ op \in LocalOperations
      /\ UNCHANGED <<disk, serving, deaths, mix, intended, stranded>>
      /\ written < mix.writes /\ written' = written + 1
  BY MixOperations DEF Operate
<1>2. written' \in 0..mix.writes /\ disturbed' \subseteq Moved \cup {"vault"}
  BY <1>1, CountedWrite DEF Operate, LocalInv, LocalTypeOK
<1>3. text \in Documents \cup {None} /\ vtext \in VaultsText \cup {None}
  BY DEF SoundText
<1>4. /\ k \in LocalCall /\ k.op = op /\ k.step = "truncate" /\ k.name = name /\ k.key = i
      /\ k.text = text /\ k.vtext = vtext /\ k.after = Idle.after
  BY <1>1, <1>3, IdleSound, ZenonT(30) DEF LocalCall
<1> HIDE DEF k
<1>5. ~Moving(k)
  BY <1>4 DEF Moving, Idle
<1>o. Orderly(k)
  BY <1>4, <1>5, StepNames DEF Orderly, WritesVaults, PlainWrite, Moving
<1>6. CallSound(k)
  BY <1>4, <1>5, <1>o, StepNames DEF CallSound, WritesVaults, WritesTable, Moved
<1>7. call' \in [Processes -> LocalCall] /\ \A q \in Processes : CallSound(call'[q])
  BY <1>1, <1>4, <1>6, CallStep
<1> QED
  BY <1>1, <1>2, <1>7 DEF LocalInv, LocalTypeOK, disk, TextConsistent

\* An edit of one vault writes the others as it read them.
LEMMA EditSound ==
    ASSUME LocalInv, NEW p \in Processes, NEW op, NEW i \in Ids, NEW doc,
           EditVault(p, op, i, doc),
           \/ doc = None /\ op = "delete_vault"
           \/ doc \in VaultDoc /\ Consistent(doc)
    PROVE  LocalInv'
<1> DEFINE x == [vaultsFile EXCEPT !.vaults[i] = doc]
<1>1. SoundText(x)
  BY EditedText
<1>3. op = "delete_vault" \/ x.vaults[i] # None
  BY NoneIsNoDocument DEF LocalInv, LocalTypeOK, VaultsText
<1>2. Operate(p, op, "vault", i, None, x)
  BY DEF EditVault
<1> HIDE DEF x
<1> QED
  BY <1>1, <1>2, <1>3, OperateSound

\* An operation on users.json or audit_logs.json.
LEMMA PutSound ==
    ASSUME LocalInv, NEW p \in Processes, NEW op, op # "delete_vault",
           NEW t \in {"user", "audit_log"}, NEW i \in Ids, NEW doc,
           doc \in {written + 1, None}, PutDocument(p, op, t, i, doc)
    PROVE  LocalInv'
<1> DEFINE x == [files[t] EXCEPT ![i] = doc]
<1>1. Operate(p, op, t, i, x, None)
  BY DEF PutDocument, Docs
<1>2. written + 1 \in Nat
  BY LocalBounds DEF LocalInv, LocalTypeOK
<1>3. x \in Documents
  BY <1>2, EditedTable DEF Moved
<1> HIDE DEF x
<1> QED
  BY <1>1, <1>3, OperateSound DEF Moved

\* delete_vault goes on to the delivery of the vault.
LEMMA PurgeSound ==
    ASSUME LocalInv, NEW p \in Processes, PurgeDeliveries(p)
    PROVE  LocalInv'
<1> DEFINE i == call[p].key
           x == [files["delivery"] EXCEPT ![i] = None]
<1>1. CallSound(call[p]) /\ call[p].step = "purge"
  BY DEF LocalInv, PurgeDeliveries
<1>2. i \in Ids /\ ~Moving(call[p]) /\ call[p].op = "delete_vault"
  BY <1>1, StepNames DEF CallSound, Orderly
<1>3. x \in Documents /\ x[i] = None
  BY <1>2, EditedTable DEF Moved, LocalInv, LocalTypeOK, Documents
<1>4. \/ Rewrite(p, "delivery", i, x, None)
      \/ call' = [call EXCEPT ![p] = Idle]
  BY DEF PurgeDeliveries
<1> HIDE DEF x
<1>5. call' \in [Processes -> LocalCall] /\ \A q \in Processes : CallSound(call'[q])
  <2>1. CASE Rewrite(p, "delivery", i, x, None)
    BY <1>1, <1>2, <1>3, <2>1, RewriteSound DEF Moved, PlainWrite
  <2>2. CASE call' = [call EXCEPT ![p] = Idle]
    BY <2>2, IdleSound, CallStep
  <2> QED
    BY <1>4, <2>1, <2>2
<1>6. stranded' \subseteq Ids
  BY <1>2 DEF PurgeDeliveries, LocalInv, LocalTypeOK
<1> QED
  BY <1>5, <1>6 DEF PurgeDeliveries, LocalInv, LocalTypeOK, disk, TextConsistent

\* An operation puts another document in the place of one vault; delete_vault, which has
\* found the vault, none.
Edits(p, op, i, doc) ==
    /\ EditVault(p, op, i, doc)
    /\ \/ doc = None /\ op = "delete_vault" /\ Known(i)
       \/ doc \in VaultDoc /\ Consistent(doc) /\ op # "delete_vault"

\* Every operation of an endpoint writes a vault that agrees with itself.
LEMMA OperationEdits ==
    ASSUME LocalInv, NEW p \in Processes, VaultOperation(p)
    PROVE  \/ PurgeDeliveries(p)
           \/ \E op \in VaultEdits \cup {"delete_vault"}, i \in Ids, doc \in VaultDoc \cup {None} :
                 Edits(p, op, i, doc)
<1>1. CASE CreateVault(p)
  BY <1>1, NewLocalVault DEF CreateVault, Edits, VaultEdits
<1>2. CASE LocalAddRecipient(p)
  <2>1. PICK i \in Ids, r \in Recipients, can \in BOOLEAN :
          Known(i) /\ EditVault(p, "add_recipient", i, AddRecipientToVault(Doc(i), r, can, 0))
    BY <1>2 DEF LocalAddRecipient
  <2>2. Doc(i) \in VaultDoc /\ Consistent(Doc(i))
    BY <2>1, KnownDocument
  <2>3. /\ AddRecipientToVault(Doc(i), r, can, 0) \in VaultDoc
        /\ Consistent(AddRecipientToVault(Doc(i), r, can, 0))
    BY <2>2, AddRecipientLemma
  <2> QED
    BY <2>1, <2>3 DEF Edits, VaultEdits
<1>3. CASE LocalRemoveRecipient(p)
  <2>1. PICK i \in Ids, r \in Recipients :
          Known(i) /\ EditVault(p, "remove_recipient", i,
                                RemoveRecipientFromVault(Doc(i), r, 0))
    BY <1>3 DEF LocalRemoveRecipient
  <2>2. Doc(i) \in VaultDoc /\ Consistent(Doc(i))
    BY <2>1, KnownDocument
  <2>3. /\ RemoveRecipientFromVault(Doc(i), r, 0) \in VaultDoc
        /\ Consistent(RemoveRecipientFromVault(Doc(i), r, 0))
    BY <2>2, RemoveRecipientLemma
  <2> QED
    BY <2>1, <2>3 DEF Edits, VaultEdits
<1>4. CASE LocalUpdatePermission(p)
  <2>1. PICK i \in Ids : Known(i) /\ \E r \in Doc(i).recipients, can \in BOOLEAN :
          EditVault(p, "update_permission", i,
                    UpdateRecipientActivationPermission(Doc(i), r, can, 0))
    BY <1>4 DEF LocalUpdatePermission
  <2>2. Doc(i) \in VaultDoc /\ Consistent(Doc(i))
    BY <2>1, KnownDocument
  <2>3. PICK r \in Doc(i).recipients, can \in BOOLEAN :
          EditVault(p, "update_permission", i,
                    UpdateRecipientActivationPermission(Doc(i), r, can, 0))
    BY <2>1
  <2>4. /\ UpdateRecipientActivationPermission(Doc(i), r, can, 0) \in VaultDoc
        /\ Consistent(UpdateRecipientActivationPermission(Doc(i), r, can, 0))
    BY <2>2, UpdatePermissionLemma
  <2> QED
    BY <2>3, <2>4 DEF Edits, VaultEdits
<1>5. CASE LocalUpdateVault(p)
  <2>1. ASSUME NEW i \in Ids, NEW w, w \in VaultDoc, Consistent(w),
               EditVault(p, "update_vault", i, w)
        PROVE  \E op \in VaultEdits \cup {"delete_vault"}, j \in Ids,
                  doc \in VaultDoc \cup {None} : Edits(p, op, j, doc)
    BY <2>1 DEF Edits, VaultEdits
  <2>2. PICK i \in Ids :
          /\ Known(i)
          /\ \/ \E R \in SUBSET Recipients, t, h \in 1..2 : \E A \in SUBSET R :
                    EditVault(p, "update_vault", i,
                        UpdateVault([Doc(i) EXCEPT !.recipients = R, !.can_activate = A,
                                                   !.threshold = t, !.hours = h], 0))
             \/ \E F \in SUBSET Files : \E a \in SUBSET (F \X Doc(i).recipients) :
                    EditVault(p, "update_vault", i,
                        UpdateVault([Doc(i) EXCEPT !.files = F, !.assigned = a], 0))
    BY <1>5 DEF LocalUpdateVault
  <2>3. Doc(i) \in VaultDoc /\ Consistent(Doc(i))
    BY <2>2, KnownDocument
  <2>4. ASSUME NEW R \in SUBSET Recipients, NEW A \in SUBSET R, NEW t \in 1..2, NEW h \in 1..2,
               EditVault(p, "update_vault", i,
                   UpdateVault([Doc(i) EXCEPT !.recipients = R, !.can_activate = A,
                                              !.threshold = t, !.hours = h], 0))
        PROVE  \E op \in VaultEdits \cup {"delete_vault"}, j \in Ids,
                  doc \in VaultDoc \cup {None} : Edits(p, op, j, doc)
    BY <2>1, <2>3, <2>4, LocalUpdateRecipients
  <2>5. ASSUME NEW F \in SUBSET Files, NEW a \in SUBSET (F \X Doc(i).recipients),
               EditVault(p, "update_vault", i,
                   UpdateVault([Doc(i) EXCEPT !.files = F, !.assigned = a], 0))
        PROVE  \E op \in VaultEdits \cup {"delete_vault"}, j \in Ids,
                  doc \in VaultDoc \cup {None} : Edits(p, op, j, doc)
    BY <2>1, <2>3, <2>5, LocalUpdateFiles
  <2> QED
    BY <2>2, <2>4, <2>5
<1>6. CASE LocalRemoveFile(p)
  <2>1. PICK i \in Ids, f \in Files :
          Known(i) /\ EditVault(p, "remove_file", i, RemoveFileFromVault(Doc(i), f))
    BY <1>6 DEF LocalRemoveFile
  <2>2. Doc(i) \in VaultDoc /\ Consistent(Doc(i))
    BY <2>1, KnownDocument
  <2>3. /\ RemoveFileFromVault(Doc(i), f) \in VaultDoc
        /\ Consistent(RemoveFileFromVault(Doc(i), f))
    BY <2>2, RemoveFileLemma
  <2> QED
    BY <2>1, <2>3 DEF Edits, VaultEdits
<1>7. CASE LocalAddRequest(p)
  <2>1. PICK i \in Ids, r \in Recipients :
          /\ Known(i) /\ MayRequestActivation(Doc(i), r)
          /\ EditVault(p, "add_request", i, AddActivationRequest(Doc(i), r, 0))
    BY <1>7 DEF LocalAddRequest
  <2>2. Doc(i) \in VaultDoc /\ Consistent(Doc(i))
    BY <2>1, KnownDocument
  <2>3. /\ AddActivationRequest(Doc(i), r, 0) \in VaultDoc
        /\ Consistent(AddActivationRequest(Doc(i), r, 0))
    BY <2>1, <2>2, AddRequestLemma
  <2> QED
    BY <2>1, <2>3 DEF Edits, VaultEdits
<1>8. CASE LocalRemoveRequest(p)
  <2>1. PICK i \in Ids : Known(i) /\ \E r \in Doc(i).requests :
          EditVault(p, "remove_request", i, RemoveActivationRequest(Doc(i), r, 0))
    BY <1>8 DEF LocalRemoveRequest
  <2>2. Doc(i) \in VaultDoc /\ Consistent(Doc(i))
    BY <2>1, KnownDocument
  <2>3. PICK r \in Doc(i).requests :
          EditVault(p, "remove_request", i, RemoveActivationRequest(Doc(i), r, 0))
    BY <2>1
  <2>4. /\ RemoveActivationRequest(Doc(i), r, 0) \in VaultDoc
        /\ Consistent(RemoveActivationRequest(Doc(i), r, 0))
    BY <2>2, RemoveRequestLemma
  <2> QED
    BY <2>3, <2>4 DEF Edits, VaultEdits
<1>9. CASE LocalCheckIn(p)
  <2>1. PICK i \in Ids : Known(i) /\ EditVault(p, "check_in", i, CheckInVault(Doc(i)))
    BY <1>9 DEF LocalCheckIn
  <2>2. Doc(i) \in VaultDoc /\ Consistent(Doc(i))
    BY <2>1, KnownDocument
  <2>3. CheckInVault(Doc(i)) \in VaultDoc /\ Consistent(CheckInVault(Doc(i)))
    BY <2>2, CheckInLemma
  <2> QED
    BY <2>1, <2>3 DEF Edits, VaultEdits
<1>10. CASE LocalDeleteVault(p)
  BY <1>10 DEF LocalDeleteVault, Edits, VaultEdits
<1>11. CASE PurgeDeliveries(p)
  BY <1>11
<1> QED
  BY <1>1, <1>2, <1>3, <1>4, <1>5, <1>6, <1>7, <1>8, <1>9, <1>10, <1>11 DEF VaultOperation

LEMMA VaultOperationSound ==
    ASSUME LocalInv, NEW p \in Processes, VaultOperation(p)
    PROVE  LocalInv'
<1>1. ASSUME NEW op \in VaultEdits \cup {"delete_vault"}, NEW i \in Ids,
             NEW doc \in VaultDoc \cup {None}, Edits(p, op, i, doc)
      PROVE  LocalInv'
  BY <1>1, EditSound DEF Edits
<1> QED
  BY <1>1, OperationEdits, PurgeSound

\* A step of one process, all told.
LEMMA ProcessStepSound ==
    ASSUME LocalInv, NEW p \in Processes, ProcessStep(p)
    PROVE  LocalInv'
<1>1. CASE LocalCreateUser(p)
  BY <1>1, PutSound DEF LocalCreateUser, Moved
<1>2. CASE LocalUpdateUser(p)
  BY <1>2, PutSound DEF LocalUpdateUser, Moved
<1>3. CASE LocalDeleteUser(p)
  BY <1>3, PutSound DEF LocalDeleteUser, Moved
<1>4. CASE LocalLogAuditEvent(p)
  BY <1>4, PutSound DEF LocalLogAuditEvent, Moved
<1> QED
  BY <1>1, <1>2, <1>3, <1>4, ReadLegacySound, MergeLegacySound, TruncateSound, FillSound,
     StartBackfillSound, ShapeFileSound, ListVaultsSound, BackfillNextSound,
     VaultOperationSound DEF ProcessStep

\* The worker has read the vault it is to deliver.
LEMMA ReadLocalVaultSound ==
    ASSUME LocalInv, ReadLocalVault
    PROVE  LocalInv'
<1>1. PICK i \in Ids :
        /\ Known(i)
        /\ call' = [call EXCEPT ![Worker] = [Idle EXCEPT !.op = "worker", !.step = "update",
                                                        !.key = i, !.seen = Doc(i)]]
  BY DEF ReadLocalVault
<1> DEFINE k == [Idle EXCEPT !.op = "worker", !.step = "update", !.key = i, !.seen = Doc(i)]
<1>2. Doc(i) \in VaultDoc /\ Worker \in Processes
  BY <1>1, KnownDocument DEF Processes
<1>3. Idle.after = "none" /\ Idle.text = None /\ Idle.vtext = None
  BY DEF Idle
<1>4. /\ k \in LocalCall /\ k.op = "worker" /\ k.step = "update" /\ k.key = i
      /\ k.after = "none" /\ k.text = None /\ k.vtext = None
  BY <1>2, <1>3, IdleSound DEF LocalCall, LocalOperations
<1> HIDE DEF k
<1>5. CallSound(k)
  BY <1>4, StepNames DEF CallSound, Orderly, WritesVaults, WritesTable, Moving
<1>6. written' \in 0..mix.writes /\ OnDiskUnchanged
  BY CountedWrite DEF ReadLocalVault, OnDiskUnchanged
<1> QED
  BY <1>1, <1>2, <1>4, <1>5, <1>6, QuietStep DEF k

\* What the worker does with the vault once it has read vaults.json again.
LEMMA WorkerChoices ==
    ASSUME LocalInv, UpdateLocalVault
    PROVE  /\ Worker \in Processes /\ call[Worker] \in LocalCall /\ CallSound(call[Worker])
           /\ call[Worker].step = "update" /\ call[Worker].key \in Ids
           /\ call[Worker].op = "worker" /\ OnDiskUnchanged /\ written' = written
           /\ \/ call' = [call EXCEPT ![Worker] = Idle]
              \/ call' = [call EXCEPT ![Worker] = [call[Worker] EXCEPT !.seen = None]]
              \/ /\ Known(call[Worker].key)
                 /\ \E doc \in VaultDoc :
                       /\ Consistent(doc)
                       /\ call' = [call EXCEPT ![Worker] = [Idle EXCEPT !.op = "worker",
                               !.step = "truncate", !.name = "vault", !.key = call[Worker].key,
                               !.vtext = [vaultsFile EXCEPT !.vaults[call[Worker].key] = doc]]]
<1> DEFINE i == call[Worker].key
           seen == call[Worker].seen
<1>1. /\ Worker \in Processes /\ call[Worker] \in LocalCall /\ CallSound(call[Worker])
      /\ call[Worker].step = "update" /\ OnDiskUnchanged /\ written' = written
  BY DEF Processes, LocalInv, LocalTypeOK, UpdateLocalVault
<1>2. call[Worker].op = "worker" /\ i \in Ids
  BY <1>1 DEF CallSound, Orderly
<1>3. CASE call' = [call EXCEPT ![Worker].seen = None]
  BY <1>1, <1>2, <1>3 DEF LocalInv, LocalTypeOK
<1>4. ASSUME Known(i), seen # None, seen.recipients # {}
      PROVE  /\ LocalArchived(Doc(i), LocalPackages(seen)) \in VaultDoc
             /\ Consistent(LocalArchived(Doc(i), LocalPackages(seen)))
  <2>1. seen \in VaultDoc
    BY <1>1, <1>4 DEF LocalCall
  <2>2. LocalPackages(seen) \in (SUBSET Package) \ {{}}
    BY <1>4, <2>1, PackedRecipients
  <2> QED
    BY <1>2, <1>4, <2>2, KnownDocument, WorkerDocuments
<1>5. ASSUME Known(i)
      PROVE  /\ [Doc(i) EXCEPT !.error = TRUE] \in VaultDoc
             /\ Consistent([Doc(i) EXCEPT !.error = TRUE])
  BY <1>2, <1>5, KnownDocument, WorkerDocuments
<1>6. ASSUME NEW doc \in VaultDoc, Consistent(doc), Known(i),
             call' = [call EXCEPT ![Worker] = [Idle EXCEPT !.op = "worker",
                        !.step = "truncate", !.name = "vault", !.key = i,
                        !.vtext = [vaultsFile EXCEPT !.vaults[i] = doc]]]
      PROVE  \E d \in VaultDoc :
                /\ Consistent(d)
                /\ call' = [call EXCEPT ![Worker] = [Idle EXCEPT !.op = "worker",
                        !.step = "truncate", !.name = "vault", !.key = i,
                        !.vtext = [vaultsFile EXCEPT !.vaults[i] = d]]]
  BY <1>6
<1> QED
  BY <1>1, <1>2, <1>3, <1>4, <1>5, <1>6, ZenonT(30) DEF UpdateLocalVault

\* The call of the worker that will write the vault.
LEMMA WorkerWrites ==
    ASSUME LocalInv, NEW i \in Ids, NEW doc \in VaultDoc, Consistent(doc), NEW x, NEW k,
           x = [vaultsFile EXCEPT !.vaults[i] = doc],
           k = [Idle EXCEPT !.op = "worker", !.step = "truncate", !.name = "vault",
                            !.key = i, !.vtext = x]
    PROVE  /\ k \in LocalCall /\ CallSound(k) /\ k.op = "worker" /\ k.step = "truncate"
           /\ k.name = "vault" /\ k.key = i /\ k.vtext = x /\ k.text = None /\ k.after = "none"
<1>1. SoundText(x)
  BY EditedText
<1>2. x \in VaultsText /\ x.vaults[i] # None
  BY <1>1, NoneIsNoDocument DEF SoundText, LocalInv, LocalTypeOK, VaultsText
<1>3. Idle.after = "none" /\ Idle.text = None
  BY DEF Idle
<1>4. /\ k \in LocalCall /\ k.op = "worker" /\ k.step = "truncate" /\ k.name = "vault"
      /\ k.key = i /\ k.vtext = x /\ k.after = "none" /\ k.text = None
  BY <1>2, <1>3, IdleSound, ZenonT(60) DEF LocalCall, LocalOperations
<1>5. Orderly(k)
  BY <1>2, <1>4, StepNames DEF Orderly, WritesVaults, PlainWrite, Moving
<1>6. CallSound(k)
  BY <1>1, <1>4, <1>5, StepNames DEF CallSound, WritesVaults, WritesTable, Moving
<1> QED
  BY <1>4, <1>6

\* The worker reads vaults.json again for the vault it will archive, or record an error in.
LEMMA UpdateLocalVaultSound ==
    ASSUME LocalInv, UpdateLocalVault
    PROVE  LocalInv'
<1> DEFINE i == call[Worker].key
<1>1. /\ Worker \in Processes /\ call[Worker] \in LocalCall /\ CallSound(call[Worker])
      /\ call[Worker].step = "update" /\ i \in Ids /\ call[Worker].op = "worker"
      /\ OnDiskUnchanged /\ written' = written
  BY WorkerChoices
<1>2. written' \in 0..mix.writes
  BY <1>1 DEF LocalInv, LocalTypeOK
<1>3. CASE call' = [call EXCEPT ![Worker] = Idle]
  BY <1>1, <1>2, <1>3, IdleSound, QuietStep
<1>4. CASE call' = [call EXCEPT ![Worker] = [call[Worker] EXCEPT !.seen = None]]
  <2> DEFINE k == [call[Worker] EXCEPT !.seen = None]
  <2>1. /\ k \in LocalCall /\ k.op = call[Worker].op /\ k.step = call[Worker].step
        /\ k.name = call[Worker].name /\ k.key = call[Worker].key
        /\ k.text = call[Worker].text /\ k.vtext = call[Worker].vtext
        /\ k.after = call[Worker].after
    BY <1>1 DEF LocalCall
  <2> HIDE DEF k
  <2>2. CallSound(k)
    BY <1>1, <2>1, StepNames DEF CallSound, Orderly, WritesVaults, WritesTable, Moving
  <2> QED
    BY <1>1, <1>2, <1>4, <2>1, <2>2, QuietStep DEF k
<1>5. ASSUME NEW doc \in VaultDoc, Consistent(doc),
             call' = [call EXCEPT ![Worker] = [Idle EXCEPT !.op = "worker",
                        !.step = "truncate", !.name = "vault", !.key = i,
                        !.vtext = [vaultsFile EXCEPT !.vaults[i] = doc]]]
      PROVE  LocalInv'
  <2> DEFINE x == [vaultsFile EXCEPT !.vaults[i] = doc]
             k == [Idle EXCEPT !.op = "worker", !.step = "truncate", !.name = "vault",
                               !.key = i, !.vtext = x]
  <2>1. call' = [call EXCEPT ![Worker] = k] /\ i \in Ids
    BY <1>1, <1>5
  <2>2. k \in LocalCall /\ CallSound(k)
    BY <1>5, <2>1, WorkerWrites
  <2> HIDE DEF k
  <2> QED
    BY <1>1, <1>2, <2>1, <2>2, QuietStep
<1> QED
  BY <1>3, <1>4, <1>5, WorkerChoices

\* The worker's delivery document and its audit entry.
LEMMA WorkerRecordsSound ==
    ASSUME LocalInv, UpsertLocalDelivery \/ RecordLocalAuditEvent
    PROVE  LocalInv'
<1>1. /\ Worker \in Processes /\ CallSound(call[Worker])
      /\ call[Worker].step \in {"mirror", "audit"} /\ written \in Nat
  BY LocalBounds DEF Processes, LocalInv, LocalTypeOK, UpsertLocalDelivery,
                     RecordLocalAuditEvent
<1>2. ~Moving(call[Worker]) /\ call[Worker].op = "worker"
  BY <1>1, StepNames DEF CallSound, Orderly
<1>3. OnDiskUnchanged /\ written' = written
  BY DEF UpsertLocalDelivery, RecordLocalAuditEvent
<1>4. ASSUME NEW t \in Moved, NEW i \in Ids, call[Worker].step \in {"mirror", "audit"},
             Rewrite(Worker, t, i, [files[t] EXCEPT ![i] = written], None)
      PROVE  call' \in [Processes -> LocalCall] /\ \A q \in Processes : CallSound(call'[q])
  <2> DEFINE x == [files[t] EXCEPT ![i] = written]
  <2>1. x \in Documents
    BY <1>1, EditedTable
  <2>2. Rewrite(Worker, t, i, x, None)
    BY <1>4
  <2> HIDE DEF x
  <2>3. PlainWrite([op |-> call[Worker].op, name |-> t, key |-> i, text |-> x,
                    vtext |-> None])
    BY <1>2 DEF PlainWrite, Moved
  <2> QED
    BY <1>1, <1>2, <1>4, <2>1, <2>2, <2>3, RewriteSound
<1>5. call' \in [Processes -> LocalCall] /\ \A q \in Processes : CallSound(call'[q])
  <2>1. CASE UpsertLocalDelivery
    <3>1. call[Worker].key \in Ids
      BY <1>1, <2>1 DEF CallSound, UpsertLocalDelivery
    <3> QED
      BY <1>4, <2>1, <3>1 DEF UpsertLocalDelivery, Docs, Moved
  <2>2. CASE RecordLocalAuditEvent
    <3>1. CASE call' = [call EXCEPT ![Worker] = Idle]
      BY <1>1, <3>1, IdleSound, CallStep
    <3>2. CASE \E i \in Ids : Rewrite(Worker, "audit_log", i,
                                      [Docs("audit_log") EXCEPT ![i] = written], None)
      BY <1>1, <1>4, <3>2 DEF Docs, Moved
    <3> QED
      BY <2>2, <3>1, <3>2 DEF RecordLocalAuditEvent
  <2> QED
    BY <2>1, <2>2
<1> QED
  BY <1>3, <1>5 DEF LocalInv, LocalTypeOK, OnDiskUnchanged, disk, localHistory, TextConsistent

\* The processes that die forget what they held; the files stay as they are.
LEMMA DeathSound ==
    ASSUME LocalInv, NEW P \in SUBSET Processes, Die(P), serving' \in BOOLEAN
    PROVE  LocalInv'
<1>1. /\ call' = [p \in Processes |-> IF p \in P THEN Idle ELSE call[p]]
      /\ disturbed' = disturbed \cup {call[p].name : p \in {q \in P : call[q].step = "fill"}}
      /\ stranded' = stranded \cup {call[p].key : p \in {q \in P : call[q].op = "delete_vault"}}
      /\ deaths < mix.deaths /\ deaths' = deaths + 1
      /\ UNCHANGED <<disk, written, mix, intended>>
  BY DEF Die
<1>2. \A p \in Processes : call[p] \in LocalCall /\ CallSound(call[p])
  BY DEF LocalInv, LocalTypeOK
<1>3. call' \in [Processes -> LocalCall] /\ \A q \in Processes : CallSound(call'[q])
  BY <1>1, <1>2, IdleSound
<1>4. disturbed' \subseteq Moved \cup {"vault"}
  <2>1. ASSUME NEW q \in P, call[q].step = "fill"
        PROVE  call[q].name \in Moved \cup {"vault"}
    BY <1>2, <2>1 DEF CallSound, WritesTable
  <2> QED
    BY <1>1, <2>1 DEF LocalInv, LocalTypeOK
<1>5. stranded' \subseteq Ids
  <2>1. ASSUME NEW q \in P, call[q].op = "delete_vault"
        PROVE  call[q].key \in Ids
    BY <1>2, <2>1 DEF CallSound
  <2> QED
    BY <1>1, <2>1 DEF LocalInv, LocalTypeOK
<1>6. deaths' \in 0..mix.deaths
  BY <1>1, LocalBounds DEF LocalInv, LocalTypeOK
<1> QED
  BY <1>1, <1>3, <1>4, <1>5, <1>6 DEF LocalInv, LocalTypeOK, disk, TextConsistent

-----------------------------------------------------------------------------
(* The theorems.                                                            *)

\* The files an older version left are well typed, and so are its vaults.
LEMMA LocalInit == Init => LocalInv
<1> SUFFICES ASSUME Init PROVE LocalInv
  OBVIOUS
<1>1. PICK R \in SUBSET Recipients, V \in SUBSET Ids, L \in [Moved -> SUBSET Ids] :
        vaultsFile = [vaults |-> [i \in Ids |-> IF i \in V THEN NewVault(R, R, 1, 1)
                                                 ELSE None],
                      legacy |-> [t \in Moved |-> [i \in Ids |->
                                    IF i \in L[t] THEN 0 ELSE None]]]
  BY DEF Init
<1> DEFINE n == NewVault(R, R, 1, 1)
<1>2. n \in VaultDoc /\ Consistent(n)
  BY NewLocalVault
<1> HIDE DEF n
<1>3. vaultsFile.vaults = [i \in Ids |-> IF i \in V THEN n ELSE None]
  BY <1>1 DEF n
<1>4. vaultsFile.legacy = [t \in Moved |-> [i \in Ids |-> IF i \in L[t] THEN 0 ELSE None]]
  BY <1>1
<1>5. /\ vaultsFile.vaults \in [Ids -> VaultDoc \cup {None}]
      /\ vaultsFile.legacy \in [Moved -> Documents]
  BY <1>2, <1>3, <1>4 DEF Documents
<1>6. vaultsFile \in VaultsText
  BY <1>1, <1>5 DEF VaultsText
<1>7. TextConsistent(vaultsFile)
  BY <1>2, <1>3 DEF TextConsistent
<1>8. files \in [Moved -> Documents]
  BY DEF Init, NoDocuments, Documents
<1>9. call \in [Processes -> LocalCall] /\ \A p \in Processes : CallSound(call[p])
  BY IdleSound DEF Init
<1>10. mix \in Mixes /\ written \in 0..mix.writes /\ deaths \in 0..mix.deaths
  BY LocalBounds DEF Init
<1>11. intended \in [vaults : [Ids -> VaultDoc \cup {None}], docs : [Moved -> Documents]]
  BY <1>5 DEF Init
<1> QED
  BY <1>6, <1>7, <1>8, <1>9, <1>10, <1>11 DEF Init, LocalInv, LocalTypeOK

\* No step of any process leaves a file or a call unsound.
LEMMA LocalNext == LocalInv /\ [Next]_localVars => LocalInv'
<1> SUFFICES ASSUME LocalInv, [Next]_localVars PROVE LocalInv'
  OBVIOUS
<1>1. CASE BackendDies
  <2>1. Clients \in SUBSET Processes /\ serving' \in BOOLEAN
    BY <1>1 DEF Processes, BackendDies
  <2> QED
    BY <1>1, <2>1, DeathSound DEF BackendDies
<1>2. CASE WorkerDies
  <2>1. {Worker} \in SUBSET Processes /\ serving' \in BOOLEAN
    BY <1>2 DEF Processes, WorkerDies, LocalInv, LocalTypeOK
  <2> QED
    BY <1>2, <2>1, DeathSound DEF WorkerDies
<1>3. CASE UNCHANGED localVars
  BY <1>3 DEF localVars, disk, localHistory, LocalInv, LocalTypeOK, TextConsistent
<1> QED
  BY <1>1, <1>2, <1>3, ProcessStepSound, ReadLocalVaultSound, UpdateLocalVaultSound,
     WorkerRecordsSound DEF Next

\* The inductive invariant holds in every reachable state.
LEMMA LocalInvariance == LocalSpec => []LocalInv
BY LocalInit, LocalNext, PTL DEF LocalSpec

\* The JSON files, and what the processes hold of them, keep their types: no step of
\* initialize, of an operation, of the worker or of a death writes a file it does not
\* hold, or loses track of the vault it is about.
THEOREM LocalTypeCorrect == LocalSpec => []LocalTypeOK
<1>1. LocalInv => LocalTypeOK
  BY DEF LocalInv
<1> QED
  BY <1>1, LocalInvariance, PTL

\* However the threads and the worker overlap on vaults.json, and wherever one of them
\* dies in the middle of a write, every vault in the file agrees with itself: also those
\* the worker writes without the store's normalisations, and those that are written back
\* from a copy another operation has made stale.
THEOREM LocalVaultsStayConsistent == LocalSpec => []LocalDocumentsConsistent
<1>1. LocalInv => LocalDocumentsConsistent
  BY DEF LocalInv, TextConsistent, LocalDocumentsConsistent, Known, Doc
<1> QED
  BY <1>1, LocalInvariance, PTL

-----------------------------------------------------------------------------
(* What the files hold.  The argument is about one table at a time, and about *)
(* one view of the documents of it that are still in vaults.json: those the   *)
(* file shows while nobody writes it, and those a process has read and will    *)
(* write back.  Under every view the table is what the completed operations    *)
(* made it, and every text of it that a process is about to write will be.     *)

Fills(k, name) == k.step = "fill" /\ k.name = name
HasText(k, t) == k.text # None /\ k.name = t
HasVaults(k) == k.vtext # None

OtherFills(p, name) == \E q \in Processes \ {p} : Fills(call[q], name)

\* A text of a table will leave `docs` behind, apart from the document the call writes.
TextFits(k, docs, l) ==
    IF Moving(k) THEN k.text = docs
    ELSE /\ \A i \in Ids \ {k.key} : Merged(k.text, l)[i] = docs[i]
         /\ k.key \in Ids /\ l[k.key] # None => k.text[k.key] # None

\* Under the view l of the documents in vaults.json, table t is as intended.
Good(t, l) ==
    /\ ~BeingWritten(t) => Merged(files[t], l) = intended.docs[t]
    /\ \A i \in Ids : l[i] # None => intended.docs[t][i] # None
    /\ \A p \in Processes : HasText(call[p], t) /\ ~OtherFills(p, t) =>
          TextFits(call[p], intended.docs[t], l)

\* A copy of vaults.json is to be relied on unless it may have been read while another
\* process had emptied the file; only a reader that moves nothing can have done that.
Proper(p) == HasVaults(call[p]) /\ (Moving(call[p]) \/ ~OtherFills(p, "vault"))

IsView(t, l) == \/ ~BeingWritten("vault") /\ l = vaultsFile.legacy[t]
                \/ \E p \in Processes : Proper(p) /\ l = call[p].vtext.legacy[t]

TablesInv == \A t \in Moved : {"vault", t} \cap disturbed = {} =>
                \A l \in Documents : IsView(t, l) => Good(t, l)

\* The same for the vaults, and what the copies of vaults.json still show of the documents
\* initialize moves.
CopyFits(k, vaults) ==
    IF Moving(k) THEN k.vtext.vaults = vaults
    ELSE \A i \in Ids \ {k.key} : k.vtext.vaults[i] = vaults[i]

VaultsGood ==
    /\ ~BeingWritten("vault") => vaultsFile.vaults = intended.vaults
    /\ \A p \in Processes : Proper(p) => CopyFits(call[p], intended.vaults)
    /\ BeingWritten("vault") => vaultsFile = NoVaults
    /\ ~BeingWritten("vault") => \A p \in Processes, t \in Moved : HasVaults(call[p]) =>
          call[p].vtext.legacy[t] \in {vaultsFile.legacy[t], NoDocuments}

VaultsInv == "vault" \notin disturbed => VaultsGood

\* Who holds what.
LEMMA HeldTexts ==
    ASSUME LocalInv, NEW p \in Processes
    PROVE  /\ call[p].text # None => call[p].step \in {"truncate", "fill"} /\ call[p].name \in Moved
           /\ WritesTable(call[p]) =>
                call[p].text # None /\ call[p].text \in Documents /\ call[p].name \in Moved
           /\ HasVaults(call[p]) <=> WritesVaults(call[p])
           /\ HasVaults(call[p]) => call[p].vtext \in VaultsText
BY NoneIsNoText DEF LocalInv, CallSound, Orderly, WritesTable, WritesVaults, HasVaults, SoundText

\* What the history records of a write that another process holds a copy of.
LEMMA UndisturbedFill ==
    ASSUME LocalInv, NEW p \in Processes, Fill(p), call[p].name \notin disturbed'
    PROVE  /\ \A q \in Processes \ {p} : ~HoldsCopy(q, call[p].name)
           /\ call[p].name = "vault" => \A q \in Processes \ {p} : ~HasVaults(call[q])
           /\ call[p].name # "vault" => \A q \in Processes \ {p} : ~HasText(call[q], call[p].name)
           /\ ~OtherFills(p, call[p].name)
<1>1. \A q \in Processes \ {p} : ~HoldsCopy(q, call[p].name)
  BY DEF Fill
<1>2. /\ call[p].name = "vault" => \A q \in Processes \ {p} : ~HasVaults(call[q])
      /\ call[p].name # "vault" => \A q \in Processes \ {p} : ~HasText(call[q], call[p].name)
  BY <1>1 DEF HoldsCopy, HasVaults, HasText
<1>3. ASSUME NEW q \in Processes \ {p}, Fills(call[q], call[p].name) PROVE FALSE
  <2>1. CASE call[p].name = "vault"
    BY <1>2, <1>3, <2>1, HeldTexts DEF Fills, WritesVaults
  <2>2. CASE call[p].name # "vault"
    BY <1>2, <1>3, <2>2, HeldTexts DEF Fills, WritesTable, HasText
  <2> QED
    BY <2>1, <2>2
<1> QED
  BY <1>1, <1>2, <1>3 DEF OtherFills

-----------------------------------------------------------------------------
(* One table under one view.                                                *)

\* A step that leaves the table, its texts and its writers alone, or begins to write it.
LEMMA GoodSame ==
    ASSUME NEW t \in Moved, NEW l, Good(t, l),
           ~BeingWritten(t)' => files'[t] = files[t],
           intended'.docs[t] = intended.docs[t],
           \A q \in Processes : Fills(call[q], t) => Fills(call'[q], t),
           \A q \in Processes : HasText(call'[q], t) =>
               /\ HasText(call[q], t) /\ call'[q].text = call[q].text
               /\ call'[q].key = call[q].key /\ (Moving(call'[q]) <=> Moving(call[q]))
    PROVE  Good(t, l)'
<1>1. ~BeingWritten(t)' => ~BeingWritten(t)
  BY DEF BeingWritten, Fills
<1>2. (~BeingWritten(t) => Merged(files[t], l) = intended.docs[t])'
  BY <1>1 DEF Good
<1>3. ASSUME NEW q \in Processes, HasText(call'[q], t), ~OtherFills(q, t)'
      PROVE  TextFits(call'[q], intended'.docs[t], l)
  <2>1. ~OtherFills(q, t)
    BY <1>3 DEF OtherFills
  <2>2. TextFits(call[q], intended.docs[t], l)
    BY <1>3, <2>1 DEF Good
  <2>3. /\ call'[q].text = call[q].text /\ call'[q].key = call[q].key
        /\ Moving(call'[q]) <=> Moving(call[q])
    BY <1>3
  <2> QED
    BY <2>2, <2>3 DEF TextFits
<1> QED
  BY <1>2, <1>3 DEF Good

\* A process that has read the table and will write a text of it.
LEMMA GoodNewText ==
    ASSUME LocalInv, NEW t \in Moved, NEW l, Good(t, l), NEW p \in Processes, NEW k,
           call' = [call EXCEPT ![p] = k], ~Fills(call[p], t), ~Fills(k, t),
           files'[t] = files[t], intended'.docs[t] = intended.docs[t],
           ~BeingWritten(t) => TextFits(k, intended.docs[t], l)
    PROVE  Good(t, l)'
<1>1. call'[p] = k /\ \A q \in Processes \ {p} : call'[q] = call[q]
  BY DEF LocalInv, LocalTypeOK
<1>2. \A q \in Processes : Fills(call'[q], t) <=> Fills(call[q], t)
  BY <1>1
<1>3. (~BeingWritten(t) => Merged(files[t], l) = intended.docs[t])'
  BY <1>2 DEF Good, BeingWritten, Fills
<1>4. ASSUME NEW q \in Processes, HasText(call'[q], t), ~OtherFills(q, t)'
      PROVE  TextFits(call'[q], intended'.docs[t], l)
  <2>1. ~OtherFills(q, t)
    BY <1>2, <1>4 DEF OtherFills
  <2>2. CASE q = p
    <3>1. ~BeingWritten(t)
      BY <2>1, <2>2 DEF OtherFills, BeingWritten, Fills
    <3> QED
      BY <1>1, <2>2, <3>1
  <2>3. CASE q # p
    BY <1>1, <1>4, <2>1, <2>3 DEF Good
  <2> QED
    BY <2>2, <2>3
<1> QED
  BY <1>3, <1>4 DEF Good

\* The text a call makes of a table it has read fits, unless it takes out a document that
\* vaults.json still has.
LEMMA TakenTextFits ==
    ASSUME NEW table \in Documents, NEW docs, NEW l \in Documents, Merged(table, l) = docs,
           NEW k, NEW i \in Ids, NEW doc, k.text = [table EXCEPT ![i] = doc], k.key = i,
           ~Moving(k), doc = None => l[i] = None
    PROVE  TextFits(k, docs, l)
BY DEF TextFits, Merged, Documents

\* So does a text that is the table as it has been read.
LEMMA WholeTextFits ==
    ASSUME NEW table \in Documents, NEW docs, NEW l \in Documents, Merged(table, l) = docs,
           NEW k, k.text = table, k.key = None, ~Moving(k)
    PROVE  TextFits(k, docs, l)
BY LocalBounds DEF TextFits

\* The write of a text that fits leaves the table as intended, whatever was moved or written.
LEMMA FilledTable ==
    ASSUME NEW docs \in Documents, NEW l \in Documents, NEW k, k.text \in Documents,
           TextFits(k, docs, l), \A i \in Ids : l[i] # None => docs[i] # None,
           k.key \in Ids \cup {None}, NEW docs2,
           docs2 = IF ~ChangesOne(k) THEN docs ELSE [docs EXCEPT ![k.key] = k.text[k.key]]
    PROVE  /\ Merged(k.text, l) = docs2
           /\ \A i \in Ids : l[i] # None => docs2[i] # None
<1>1. CASE Moving(k)
  BY <1>1 DEF TextFits, Merged, Documents, ChangesOne
<1>2. CASE ~Moving(k)
  <2>1. ASSUME NEW i \in Ids
        PROVE  Merged(k.text, l)[i] = docs2[i] /\ (l[i] # None => docs2[i] # None)
    <3>1. CASE i = k.key
      <4>1. docs2[i] = k.text[i]
        BY <1>2, <3>1, LocalBounds DEF ChangesOne, Documents
      <4> QED
        BY <1>2, <3>1, <4>1 DEF TextFits, Merged, Documents
    <3>2. CASE i # k.key
      BY <1>2, <3>2 DEF TextFits, Merged, Documents, ChangesOne
    <3> QED
      BY <3>1, <3>2
  <2>2. docs2 = [i \in Ids |-> docs2[i]]
    BY <1>2 DEF Documents
  <2>3. Merged(k.text, l) = [i \in Ids |-> Merged(k.text, l)[i]]
    BY DEF Merged
  <2> QED
    BY <2>1, <2>2, <2>3
<1> QED
  BY <1>1, <1>2

\* What is left of a call after a write.
LEMMA ResumedFacts ==
    ASSUME NEW k \in LocalCall, CallSound(k), k.step = "fill"
    PROVE  /\ Resumed(k).step # "fill" /\ Resumed(k).text = None
           /\ Resumed(k).op \in {k.op, "idle"}
           /\ Moving(k) /\ k.name # "vault" =>
                /\ Moving(Resumed(k)) /\ Resumed(k).name = "vault"
                /\ Resumed(k).vtext = [k.vtext EXCEPT !.legacy = [@ EXCEPT ![k.name] = NoDocuments]]
           /\ ~(Moving(k) /\ k.name # "vault") => Resumed(k).vtext = None
<1>1. /\ Idle.step = "none" /\ Idle.text = None /\ Idle.vtext = None /\ Idle.op = "idle"
      /\ Idle.key = None /\ Idle.todo = {} /\ Idle \in LocalCall
  BY IdleSound DEF Idle
<1>t. k.key \in Ids \cup {None} /\ k.todo \in SUBSET Ids
  BY DEF LocalCall
<1>2. CASE Moving(k) /\ k.name # "vault"
  <2> DEFINE x == [k.vtext EXCEPT !.legacy[k.name] = NoDocuments]
             r == [k EXCEPT !.step = "truncate", !.name = "vault", !.text = None, !.vtext = x]
  <2>1. k.vtext \in VaultsText
    BY <1>2 DEF CallSound, WritesVaults, SoundText
  <2>2. Resumed(k) = r
    BY <1>2, <2>1 DEF Resumed, LocalCall
  <2>3. x = [k.vtext EXCEPT !.legacy = [@ EXCEPT ![k.name] = NoDocuments]]
    BY <2>1 DEF VaultsText
  <2> HIDE DEF x
  <2>4. /\ r.step = "truncate" /\ r.name = "vault" /\ r.text = None /\ r.vtext = x
        /\ r.after = k.after /\ r.op = k.op
    BY DEF LocalCall
  <2> HIDE DEF r
  <2> QED
    BY <1>2, <2>2, <2>3, <2>4 DEF Moving
<1>3. ASSUME NEW step \in BetweenSteps,
             NEW key \in Ids \cup {None}, NEW todo \in SUBSET Ids,
             Resumed(k) = [Idle EXCEPT !.op = k.op, !.step = step, !.key = key, !.todo = todo]
      PROVE  /\ Resumed(k).step # "fill" /\ Resumed(k).text = None
             /\ Resumed(k).op = k.op /\ Resumed(k).vtext = None
  <2>1. step # "fill"
    BY StepNames
  <2> QED
    BY <1>1, <1>3, <2>1 DEF LocalCall
<1>4. CASE Moving(k) /\ k.name = "vault" /\ k.after # "idle"
  <2>1. Resumed(k) = [Idle EXCEPT !.op = k.op, !.step = k.after, !.key = k.key,
                                  !.todo = k.todo]
    BY <1>4 DEF Resumed
  <2>2. k.after \in BetweenSteps
    BY <1>4 DEF LocalCall, InitializeComesFrom, Moving, BetweenSteps
  <2>3. /\ Resumed(k).step # "fill" /\ Resumed(k).text = None
        /\ Resumed(k).op = k.op /\ Resumed(k).vtext = None
    BY <1>3, <1>t, <2>1, <2>2, ZenonT(30)
  <2> QED
    BY <1>4, <2>3
<1>5. CASE /\ ~Moving(k)
           /\ \/ k.op = "delete_vault" /\ k.name = "vault"
              \/ k.op = "worker" /\ k.name \in {"vault", "delivery"}
  <2> DEFINE step == IF k.op = "delete_vault" THEN "purge"
                     ELSE IF k.name = "vault" THEN "mirror" ELSE "audit"
  <2>1. Resumed(k) = [Idle EXCEPT !.op = k.op, !.step = step, !.key = k.key]
    BY <1>5 DEF Resumed
  <2>2. Resumed(k) = [Idle EXCEPT !.op = k.op, !.step = step, !.key = k.key,
                                  !.todo = Idle.todo]
    BY <1>1, <2>1 DEF LocalCall
  <2>3. step \in BetweenSteps
    BY StepNames
  <2> HIDE DEF step
  <2>4. /\ Resumed(k).step # "fill" /\ Resumed(k).text = None
        /\ Resumed(k).op = k.op /\ Resumed(k).vtext = None
    BY <1>1, <1>3, <1>t, <2>2, <2>3, ZenonT(30)
  <2> QED
    BY <1>5, <2>4
<1>6. CASE ~Moving(k) /\ k.op = "backfill"
  <2> DEFINE step == IF k.key = None THEN NextPass[k.name] ELSE "backfill"
  <2>1. Resumed(k) = [Idle EXCEPT !.op = k.op, !.todo = k.todo, !.step = step]
    BY <1>6 DEF Resumed
  <2>2. Resumed(k) = [Idle EXCEPT !.op = k.op, !.step = step, !.key = Idle.key,
                                  !.todo = k.todo]
    BY <1>1, <2>1 DEF LocalCall
  <2>p. step \in StartUpSteps
    BY <1>6, StartUpPass
  <2> HIDE DEF step
  <2>s. step \in BetweenSteps
    BY <2>p, StepNames
  <2>3. /\ Resumed(k).step # "fill" /\ Resumed(k).text = None
        /\ Resumed(k).op = k.op /\ Resumed(k).vtext = None
    BY <1>1, <1>3, <1>t, <2>2, <2>s
  <2> QED
    BY <1>6, <2>3
<1>7. CASE /\ ~(Moving(k) /\ k.name # "vault")
           /\ ~(Moving(k) /\ k.name = "vault" /\ k.after # "idle")
           /\ ~(~Moving(k) /\ k.op = "delete_vault" /\ k.name = "vault")
           /\ ~(~Moving(k) /\ k.op = "backfill")
           /\ ~(~Moving(k) /\ k.op = "worker" /\ k.name \in {"vault", "delivery"})
  <2>1. Resumed(k) = Idle
    BY <1>7 DEF Resumed
  <2> QED
    BY <1>1, <1>7, <2>1
<1> QED
  BY <1>2, <1>4, <1>5, <1>6, <1>7

\* A write of the table.
LEMMA GoodFill ==
    ASSUME LocalInv, NEW t \in Moved, NEW l \in Documents, Good(t, l),
           NEW p \in Processes, Fill(p), call[p].name = t, t \notin disturbed'
    PROVE  Good(t, l)' /\ (Moving(call[p]) => files'[t] = intended'.docs[t])
<1> DEFINE k == call[p]
<1>1. k \in LocalCall /\ CallSound(k) /\ k.step = "fill" /\ t # "vault"
  BY DEF LocalInv, LocalTypeOK, Fill, Moved
<1>2. k.text \in Documents /\ HasText(k, t)
  BY <1>1, HeldTexts DEF WritesTable, HasText
<1>3. ~OtherFills(p, t) /\ \A q \in Processes \ {p} : ~HasText(call[q], t)
  BY <1>1, UndisturbedFill
<1>4. TextFits(k, intended.docs[t], l) /\ \A i \in Ids : l[i] # None => intended.docs[t][i] # None
  BY <1>2, <1>3 DEF Good
<1>5. intended.docs \in [Moved -> Documents] /\ files \in [Moved -> Documents]
  BY DEF LocalInv, LocalTypeOK
<1>6. files'[t] = k.text
  BY <1>1, <1>5 DEF Fill
<1>7. intended'.docs[t] = IF ~ChangesOne(k) THEN intended.docs[t]
                          ELSE [intended.docs[t] EXCEPT ![k.key] = k.text[k.key]]
  <2>1. CASE ~ChangesOne(k)
    BY <2>1 DEF Fill
  <2>2. CASE ChangesOne(k)
    <3>1. intended' = [intended EXCEPT !.docs[t][k.key] = k.text[k.key]]
      BY <1>1, <2>2 DEF Fill
    <3> QED
      BY <1>5, <2>2, <3>1 DEF LocalInv, LocalTypeOK
  <2> QED
    BY <2>1, <2>2
<1>8. /\ Merged(k.text, l) = intended'.docs[t]
      /\ \A i \in Ids : l[i] # None => intended'.docs[t][i] # None
  <2>1. intended.docs[t] \in Documents /\ k.key \in Ids \cup {None}
    BY <1>1, <1>5 DEF LocalCall
  <2> QED
    BY <1>2, <1>4, <1>7, <2>1, FilledTable
<1>9. \A q \in Processes : ~HasText(call'[q], t)
  <2>1. call' = [call EXCEPT ![p] = Resumed(k)] /\ call \in [Processes -> LocalCall]
    BY DEF Fill, LocalInv, LocalTypeOK
  <2>2. Resumed(k).text = None
    BY <1>1, ResumedFacts
  <2> QED
    BY <1>3, <2>1, <2>2 DEF HasText
<1>10. Good(t, l)'
  BY <1>6, <1>8, <1>9 DEF Good
<1>11. Moving(k) => files'[t] = intended'.docs[t]
  BY <1>4, <1>6, <1>7 DEF TextFits, ChangesOne
<1> QED
  BY <1>10, <1>11

\* A write of another file.
LEMMA GoodOtherFill ==
    ASSUME LocalInv, NEW t \in Moved, NEW l, Good(t, l),
           NEW p \in Processes, Fill(p), call[p].name # t
    PROVE  Good(t, l)'
<1> DEFINE k == call[p]
<1>1. k \in LocalCall /\ CallSound(k) /\ k.step = "fill"
  BY DEF LocalInv, LocalTypeOK, Fill
<1>2. call' = [call EXCEPT ![p] = Resumed(k)] /\ call \in [Processes -> LocalCall]
  BY DEF Fill, LocalInv, LocalTypeOK
<1>3. Resumed(k).step # "fill" /\ Resumed(k).text = None
  BY <1>1, ResumedFacts
<1>4. files'[t] = files[t]
  BY DEF Fill, LocalInv, LocalTypeOK
<1>5. k.name \in Moved \cup {"vault"}
  BY <1>1 DEF CallSound, WritesTable
<1>6. intended'.docs[t] = intended.docs[t]
  <2>1. CASE ~ChangesOne(k)
    BY <2>1 DEF Fill
  <2>2. CASE ChangesOne(k) /\ k.name = "vault"
    <3>1. intended' = [intended EXCEPT !.vaults[k.key] = k.vtext.vaults[k.key]]
      BY <2>2 DEF Fill
    <3> QED
      BY <3>1 DEF LocalInv, LocalTypeOK
  <2>3. CASE ChangesOne(k) /\ k.name # "vault"
    <3>1. intended' = [intended EXCEPT !.docs[k.name][k.key] = k.text[k.key]]
      BY <2>3 DEF Fill
    <3> QED
      BY <3>1 DEF LocalInv, LocalTypeOK
  <2> QED
    BY <2>1, <2>2, <2>3
<1>7. \A q \in Processes : Fills(call[q], t) => Fills(call'[q], t)
  BY <1>2 DEF Fills
<1>8. \A q \in Processes : HasText(call'[q], t) => call'[q] = call[q]
  BY <1>2, <1>3 DEF HasText
<1> QED
  BY <1>4, <1>6, <1>7, <1>8, GoodSame

-----------------------------------------------------------------------------
(* The steps, sorted by what they do to the copies the processes hold.       *)

\* Process p goes on with k; the files stay as they are.
Turns(p, k) ==
    /\ call' = [call EXCEPT ![p] = k]
    /\ call[p].step \notin {"truncate", "fill"}
    /\ UNCHANGED <<vaultsFile, files, intended>>
    /\ disturbed \subseteq disturbed'

\* It has read table t and will write it with another document i.
TakesText(p, k, t, i, doc) ==
    /\ Turns(p, k)
    /\ k.step = "truncate" /\ k.name = t /\ k.key = i /\ ~Moving(k)
    /\ k.text = [files[t] EXCEPT ![i] = doc] /\ k.vtext = None

\* It has read vaults.json and will write it with another vault i.
TakesVaults(p, k, i, doc) ==
    /\ Turns(p, k)
    /\ k.step = "truncate" /\ k.name = "vault" /\ k.key = i /\ ~Moving(k)
    /\ k.vtext = [vaultsFile EXCEPT !.vaults[i] = doc] /\ k.text = None

\* It has read table t, or vaults.json, and will write it as it has read it.
TakesWholeText(p, k, t) ==
    /\ Turns(p, k)
    /\ k.step = "truncate" /\ k.name = t /\ k.key = None /\ ~Moving(k)
    /\ k.text = files[t] /\ k.vtext = None

TakesWholeVaults(p, k) ==
    /\ Turns(p, k)
    /\ k.step = "truncate" /\ k.name = "vault" /\ k.key = None /\ ~Moving(k)
    /\ k.vtext = vaultsFile /\ k.text = None

\* It has read vaults.json and found documents to move.
TakesLegacy(p, k) ==
    /\ Turns(p, k)
    /\ k.step = "merge" /\ Moving(k) /\ k.vtext = vaultsFile /\ k.text = None
    /\ vaultsFile.legacy # NoVaults.legacy

\* It holds nothing.
Pauses(p, k) ==
    /\ Turns(p, k)
    /\ k.step \notin {"truncate", "fill"} /\ k.vtext = None /\ k.text = None

\* A deletion goes by what initialize left in vaults.json.
MayTakeOut(p, t) ==
    \/ t \in disturbed'
    \/ Legacy = {} /\ ~BeingWritten("vault")
    \/ t = "delivery" /\ call[p].op = "delete_vault"

\* No document of an older version is left in vaults.json.
LEMMA NoLegacy ==
    ASSUME LocalInv
    PROVE  Legacy = {} <=> vaultsFile.legacy = NoVaults.legacy
BY DEF Legacy, NoVaults, LocalInv, LocalTypeOK, VaultsText

\* An operation begins.
LEMMA OperateTurns ==
    ASSUME LocalInv, NEW p \in Processes, NEW op, NEW name \in Moved \cup {"vault"},
           NEW i \in Ids, NEW text \in Documents \cup {None},
           NEW vtext \in VaultsText \cup {None}, Operate(p, op, name, i, text, vtext)
    PROVE  \E k : /\ Turns(p, k) /\ k.op = op /\ k.step = "truncate" /\ k.name = name
                  /\ k.key = i /\ k.text = text /\ k.vtext = vtext /\ ~Moving(k)
<1> DEFINE k == [Idle EXCEPT !.op = op, !.step = "truncate", !.name = name, !.key = i,
                             !.text = text, !.vtext = vtext]
<1>1. call' = [call EXCEPT ![p] = k] /\ call[p] = Idle
  BY DEF Operate
<1>2. Idle \in LocalCall /\ Idle.after = "none" /\ Idle.step = "none"
  BY IdleSound DEF Idle
<1>3. /\ k.op = op /\ k.step = "truncate" /\ k.name = name /\ k.key = i
      /\ k.text = text /\ k.vtext = vtext /\ k.after = "none"
  BY <1>2 DEF LocalCall
<1> HIDE DEF k
<1>4. Turns(p, k)
  BY <1>1, <1>2 DEF Turns, Operate, disk
<1>5. ~Moving(k)
  BY <1>3 DEF Moving
<1> QED
  BY <1>3, <1>4, <1>5

\* An edit of a vault takes a copy of vaults.json.
LEMMA EditTurns ==
    ASSUME LocalInv, NEW p \in Processes, NEW op, NEW i \in Ids,
           NEW doc, EditVault(p, op, i, doc),
           \/ doc = None
           \/ doc \in VaultDoc /\ Consistent(doc)
    PROVE  \E k : TakesVaults(p, k, i, doc) /\ k.op = op
<1> DEFINE x == [vaultsFile EXCEPT !.vaults[i] = doc]
<1>1. x \in VaultsText
  BY EditedText DEF SoundText
<1>2. Operate(p, op, "vault", i, None, x)
  BY DEF EditVault
<1> HIDE DEF x
<1>3. PICK k : /\ Turns(p, k) /\ k.op = op /\ k.step = "truncate" /\ k.name = "vault"
               /\ k.key = i /\ k.text = None /\ k.vtext = x /\ ~Moving(k)
  BY <1>1, <1>2, OperateTurns
<1>4. TakesVaults(p, k, i, doc)
  BY <1>3 DEF TakesVaults, x
<1> QED
  BY <1>3, <1>4

\* An operation on accounts or audit entries takes a copy of its table.
LEMMA PutTurns ==
    ASSUME LocalInv, NEW p \in Processes, NEW op, NEW t \in {"user", "audit_log"},
           NEW i \in Ids, NEW doc \in {written + 1, None}, PutDocument(p, op, t, i, doc),
           doc = None => op = "delete_user"
    PROVE  \E k : TakesText(p, k, t, i, doc) /\ k.op = op /\ (doc = None => MayTakeOut(p, t))
<1> DEFINE x == [files[t] EXCEPT ![i] = doc]
<1>1. Operate(p, op, t, i, x, None)
  BY DEF PutDocument, Docs
<1>2. written + 1 \in Nat
  BY LocalBounds DEF LocalInv, LocalTypeOK
<1>3. x \in Documents
  BY <1>2, EditedTable DEF Moved
<1> HIDE DEF x
<1>4. PICK k : /\ Turns(p, k) /\ k.op = op /\ k.step = "truncate" /\ k.name = t
               /\ k.key = i /\ k.text = x /\ k.vtext = None /\ ~Moving(k)
  BY <1>1, <1>3, OperateTurns DEF Moved
<1>5. TakesText(p, k, t, i, doc)
  BY <1>4 DEF TakesText, x
<1>6. doc = None => MayTakeOut(p, t)
  BY <1>1 DEF Operate, MayTakeOut
<1> QED
  BY <1>4, <1>5, <1>6

\* A call that has no text yet reads its table.
LEMMA RewriteTurns ==
    ASSUME LocalInv, NEW p \in Processes, NEW t \in Moved, NEW i \in Ids,
           NEW doc \in Nat \cup {None}, Rewrite(p, t, i, [files[t] EXCEPT ![i] = doc], None),
           call[p].step \in {"purge", "mirror", "audit"},
           UNCHANGED <<vaultsFile, files, intended>>, disturbed' = disturbed
    PROVE  \E k : TakesText(p, k, t, i, doc) /\ k.op = call[p].op
<1> DEFINE x == [files[t] EXCEPT ![i] = doc]
           k == [call[p] EXCEPT !.step = "truncate", !.name = t, !.key = i, !.text = x,
                                !.vtext = None]
<1>1. call' = [call EXCEPT ![p] = k] /\ call[p] \in LocalCall
  BY DEF Rewrite, LocalInv, LocalTypeOK
<1> HIDE DEF x
<1>2. /\ k.op = call[p].op /\ k.step = "truncate" /\ k.name = t /\ k.key = i
      /\ k.text = x /\ k.vtext = None /\ k.after = call[p].after
  BY <1>1 DEF LocalCall
<1> HIDE DEF k
<1>3. ~Moving(k)
  BY <1>2, StepNames DEF LocalInv, CallSound, Moving
<1>4. TakesText(p, k, t, i, doc)
  BY <1>1, <1>2, <1>3 DEF TakesText, Turns, x
<1> QED
  BY <1>2, <1>4

\* What a process may read, and take with it.
Reads(p, k) ==
    \/ TakesLegacy(p, k) \/ Pauses(p, k) \/ TakesWholeVaults(p, k)
    \/ \E t \in Moved : TakesWholeText(p, k, t)
    \/ \E i \in Ids, doc \in VaultDoc \cup {None} : TakesVaults(p, k, i, doc)
    \/ \E t \in Moved, i \in Ids, doc \in Nat \cup {None} :
          TakesText(p, k, t, i, doc) /\ (doc = None => MayTakeOut(p, t))

\* A deletion has found its vault, in a vaults.json without documents to move.
DeletesKnown(p, k) ==
    k.op = "delete_vault" => call[p].op = "delete_vault" \/ (Legacy = {} /\ \E i \in Ids : Known(i))

TakesUp(p) == \E k : Reads(p, k) /\ DeletesKnown(p, k)

\* The disk and the intentions stay, one process has nothing in hand afterwards.
LEMMA IdleTakesUp ==
    ASSUME LocalInv, NEW p \in Processes, call' = [call EXCEPT ![p] = Idle],
           call[p].step \notin {"truncate", "fill"},
           UNCHANGED <<vaultsFile, files, intended>>, disturbed' = disturbed
    PROVE  TakesUp(p)
<1>1. /\ Idle.step = "none" /\ Idle.text = None /\ Idle.vtext = None /\ Idle.op = "idle"
  BY DEF Idle
<1>2. Pauses(p, Idle) /\ DeletesKnown(p, Idle)
  BY <1>1 DEF Pauses, Turns, DeletesKnown
<1> QED
  BY <1>2 DEF TakesUp, Reads

\* initialize finds documents to move.
LEMMA ReadLegacyTakesUp ==
    ASSUME LocalInv, NEW p \in Processes, ReadLegacy(p)
    PROVE  TakesUp(p)
<1> DEFINE o == IF call[p] = Idle THEN "initialize" ELSE call[p].op
           a == IF call[p] = Idle THEN "idle" ELSE call[p].step
           k == [call[p] EXCEPT !.op = o, !.step = "merge", !.name = FirstLegacy,
                                !.vtext = vaultsFile, !.after = a]
<1>1. call[p] \in LocalCall /\ CallSound(call[p])
  BY DEF LocalInv, LocalTypeOK
<1>2. /\ call' = [call EXCEPT ![p] = k] /\ OnDiskUnchanged /\ Legacy # {}
      /\ call[p] = Idle \/ call[p].step \in ReadingSteps
  BY <1>1 DEF ReadLegacy, LocalInv, LocalTypeOK
<1>3. Idle.step = "none" /\ Idle.text = None
  BY DEF Idle
<1>4. a # "none" /\ (o = "delete_vault" => call[p].op = "delete_vault")
  BY <1>2, StepNames
<1> HIDE DEF o, a
<1>5. /\ k.op = o /\ k.step = "merge" /\ k.vtext = vaultsFile /\ k.after = a
      /\ k.text = call[p].text
  BY <1>1 DEF LocalCall
<1> HIDE DEF k
<1>6. call[p].text = None /\ call[p].step \notin {"truncate", "fill"}
  BY <1>1, <1>2, <1>3, StepNames DEF CallSound, Orderly
<1>7. TakesLegacy(p, k)
  BY <1>2, <1>4, <1>5, <1>6, NoLegacy
     DEF TakesLegacy, Turns, OnDiskUnchanged, disk, localHistory, Moving
<1>8. DeletesKnown(p, k)
  BY <1>4, <1>5 DEF DeletesKnown
<1> QED
  BY <1>7, <1>8 DEF TakesUp, Reads

\* backfill_document_shapes begins, goes on, or takes a copy of a file.
LEMMA BackfillTakesUp ==
    ASSUME LocalInv, NEW p \in Processes,
           StartBackfill(p) \/ ShapeFile(p) \/ ListVaults(p) \/ BackfillNext(p)
    PROVE  TakesUp(p)
<1>1. call[p] \in LocalCall /\ CallSound(call[p]) /\ Idle \in LocalCall
  BY IdleSound DEF LocalInv, LocalTypeOK
<1>i. Idle.step = "none" /\ Idle.text = None /\ Idle.vtext = None
  BY DEF Idle
<1>2. CASE StartBackfill(p)
  <2> DEFINE k == [Idle EXCEPT !.op = "backfill", !.step = "shape_vault"]
  <2>1. /\ call' = [call EXCEPT ![p] = k] /\ OnDiskUnchanged /\ call[p] = Idle
    BY <1>2 DEF StartBackfill, StartingAlone
  <2>2. k.op = "backfill" /\ k.step = "shape_vault" /\ k.text = None /\ k.vtext = None
    BY <1>1, <1>i DEF LocalCall
  <2> HIDE DEF k
  <2>3. Pauses(p, k) /\ DeletesKnown(p, k)
    BY <1>i, <2>1, <2>2
       DEF Pauses, Turns, DeletesKnown, OnDiskUnchanged, disk, localHistory
  <2> QED
    BY <2>3 DEF TakesUp, Reads
<1>3. CASE BackfillNext(p) /\ call[p].todo = {}
  BY <1>3, IdleTakesUp DEF BackfillNext, disk, localHistory
<1>4. CASE BackfillNext(p) /\ call[p].todo # {}
  <2>1. PICK i \in call[p].todo :
          call' = [call EXCEPT ![p] = [call[p] EXCEPT
                         !.step = "truncate", !.name = "delivery",
                         !.key = i, !.todo = call[p].todo \ {i},
                         !.text = [files["delivery"] EXCEPT ![i] = written + 1]]]
    BY <1>4 DEF BackfillNext
  <2> DEFINE x == [files["delivery"] EXCEPT ![i] = written + 1]
             d == call[p].todo \ {i}
             k == [call[p] EXCEPT !.step = "truncate", !.name = "delivery", !.key = i,
                                  !.todo = d, !.text = x]
  <2>2. call' = [call EXCEPT ![p] = k] /\ i \in Ids /\ written + 1 \in Nat
    BY <1>1, <2>1, LocalBounds DEF LocalCall, LocalInv, LocalTypeOK
  <2> HIDE DEF x, d
  <2>3. /\ k.step = "truncate" /\ k.name = "delivery" /\ k.key = i /\ k.text = x
        /\ k.after = call[p].after /\ k.op = call[p].op /\ k.vtext = call[p].vtext
    BY <1>1 DEF LocalCall
  <2> HIDE DEF k
  <2>4. ~Moving(call[p]) /\ call[p].vtext = None /\ call[p].step = "backfill"
    BY <1>4, StartUpHolds, StepNames DEF BackfillNext
  <2>5. TakesText(p, k, "delivery", i, written + 1)
    BY <1>4, <2>2, <2>3, <2>4 DEF TakesText, Turns, BackfillNext, disk, localHistory, Moving, x
  <2>6. DeletesKnown(p, k)
    BY <2>3 DEF DeletesKnown
  <2>7. written + 1 # None
    BY <2>2, NoneIsNoTime
  <2> QED
    BY <2>2, <2>5, <2>6, <2>7 DEF TakesUp, Reads, Moved
<1>5. ASSUME call[p].step \in StartUpSteps, OnDiskUnchanged, NEW step \in StartUpSteps,
             NEW T \in SUBSET Ids, NEW k, k = [call[p] EXCEPT !.step = step, !.todo = T],
             call' = [call EXCEPT ![p] = k]
      PROVE  TakesUp(p)
  <2>1. /\ k \in LocalCall /\ CallSound(k) /\ k.step = step /\ k.todo = T
        /\ k.op = "backfill" /\ k.key = call[p].key /\ k.text = None /\ k.vtext = None
    <3>1. k \in LocalCall /\ CallSound(k)
      BY <1>5, StartUpGoesOn, ZenonT(30)
    <3>2. call[p].op = "backfill" /\ call[p].text = None /\ call[p].vtext = None
      BY <1>5, StartUpHolds
    <3> QED
      BY <1>1, <1>5, <3>1, <3>2 DEF LocalCall
  <2>2. Pauses(p, k) /\ DeletesKnown(p, k)
    BY <1>5, <2>1, StepNames
       DEF Pauses, Turns, DeletesKnown, OnDiskUnchanged, disk, localHistory
  <2> QED
    BY <2>2 DEF TakesUp, Reads
<1>6. CASE ListVaults(p)
  <2>1. PICK T \in SUBSET {i \in Ids : Known(i)} :
          call' = [call EXCEPT ![p].step = "backfill", ![p].todo = T]
    BY <1>6 DEF ListVaults
  <2>2. PICK k : k = [call[p] EXCEPT !.step = "backfill", !.todo = T]
    OBVIOUS
  <2>3. call' = [call EXCEPT ![p] = k] /\ T \in SUBSET Ids
    BY <2>1, <2>2 DEF LocalInv, LocalTypeOK
  <2>4. call[p].step \in StartUpSteps /\ "backfill" \in StartUpSteps /\ OnDiskUnchanged
    BY <1>6, StepNames DEF ListVaults
  <2> QED
    BY <1>5, <2>2, <2>3, <2>4
<1>7. CASE ShapeFile(p)
  <2> DEFINE name == PassOver[call[p].step]
  <2>1. call[p].step \in DOMAIN PassOver /\ OnDiskUnchanged
    BY <1>7 DEF ShapeFile
  <2>2. call[p].step \in StartUpSteps /\ call[p].todo \in SUBSET Ids
    BY <1>1, <2>1, StepNames DEF LocalCall
  <2>3. CASE call' = [call EXCEPT ![p].step = NextPass[name]]
    <3>1. PICK step \in StartUpSteps :
            \E k : /\ k = [call[p] EXCEPT !.step = step, !.todo = call[p].todo]
                   /\ call' = [call EXCEPT ![p] = k]
      BY <2>1, <2>3, PassesBy
    <3> QED
      BY <1>5, <2>1, <2>2, <3>1
  <2>4. CASE Rewrite(p, name, None, IF name = "vault" THEN None ELSE files[name],
                                    IF name = "vault" THEN vaultsFile ELSE None)
    <3>1. PICK k \in LocalCall :
            /\ call' = [call EXCEPT ![p] = k]
            /\ k.step = "truncate" /\ k.op = "backfill" /\ k.name = name /\ k.key = None
            /\ name \in DOMAIN NextPass /\ ~Moving(k)
            /\ k.text = (IF name = "vault" THEN None ELSE files[name])
            /\ k.vtext = (IF name = "vault" THEN vaultsFile ELSE None)
      BY <2>1, <2>4, PassWrites
    <3>2. Turns(p, k) /\ DeletesKnown(p, k)
      BY <2>1, <3>1, StepNames DEF Turns, DeletesKnown, OnDiskUnchanged, disk, localHistory
    <3>3. CASE name = "vault"
      BY <3>1, <3>2, <3>3 DEF TakesUp, Reads, TakesWholeVaults
    <3>4. CASE name # "vault"
      <4>1. name \in Moved
        BY <3>1, <3>4, Passes DEF Moved
      <4>2. TakesWholeText(p, k, name)
        BY <3>1, <3>2, <3>4 DEF TakesWholeText
      <4> QED
        BY <3>2, <4>1, <4>2 DEF TakesUp, Reads
    <3> QED
      BY <3>3, <3>4
  <2> QED
    BY <1>7, <2>3, <2>4 DEF ShapeFile
<1> QED
  BY <1>2, <1>3, <1>4, <1>6, <1>7 DEF BackfillNext

\* An operation of an endpoint takes a copy of the file it changes.
LEMMA OperationTakesUp ==
    ASSUME LocalInv, NEW p \in Processes,
           \/ VaultOperation(p) \/ LocalCreateUser(p) \/ LocalUpdateUser(p)
           \/ LocalDeleteUser(p) \/ LocalLogAuditEvent(p)
    PROVE  TakesUp(p)
<1>1. CASE PurgeDeliveries(p)
  <2> DEFINE i == call[p].key
  <2>1. /\ CallSound(call[p]) /\ call[p].step = "purge" /\ disturbed' = disturbed
        /\ UNCHANGED <<vaultsFile, files, intended>>
    BY <1>1 DEF LocalInv, PurgeDeliveries, disk
  <2>2. i \in Ids /\ call[p].op = "delete_vault"
    BY <2>1, StepNames DEF CallSound, Orderly
  <2>3. CASE call' = [call EXCEPT ![p] = Idle]
    BY <2>1, <2>3, IdleTakesUp
  <2>4. CASE Rewrite(p, "delivery", i, [files["delivery"] EXCEPT ![i] = None], None)
    <3>1. PICK k : TakesText(p, k, "delivery", i, None) /\ k.op = call[p].op
      BY <2>1, <2>2, <2>4, RewriteTurns DEF Moved
    <3>2. MayTakeOut(p, "delivery") /\ DeletesKnown(p, k)
      BY <2>2, <3>1 DEF MayTakeOut, DeletesKnown
    <3> QED
      BY <2>2, <3>1, <3>2 DEF TakesUp, Reads, Moved
  <2> QED
    BY <1>1, <2>3, <2>4 DEF PurgeDeliveries
<1>2. ASSUME NEW op \in VaultEdits \cup {"delete_vault"}, NEW i \in Ids,
             NEW doc \in VaultDoc \cup {None}, Edits(p, op, i, doc)
      PROVE  TakesUp(p)
  <2>1. PICK k : TakesVaults(p, k, i, doc) /\ k.op = op
    BY <1>2, EditTurns DEF Edits
  <2>2. DeletesKnown(p, k)
    BY <1>2, <2>1 DEF DeletesKnown, Edits, EditVault, Operate
  <2> QED
    BY <2>1, <2>2 DEF TakesUp, Reads
<1>3. ASSUME NEW op, op # "delete_vault", NEW t \in {"user", "audit_log"}, NEW i \in Ids,
             NEW doc \in {written + 1, None}, PutDocument(p, op, t, i, doc),
             doc = None => op = "delete_user"
      PROVE  TakesUp(p)
  <2>1. PICK k : TakesText(p, k, t, i, doc) /\ k.op = op /\ (doc = None => MayTakeOut(p, t))
    BY <1>3, PutTurns
  <2>2. DeletesKnown(p, k)
    BY <1>3, <2>1 DEF DeletesKnown
  <2>3. written + 1 \in Nat
    BY LocalBounds DEF LocalInv, LocalTypeOK
  <2> QED
    BY <2>1, <2>2, <2>3 DEF TakesUp, Reads, Moved
<1>4. written + 1 # None
  BY LocalBounds, NoneIsNoTime DEF LocalInv, LocalTypeOK
<1>5. CASE LocalCreateUser(p)
  BY <1>3, <1>4, <1>5 DEF LocalCreateUser
<1>6. CASE LocalUpdateUser(p)
  BY <1>3, <1>4, <1>6 DEF LocalUpdateUser
<1>7. CASE LocalDeleteUser(p)
  BY <1>3, <1>7 DEF LocalDeleteUser
<1>8. CASE LocalLogAuditEvent(p)
  BY <1>3, <1>4, <1>8 DEF LocalLogAuditEvent
<1> QED
  BY <1>1, <1>2, <1>5, <1>6, <1>7, <1>8, OperationEdits

\* So does the worker.
LEMMA WorkerTakesUp ==
    ASSUME LocalInv,
           \/ ReadLocalVault \/ UpdateLocalVault
           \/ UpsertLocalDelivery \/ RecordLocalAuditEvent
    PROVE  TakesUp(Worker)
<1>w. /\ Worker \in Processes /\ CallSound(call[Worker])
      /\ written \in Nat /\ written + 1 \in Nat
  BY LocalBounds DEF Processes, LocalInv, LocalTypeOK
<1>o. OnDiskUnchanged
  BY DEF ReadLocalVault, UpsertLocalDelivery, UpdateLocalVault, RecordLocalAuditEvent
<1>1. /\ Worker \in Processes /\ CallSound(call[Worker])
      /\ UNCHANGED <<vaultsFile, files, intended>>
      /\ disturbed' = disturbed /\ written \in Nat /\ written + 1 \in Nat
  BY <1>w, <1>o DEF OnDiskUnchanged, disk, localHistory
<1>p. ASSUME NEW k, call' = [call EXCEPT ![Worker] = k], k.op = "worker", k.step = "update",
             k.text = None, k.vtext = None, call[Worker].step \notin {"truncate", "fill"}
      PROVE  TakesUp(Worker)
  <2>1. Pauses(Worker, k) /\ DeletesKnown(Worker, k)
    BY <1>1, <1>p DEF Pauses, Turns, DeletesKnown
  <2> QED
    BY <2>1 DEF TakesUp, Reads
<1>r. CASE ReadLocalVault
  <2>1. PICK i \in Ids :
          call' = [call EXCEPT ![Worker] = [Idle EXCEPT !.op = "worker", !.step = "update",
                                                        !.key = i, !.seen = Doc(i)]]
    BY <1>r DEF ReadLocalVault
  <2> DEFINE k == [Idle EXCEPT !.op = "worker", !.step = "update", !.key = i, !.seen = Doc(i)]
  <2>2. /\ Idle \in LocalCall /\ Idle.step = "none" /\ Idle.text = None /\ Idle.vtext = None
        /\ call[Worker] = Idle
    BY <1>r, IdleSound DEF Idle, ReadLocalVault
  <2>3. k.op = "worker" /\ k.step = "update" /\ k.text = None /\ k.vtext = None
    BY <2>2 DEF LocalCall
  <2>4. call' = [call EXCEPT ![Worker] = k]
    BY <2>1
  <2> HIDE DEF k
  <2> QED
    BY <1>p, <2>2, <2>3, <2>4
<1>2. CASE UpdateLocalVault
  <2> DEFINE i == call[Worker].key
  <2>1. /\ call[Worker] \in LocalCall /\ call[Worker].step = "update" /\ i \in Ids
        /\ call[Worker].op = "worker"
    BY <1>2, WorkerChoices
  <2>2. CASE call' = [call EXCEPT ![Worker] = Idle]
    BY <1>1, <2>1, <2>2, IdleTakesUp
  <2>3. CASE call' = [call EXCEPT ![Worker] = [call[Worker] EXCEPT !.seen = None]]
    <3> DEFINE k == [call[Worker] EXCEPT !.seen = None]
    <3>1. call[Worker].text = None /\ call[Worker].vtext = None
      BY <1>1, <2>1, StepNames DEF CallSound, Orderly, WritesVaults
    <3>2. k.op = "worker" /\ k.step = "update" /\ k.text = None /\ k.vtext = None
      BY <2>1, <3>1 DEF LocalCall
    <3>3. call' = [call EXCEPT ![Worker] = k]
      BY <2>3
    <3> HIDE DEF k
    <3> QED
      BY <1>p, <2>1, <3>2, <3>3
  <2>4. ASSUME NEW doc \in VaultDoc, Consistent(doc),
               call' = [call EXCEPT ![Worker] = [Idle EXCEPT !.op = "worker",
                          !.step = "truncate", !.name = "vault", !.key = i,
                          !.vtext = [vaultsFile EXCEPT !.vaults[i] = doc]]]
        PROVE  TakesUp(Worker)
    <3>x. PICK x : x = [vaultsFile EXCEPT !.vaults[i] = doc]
      OBVIOUS
    <3>k. PICK k : k = [Idle EXCEPT !.op = "worker", !.step = "truncate", !.name = "vault",
                                    !.key = i, !.vtext = x]
      OBVIOUS
    <3>1. /\ k \in LocalCall /\ CallSound(k) /\ k.op = "worker" /\ k.step = "truncate"
          /\ k.name = "vault" /\ k.key = i /\ k.vtext = x /\ k.text = None /\ k.after = "none"
      <4>1. k \in LocalCall /\ CallSound(k)
        <5>1. i \in Ids /\ doc \in VaultDoc /\ Consistent(doc)
          BY <2>1, <2>4
        <5> HIDE DEF i
        <5> QED
          BY <5>1, <3>x, <3>k, WorkerWrites, ZenonT(30)
      <4>2. Idle \in LocalCall /\ Idle.text = None /\ Idle.after = "none"
        BY IdleSound DEF Idle
      <4> QED
        BY <3>k, <4>1, <4>2 DEF LocalCall
    <3>2. call' = [call EXCEPT ![Worker] = k] /\ x = [vaultsFile EXCEPT !.vaults[i] = doc]
      BY <2>4, <3>x, <3>k
    <3>3. TakesVaults(Worker, k, i, doc) /\ DeletesKnown(Worker, k)
      BY <1>1, <2>1, <3>1, <3>2 DEF TakesVaults, Turns, DeletesKnown, Moving
    <3> QED
      BY <2>1, <3>3 DEF TakesUp, Reads
  <2> QED
    BY <1>2, <2>2, <2>3, <2>4, WorkerChoices
<1>3. ASSUME NEW t \in Moved, NEW i \in Ids, call[Worker].step \in {"mirror", "audit"},
             Rewrite(Worker, t, i, [files[t] EXCEPT ![i] = written], None)
      PROVE  TakesUp(Worker)
  <2>1. PICK k : TakesText(Worker, k, t, i, written) /\ k.op = call[Worker].op
    BY <1>1, <1>3, RewriteTurns
  <2>2. written # None /\ DeletesKnown(Worker, k)
    BY <1>1, <2>1, NoneIsNoTime DEF DeletesKnown
  <2> QED
    BY <1>1, <2>1, <2>2 DEF TakesUp, Reads
<1>4. CASE UpsertLocalDelivery
  <2>1. call[Worker].key \in Ids
    BY <1>1, <1>4 DEF CallSound, UpsertLocalDelivery
  <2> QED
    BY <1>3, <1>4, <2>1 DEF UpsertLocalDelivery, Docs, Moved
<1>5. CASE RecordLocalAuditEvent
  <2>1. call[Worker].step = "audit"
    BY <1>5 DEF RecordLocalAuditEvent
  <2>2. CASE call' = [call EXCEPT ![Worker] = Idle]
    BY <1>1, <2>1, <2>2, IdleTakesUp
  <2>3. CASE \E i \in Ids : Rewrite(Worker, "audit_log", i,
                                    [Docs("audit_log") EXCEPT ![i] = written], None)
    BY <1>3, <2>1, <2>3 DEF Docs, Moved
  <2> QED
    BY <1>5, <2>2, <2>3 DEF RecordLocalAuditEvent
<1> QED
  BY <1>2, <1>4, <1>5, <1>r

\* Every step empties a file, writes one, merges the documents to be moved, takes
\* something up, is a death, or changes nothing.
LEMMA StepKinds ==
    ASSUME LocalInv, [Next]_localVars
    PROVE  \/ \E p \in Processes : Truncate(p) \/ Fill(p) \/ MergeLegacy(p) \/ TakesUp(p)
           \/ \E P \in SUBSET Processes : Die(P)
           \/ UNCHANGED localVars
<1>1. ASSUME NEW p \in Processes, ProcessStep(p)
      PROVE  Truncate(p) \/ Fill(p) \/ MergeLegacy(p) \/ TakesUp(p)
  BY <1>1, ReadLegacyTakesUp, BackfillTakesUp, OperationTakesUp DEF ProcessStep
<1>2. Worker \in Processes /\ {Worker} \in SUBSET Processes /\ Clients \in SUBSET Processes
  BY DEF Processes
<1>3. CASE BackendDies \/ WorkerDies
  BY <1>2, <1>3 DEF BackendDies, WorkerDies
<1> QED
  BY <1>1, <1>2, <1>3, WorkerTakesUp DEF Next

-----------------------------------------------------------------------------
(* vaults.json and the copies of it.                                         *)

\* A copy q held and holds still, without the documents it has just moved, if any.
SameCopy(q) ==
    /\ HasVaults(call[q])
    /\ call'[q].vtext.vaults = call[q].vtext.vaults
    /\ Moving(call'[q]) <=> Moving(call[q])
    /\ ~Moving(call[q]) => call'[q].key = call[q].key
    /\ \A t \in Moved : \/ call'[q].vtext.legacy[t] = call[q].vtext.legacy[t]
                        \/ /\ call'[q].vtext.legacy[t] = NoDocuments
                           /\ Fill(q) /\ Moving(call[q]) /\ call[q].name = t

\* A copy just read.
FreshCopy(k) ==
    /\ ~Fills(k, "vault") /\ k.vtext.legacy = vaultsFile.legacy
    /\ Moving(k) => vaultsFile # NoVaults
    /\ CopyFits(k, vaultsFile.vaults)

\* vaults.json is left alone.
VaultsKept ==
    /\ vaultsFile' = vaultsFile /\ intended'.vaults = intended.vaults
    /\ \A q \in Processes : Fills(call'[q], "vault") <=> Fills(call[q], "vault")
    /\ \A q \in Processes : HasVaults(call'[q]) => SameCopy(q) \/ FreshCopy(call'[q])

\* A step that only changes the call of p, which did not write before.
LEMMA TurnKeepsVaults ==
    ASSUME LocalInv, NEW p \in Processes, NEW k, Turns(p, k), ~Fills(k, "vault"),
           HasVaults(k) => FreshCopy(k)
    PROVE  VaultsKept
<1>1. call'[p] = k /\ \A q \in Processes \ {p} : call'[q] = call[q]
  BY DEF Turns, LocalInv, LocalTypeOK
<1>2. \A q \in Processes \ {p} : HasVaults(call'[q]) => SameCopy(q)
  BY <1>1 DEF SameCopy
<1>3. \A q \in Processes : HasVaults(call'[q]) => SameCopy(q) \/ FreshCopy(call'[q])
  BY <1>1, <1>2
<1>4. \A q \in Processes : Fills(call'[q], "vault") <=> Fills(call[q], "vault")
  BY <1>1 DEF Turns, Fills
<1> QED
  BY <1>3, <1>4 DEF VaultsKept, Turns

\* Taking something up leaves vaults.json alone.
LEMMA TakingUpKeepsVaults ==
    ASSUME LocalInv, NEW p \in Processes, TakesUp(p)
    PROVE  VaultsKept
<1>1. PICK k : Reads(p, k)
  BY DEF TakesUp
<1>2. CASE TakesLegacy(p, k)
  <2>1. FreshCopy(k) /\ ~Fills(k, "vault")
    BY <1>2 DEF TakesLegacy, FreshCopy, Fills, CopyFits
  <2> QED
    BY <1>2, <2>1, TurnKeepsVaults DEF TakesLegacy
<1>3. CASE Pauses(p, k)
  BY <1>3, TurnKeepsVaults DEF Pauses, Fills, HasVaults
<1>4. CASE \E i \in Ids, doc \in VaultDoc \cup {None} : TakesVaults(p, k, i, doc)
  <2>1. PICK i \in Ids, doc \in VaultDoc \cup {None} : TakesVaults(p, k, i, doc)
    BY <1>4
  <2>2. vaultsFile \in VaultsText
    BY DEF LocalInv, LocalTypeOK
  <2>3. /\ k.vtext.legacy = vaultsFile.legacy
        /\ \A j \in Ids \ {i} : k.vtext.vaults[j] = vaultsFile.vaults[j]
    BY <2>1, <2>2 DEF TakesVaults, VaultsText
  <2>4. FreshCopy(k) /\ ~Fills(k, "vault")
    BY <2>1, <2>3 DEF TakesVaults, FreshCopy, Fills, CopyFits
  <2> QED
    BY <2>1, <2>4, TurnKeepsVaults DEF TakesVaults
<1>5. CASE \E t \in Moved, i \in Ids, doc \in Nat \cup {None} : TakesText(p, k, t, i, doc)
  BY <1>5, TurnKeepsVaults DEF TakesText, Fills, HasVaults
<1>6. CASE \E t \in Moved : TakesWholeText(p, k, t)
  BY <1>6, TurnKeepsVaults DEF TakesWholeText, Fills, HasVaults
<1>7. CASE TakesWholeVaults(p, k)
  <2>1. FreshCopy(k) /\ ~Fills(k, "vault")
    BY <1>7 DEF TakesWholeVaults, FreshCopy, Fills, CopyFits
  <2> QED
    BY <1>7, <2>1, TurnKeepsVaults DEF TakesWholeVaults
<1> QED
  BY <1>1, <1>2, <1>3, <1>4, <1>5, <1>6, <1>7 DEF Reads

\* So does a step that empties or writes another file, the merge, and a death that does not
\* cut a write of vaults.json off.
LEMMA OtherStepsKeepVaults ==
    ASSUME LocalInv, NEW p \in Processes,
           \/ Truncate(p) /\ call[p].name # "vault"
           \/ MergeLegacy(p)
    PROVE  VaultsKept
<1> DEFINE k == call[p]
<1>1. k \in LocalCall /\ CallSound(k)
  BY DEF LocalInv, LocalTypeOK
<1>2. \A q \in Processes \ {p} : call'[q] = call[q]
  BY DEF Truncate, MergeLegacy, Rewrite, LocalInv, LocalTypeOK
<1>3. /\ vaultsFile' = vaultsFile /\ intended' = intended
  BY DEF Truncate, MergeLegacy, OnDiskUnchanged, disk, localHistory
<1>4. /\ call'[p].vtext = k.vtext /\ call'[p].key = k.key /\ call'[p].after = k.after
      /\ call'[p].name = k.name
  <2>1. CASE Truncate(p)
    <3>1. call' = [call EXCEPT ![p] = [k EXCEPT !.step = "fill"]]
      BY <2>1 DEF Truncate
    <3> QED
      BY <1>1, <3>1 DEF LocalInv, LocalTypeOK, LocalCall
  <2>2. CASE MergeLegacy(p)
    <3> DEFINE x == Merged(files[k.name], k.vtext.legacy[k.name])
    <3>1. Rewrite(p, k.name, k.key, x, k.vtext)
      BY <2>2 DEF MergeLegacy
    <3> HIDE DEF x
    <3>2. call'[p] = [k EXCEPT !.step = "truncate", !.name = k.name, !.key = k.key,
                               !.text = x, !.vtext = k.vtext]
      BY <3>1 DEF Rewrite, LocalInv, LocalTypeOK
    <3> QED
      BY <1>1, <3>2 DEF LocalCall
  <2> QED
    BY <2>1, <2>2
<1>5. k.name # "vault"
  BY <1>1 DEF MergeLegacy, CallSound, Moved
<1>6. \A q \in Processes : HasVaults(call'[q]) => SameCopy(q)
  BY <1>2, <1>4 DEF HasVaults, SameCopy, Moving
<1>7. \A q \in Processes : Fills(call'[q], "vault") <=> Fills(call[q], "vault")
  BY <1>2, <1>4, <1>5 DEF Fills
<1> QED
  BY <1>3, <1>6, <1>7 DEF VaultsKept

LEMMA TableFillKeepsVaults ==
    ASSUME LocalInv, NEW p \in Processes, Fill(p), call[p].name # "vault"
    PROVE  VaultsKept
<1> DEFINE k == call[p]
<1>1. k \in LocalCall /\ CallSound(k) /\ k.step = "fill"
  BY DEF LocalInv, LocalTypeOK, Fill
<1>2. call'[p] = Resumed(k) /\ \A q \in Processes \ {p} : call'[q] = call[q]
  BY DEF Fill, LocalInv, LocalTypeOK
<1>3. vaultsFile' = vaultsFile
  BY DEF Fill
<1>4. intended'.vaults = intended.vaults
  <2>1. intended \in [vaults : [Ids -> VaultDoc \cup {None}], docs : [Moved -> Documents]]
    BY DEF LocalInv, LocalTypeOK
  <2>2. CASE ~ChangesOne(k)
    BY <2>2 DEF Fill
  <2>3. CASE ChangesOne(k)
    <3>1. intended' = [intended EXCEPT !.docs[k.name][k.key] = k.text[k.key]]
      BY <2>3 DEF Fill
    <3> QED
      BY <2>1, <3>1
  <2> QED
    BY <2>2, <2>3
<1>5. \A q \in Processes : Fills(call'[q], "vault") <=> Fills(call[q], "vault")
  BY <1>1, <1>2, ResumedFacts, ZenonT(30) DEF Fills
<1>6. HasVaults(call'[p]) => SameCopy(p)
  <2>1. CASE Moving(k)
    <3>1. /\ Moving(Resumed(k))
          /\ Resumed(k).vtext = [k.vtext EXCEPT !.legacy = [@ EXCEPT ![k.name] = NoDocuments]]
      BY <1>1, <2>1, ResumedFacts
    <3>2. HasVaults(k) /\ k.vtext \in VaultsText /\ k.name \in Moved
      BY <1>1, <2>1, HeldTexts DEF WritesVaults, CallSound, WritesTable
    <3>3. /\ Resumed(k).vtext.vaults = k.vtext.vaults
          /\ Resumed(k).vtext.legacy = [k.vtext.legacy EXCEPT ![k.name] = NoDocuments]
      BY <3>1, <3>2 DEF VaultsText
    <3>4. \A t \in Moved : Resumed(k).vtext.legacy[t] =
                              IF t = k.name THEN NoDocuments ELSE k.vtext.legacy[t]
      BY <3>2, <3>3 DEF VaultsText
    <3> QED
      BY <1>2, <2>1, <3>1, <3>2, <3>3, <3>4 DEF SameCopy
  <2>2. CASE ~Moving(k)
    <3>1. Resumed(k).vtext = None
      BY <1>1, <2>2, ResumedFacts
    <3> QED
      BY <1>2, <3>1 DEF HasVaults
  <2> QED
    BY <2>1, <2>2
<1>7. \A q \in Processes : HasVaults(call'[q]) => SameCopy(q)
  BY <1>2, <1>6 DEF SameCopy
<1> QED
  BY <1>3, <1>4, <1>5, <1>7 DEF VaultsKept

LEMMA DeathKeepsVaults ==
    ASSUME LocalInv, NEW P \in SUBSET Processes, Die(P), "vault" \notin disturbed'
    PROVE  VaultsKept
<1>1. \A q \in Processes : call'[q] = IF q \in P THEN Idle ELSE call[q]
  BY DEF Die
<1>2. \A q \in P : ~Fills(call[q], "vault")
  BY DEF Die, Fills
<1>3. Idle.vtext = None /\ Idle.step = "none"
  BY DEF Idle
<1>4. \A q \in Processes : HasVaults(call'[q]) => SameCopy(q)
  BY <1>1, <1>3 DEF HasVaults, SameCopy
<1>5. \A q \in Processes : Fills(call'[q], "vault") <=> Fills(call[q], "vault")
  BY <1>1, <1>2, <1>3 DEF Fills
<1> QED
  BY <1>4, <1>5 DEF VaultsKept, Die, disk

\* All steps but two.
LEMMA KeepingVaults ==
    ASSUME LocalInv, [Next]_localVars, "vault" \notin disturbed'
    PROVE  \/ VaultsKept
           \/ \E p \in Processes : call[p].name = "vault" /\ (Truncate(p) \/ Fill(p))
<1>1. CASE UNCHANGED localVars
  BY <1>1 DEF localVars, disk, localHistory, VaultsKept, SameCopy
<1> QED
  BY <1>1, StepKinds, TakingUpKeepsVaults, OtherStepsKeepVaults, TableFillKeepsVaults,
     DeathKeepsVaults

\* The history only grows.
LEMMA DisturbedGrows ==
    ASSUME LocalInv, [Next]_localVars
    PROVE  disturbed \subseteq disturbed'
<1>1. ASSUME NEW p \in Processes, TakesUp(p)
      PROVE  disturbed \subseteq disturbed'
  BY <1>1 DEF TakesUp, Reads, TakesLegacy, Pauses, TakesVaults, TakesText, TakesWholeText,
              TakesWholeVaults, Turns
<1> QED
  BY <1>1, StepKinds DEF Truncate, Fill, MergeLegacy, Die, localVars, OnDiskUnchanged,
                         localHistory

-----------------------------------------------------------------------------
(* vaults.json is as the completed operations made it.                       *)

\* A copy of vaults.json that is to be relied on was, or is of the file as it is.
LEMMA ProperCopies ==
    ASSUME LocalInv, VaultsGood, VaultsKept, NEW q \in Processes, Proper(q)'
    PROVE  \/ SameCopy(q) /\ Proper(q)
           \/ FreshCopy(call'[q]) /\ ~BeingWritten("vault")
<1>1. HasVaults(call'[q]) /\ (Moving(call'[q]) \/ ~OtherFills(q, "vault")')
  BY DEF Proper
<1>2. OtherFills(q, "vault")' <=> OtherFills(q, "vault")
  BY DEF VaultsKept, OtherFills
<1>3. CASE SameCopy(q)
  BY <1>1, <1>2, <1>3 DEF Proper, SameCopy
<1>4. CASE FreshCopy(call'[q])
  <2>1. CASE Moving(call'[q])
    BY <1>4, <2>1 DEF FreshCopy, VaultsGood
  <2>2. CASE ~Moving(call'[q])
    BY <1>1, <1>2, <1>4, <2>2 DEF FreshCopy, BeingWritten, OtherFills, Fills, VaultsKept
  <2> QED
    BY <1>4, <2>1, <2>2
<1> QED
  BY <1>1, <1>3, <1>4 DEF VaultsKept

LEMMA KeptVaultsGood ==
    ASSUME LocalInv, VaultsGood, VaultsKept
    PROVE  VaultsGood'
<1>1. BeingWritten("vault")' <=> BeingWritten("vault")
  BY DEF VaultsKept, BeingWritten, Fills
<1>2. ASSUME NEW q \in Processes, Proper(q)'
      PROVE  CopyFits(call'[q], intended'.vaults)
  <2>1. CASE SameCopy(q) /\ Proper(q)
    <3>1. CopyFits(call[q], intended.vaults)
      BY <2>1 DEF VaultsGood
    <3> QED
      BY <2>1, <3>1 DEF SameCopy, CopyFits, VaultsKept
  <2>2. CASE FreshCopy(call'[q]) /\ ~BeingWritten("vault")
    BY <2>2 DEF FreshCopy, VaultsGood, VaultsKept
  <2> QED
    BY <1>2, <2>1, <2>2, ProperCopies
<1>3. ASSUME ~BeingWritten("vault"), NEW q \in Processes, NEW t \in Moved, HasVaults(call'[q])
      PROVE  call'[q].vtext.legacy[t] \in {vaultsFile'.legacy[t], NoDocuments}
  <2>1. CASE SameCopy(q)
    BY <1>3, <2>1 DEF SameCopy, VaultsGood, VaultsKept
  <2>2. CASE FreshCopy(call'[q])
    BY <2>2 DEF FreshCopy, VaultsKept
  <2> QED
    BY <1>3, <2>1, <2>2 DEF VaultsKept
<1>4. ~BeingWritten("vault")' => vaultsFile'.vaults = intended'.vaults
  BY <1>1 DEF VaultsGood, VaultsKept
<1>5. BeingWritten("vault")' => vaultsFile' = NoVaults
  BY <1>1 DEF VaultsGood, VaultsKept
<1> QED
  BY <1>1, <1>2, <1>3, <1>4, <1>5 DEF VaultsGood

\* open("vaults.json", "w")
LEMMA VaultsTruncated ==
    ASSUME LocalInv, NEW p \in Processes, Truncate(p), call[p].name = "vault"
    PROVE  /\ BeingWritten("vault")' /\ vaultsFile' = NoVaults /\ intended' = intended
           /\ \A q \in Processes : HasVaults(call'[q]) <=> HasVaults(call[q])
           /\ \A q \in Processes : HasVaults(call'[q]) => SameCopy(q)
           /\ \A q \in Processes : call'[q].vtext = call[q].vtext
           /\ \A q \in Processes : Proper(q)' => Proper(q)
<1> DEFINE k == [call[p] EXCEPT !.step = "fill"]
<1>1. call[p] \in LocalCall
  BY DEF LocalInv, LocalTypeOK
<1>2. call'[p] = k /\ \A q \in Processes \ {p} : call'[q] = call[q]
  BY DEF Truncate, LocalInv, LocalTypeOK
<1>3. /\ k.step = "fill" /\ k.name = "vault" /\ k.vtext = call[p].vtext
      /\ k.after = call[p].after /\ k.key = call[p].key
  BY <1>1 DEF LocalCall
<1> HIDE DEF k
<1>4. BeingWritten("vault")' /\ vaultsFile' = NoVaults /\ intended' = intended
  BY <1>2, <1>3 DEF BeingWritten, Truncate, localHistory
<1>5. \A q \in Processes : /\ HasVaults(call'[q]) <=> HasVaults(call[q])
                           /\ HasVaults(call'[q]) => SameCopy(q)
                           /\ call'[q].vtext = call[q].vtext
                           /\ Moving(call'[q]) <=> Moving(call[q])
  BY <1>2, <1>3 DEF HasVaults, SameCopy, Moving
<1>6. \A q \in Processes : Fills(call[q], "vault") => Fills(call'[q], "vault")
  BY <1>2, <1>3 DEF Fills
<1>7. \A q \in Processes : Proper(q)' => Proper(q)
  BY <1>5, <1>6 DEF Proper, OtherFills
<1> QED
  BY <1>4, <1>5, <1>7

LEMMA TruncatedVaultsGood ==
    ASSUME LocalInv, VaultsGood, NEW p \in Processes, Truncate(p), call[p].name = "vault"
    PROVE  VaultsGood'
<1>1. ASSUME NEW q \in Processes, Proper(q)'
      PROVE  CopyFits(call'[q], intended'.vaults)
  <2>1. SameCopy(q) /\ Proper(q) /\ intended' = intended
    BY <1>1, VaultsTruncated DEF Proper
  <2>2. CopyFits(call[q], intended.vaults)
    BY <2>1 DEF VaultsGood
  <2> QED
    BY <2>1, <2>2 DEF SameCopy, CopyFits
<1> QED
  BY <1>1, VaultsTruncated DEF VaultsGood

\* write(text) by the only process that holds a copy.
LEMMA VaultsFilled ==
    ASSUME LocalInv, VaultsGood, NEW p \in Processes, Fill(p), call[p].name = "vault",
           "vault" \notin disturbed'
    PROVE  /\ ~BeingWritten("vault")' /\ \A q \in Processes : ~HasVaults(call'[q])
           /\ Proper(p) /\ vaultsFile' = call[p].vtext
           /\ vaultsFile'.vaults = intended'.vaults
<1> DEFINE k == call[p]
<1>1. k \in LocalCall /\ CallSound(k) /\ k.step = "fill"
  BY DEF LocalInv, LocalTypeOK, Fill
<1>2. ~OtherFills(p, "vault") /\ \A q \in Processes \ {p} : ~HasVaults(call[q])
  BY UndisturbedFill
<1>3. HasVaults(k) /\ k.vtext \in VaultsText
  BY <1>1, HeldTexts DEF WritesVaults
<1>4. call'[p] = Resumed(k) /\ \A q \in Processes \ {p} : call'[q] = call[q]
  BY DEF Fill, LocalInv, LocalTypeOK
<1>5. Resumed(k).step # "fill" /\ Resumed(k).vtext = None
  BY <1>1, ResumedFacts
<1>6. ~BeingWritten("vault")' /\ \A q \in Processes : ~HasVaults(call'[q])
  BY <1>2, <1>4, <1>5 DEF BeingWritten, OtherFills, Fills, HasVaults
<1>7. Proper(p)
  BY <1>2, <1>3 DEF Proper
<1>8. CopyFits(k, intended.vaults)
  BY <1>7 DEF VaultsGood
<1>9. vaultsFile' = k.vtext
  BY DEF Fill
<1>10. k.vtext.vaults = intended'.vaults
  <2>t. /\ k.vtext.vaults \in [Ids -> VaultDoc \cup {None}]
        /\ intended.vaults \in [Ids -> VaultDoc \cup {None}]
    BY <1>3 DEF VaultsText, LocalInv, LocalTypeOK
  <2>1. CASE Moving(k)
    BY <1>8, <2>1 DEF CopyFits, Fill, ChangesOne
  <2>3. CASE ~Moving(k) /\ k.key = None
    <3>1. \A i \in Ids : k.vtext.vaults[i] = intended.vaults[i]
      BY <1>8, <2>3, LocalBounds DEF CopyFits
    <3>2. intended' = intended
      BY <2>3 DEF Fill, ChangesOne
    <3> QED
      BY <2>t, <3>1, <3>2
  <2>2. CASE ChangesOne(k)
    <3>1. intended' = [intended EXCEPT !.vaults[k.key] = k.vtext.vaults[k.key]]
      BY <2>2 DEF Fill
    <3>2. intended'.vaults = [intended.vaults EXCEPT ![k.key] = k.vtext.vaults[k.key]]
      BY <3>1 DEF LocalInv, LocalTypeOK
    <3>3. \A i \in Ids \ {k.key} : k.vtext.vaults[i] = intended.vaults[i]
      BY <1>8, <2>2 DEF CopyFits, ChangesOne
    <3> QED
      BY <2>t, <3>2, <3>3
  <2> QED
    BY <2>1, <2>2, <2>3 DEF ChangesOne
<1> QED
  BY <1>6, <1>7, <1>9, <1>10

\* The vaults stay as they should be with every step that does not disturb vaults.json.
LEMMA VaultsStep ==
    ASSUME LocalInv, VaultsInv, [Next]_localVars
    PROVE  VaultsInv'
<1> SUFFICES ASSUME "vault" \notin disturbed'
             PROVE  VaultsGood'
  BY DEF VaultsInv
<1>1. VaultsGood
  BY DisturbedGrows DEF VaultsInv
<1>2. ASSUME NEW p \in Processes, Fill(p), call[p].name = "vault"
      PROVE  VaultsGood'
  <2>1. /\ ~BeingWritten("vault")' /\ \A q \in Processes : ~HasVaults(call'[q])
        /\ vaultsFile'.vaults = intended'.vaults
    BY <1>1, <1>2, VaultsFilled
  <2> QED
    BY <2>1 DEF VaultsGood, Proper
<1> QED
  BY <1>1, <1>2, KeepingVaults, KeptVaultsGood, TruncatedVaultsGood

\* A view of the documents in vaults.json is not new, but that of a process that has just
\* moved them to their file.
LEMMA ViewStep ==
    ASSUME LocalInv, VaultsInv, [Next]_localVars, "vault" \notin disturbed', NEW t \in Moved,
           NEW l, IsView(t, l)'
    PROVE  \/ IsView(t, l)
           \/ /\ l = NoDocuments
              /\ \E p \in Processes : Fill(p) /\ Moving(call[p]) /\ call[p].name = t
<1>1. VaultsGood
  BY DisturbedGrows DEF VaultsInv
<1>2. CASE VaultsKept
  <2>1. CASE ~BeingWritten("vault")' /\ l = vaultsFile'.legacy[t]
    BY <1>2, <2>1 DEF VaultsKept, IsView, BeingWritten, Fills
  <2>2. ASSUME NEW q \in Processes, Proper(q)', l = call'[q].vtext.legacy[t]
        PROVE  \/ IsView(t, l)
               \/ l = NoDocuments /\ Fill(q) /\ Moving(call[q]) /\ call[q].name = t
    <3>1. CASE SameCopy(q) /\ Proper(q)
      BY <2>2, <3>1 DEF SameCopy, IsView
    <3>2. CASE FreshCopy(call'[q]) /\ ~BeingWritten("vault")
      BY <2>2, <3>2 DEF FreshCopy, IsView
    <3> QED
      BY <1>1, <1>2, <2>2, <3>1, <3>2, ProperCopies
  <2> QED
    BY <2>1, <2>2 DEF IsView
<1>3. ASSUME NEW p \in Processes, Truncate(p), call[p].name = "vault"
      PROVE  IsView(t, l)
  BY <1>3, VaultsTruncated DEF IsView
<1>4. ASSUME NEW p \in Processes, Fill(p), call[p].name = "vault"
      PROVE  IsView(t, l)
  <2>1. /\ \A q \in Processes : ~HasVaults(call'[q])
        /\ Proper(p) /\ vaultsFile' = call[p].vtext
    BY <1>1, <1>4, VaultsFilled
  <2> QED
    BY <2>1 DEF IsView, Proper
<1> QED
  BY <1>2, <1>3, <1>4, KeepingVaults

-----------------------------------------------------------------------------
(* The tables are as the completed operations made them.                     *)

\* No document of type t is left in vaults.json, or in a copy of it.
Migrated(t) ==
    /\ vaultsFile.legacy[t] = NoDocuments
    /\ \A p \in Processes : HasVaults(call[p]) => call[p].vtext.legacy[t] = NoDocuments

DeletesVault == \E p \in Processes : call[p].op = "delete_vault"

\* A deletion of a vault has found no deliveries in vaults.json, and none come back: when
\* it goes on to deliveries.json it deals with all there are.
DeleteReady == /\ Migrated("delivery")
               /\ "delivery" \notin disturbed => Good("delivery", NoDocuments)

DeleteInv == "vault" \notin disturbed /\ DeletesVault => DeleteReady

\* Whatever the step takes out of table t is not in the view l of vaults.json.
SafeToTakeOut(t, l) ==
    \A p \in Processes, i \in Ids : \A k :
        TakesText(p, k, t, i, None) /\ MayTakeOut(p, t) => l[i] = None

\* A step that takes something up.
LEMMA GoodTakingUp ==
    ASSUME LocalInv, NEW t \in Moved, NEW l \in Documents, Good(t, l),
           NEW p \in Processes, NEW k, Reads(p, k),
           SafeToTakeOut(t, l)
    PROVE  Good(t, l)'
<1>1. call'[p] = k /\ (\A q \in Processes \ {p} : call'[q] = call[q]) /\ ~Fills(call[p], t)
      /\ files' = files /\ intended' = intended /\ call' = [call EXCEPT ![p] = k]
  BY DEF Reads, TakesLegacy, Pauses, TakesVaults, TakesText, TakesWholeText, TakesWholeVaults,
         Turns, LocalInv, LocalTypeOK, Fills
<1>2. CASE ~HasText(k, t)
  BY <1>1, <1>2, GoodSame
<1>4. CASE TakesWholeText(p, k, t)
  <2>1. k.text = files[t] /\ k.key = None /\ ~Moving(k) /\ k.step = "truncate"
    BY <1>4 DEF TakesWholeText
  <2>2. files[t] \in Documents /\ ~Fills(k, t)
    BY <2>1 DEF LocalInv, LocalTypeOK, Fills
  <2>3. ASSUME ~BeingWritten(t) PROVE TextFits(k, intended.docs[t], l)
    <3>1. Merged(files[t], l) = intended.docs[t]
      BY <2>3 DEF Good
    <3> QED
      BY <2>1, <2>2, <3>1, WholeTextFits
  <2> QED
    BY <1>1, <2>2, <2>3, GoodNewText
<1>3. CASE HasText(k, t) /\ ~TakesWholeText(p, k, t)
  <2>1. PICK i \in Ids, doc \in Nat \cup {None} :
          TakesText(p, k, t, i, doc) /\ (doc = None => MayTakeOut(p, t))
    BY <1>3 DEF Reads, TakesLegacy, Pauses, TakesVaults, TakesText, TakesWholeText,
                TakesWholeVaults, HasText
  <2>2. /\ k.text = [files[t] EXCEPT ![i] = doc] /\ k.key = i /\ ~Moving(k)
        /\ k.step = "truncate" /\ (doc = None => l[i] = None)
    BY <2>1 DEF TakesText, SafeToTakeOut
  <2>3. files[t] \in Documents /\ ~Fills(k, t)
    BY <2>2 DEF LocalInv, LocalTypeOK, Fills
  <2>4. ASSUME ~BeingWritten(t) PROVE TextFits(k, intended.docs[t], l)
    <3>1. Merged(files[t], l) = intended.docs[t]
      BY <2>4 DEF Good
    <3> QED
      BY <2>2, <2>3, <3>1, TakenTextFits
  <2> QED
    BY <1>1, <2>3, <2>4, GoodNewText
<1> QED
  BY <1>2, <1>3, <1>4

\* The file is emptied; or the step is about another one.
LEMMA GoodTruncate ==
    ASSUME LocalInv, NEW t \in Moved, NEW l, Good(t, l), NEW p \in Processes, Truncate(p)
    PROVE  Good(t, l)'
<1> DEFINE k == [call[p] EXCEPT !.step = "fill"]
<1>1. call[p] \in LocalCall
  BY DEF LocalInv, LocalTypeOK
<1>2. call'[p] = k /\ \A q \in Processes \ {p} : call'[q] = call[q]
  BY DEF Truncate, LocalInv, LocalTypeOK
<1>3. /\ k.step = "fill" /\ k.name = call[p].name /\ k.text = call[p].text
      /\ k.after = call[p].after /\ k.key = call[p].key
  BY <1>1 DEF LocalCall
<1> HIDE DEF k
<1>4. ~BeingWritten(t)' => files'[t] = files[t]
  <2>1. CASE call[p].name = t
    BY <1>2, <1>3, <2>1 DEF BeingWritten
  <2>2. CASE call[p].name # t
    BY <2>2 DEF Truncate, LocalInv, LocalTypeOK
  <2> QED
    BY <2>1, <2>2
<1>5. intended' = intended
  BY DEF Truncate, localHistory
<1>6. \A q \in Processes : Fills(call[q], t) => Fills(call'[q], t)
  BY <1>2, <1>3 DEF Fills
<1>7. \A q \in Processes : HasText(call'[q], t) =>
          /\ HasText(call[q], t) /\ call'[q].text = call[q].text
          /\ call'[q].key = call[q].key /\ (Moving(call'[q]) <=> Moving(call[q]))
  BY <1>2, <1>3 DEF HasText, Moving
<1> QED
  BY <1>4, <1>5, <1>6, <1>7, GoodSame

\* initialize makes the text that adds the documents it has read in vaults.json, and they
\* are a view of the table.
LEMMA GoodMerge ==
    ASSUME LocalInv, NEW t \in Moved, NEW l, Good(t, l), NEW p \in Processes,
           MergeLegacy(p), TablesInv, {"vault", t} \cap disturbed = {}
    PROVE  Good(t, l)'
<1> DEFINE x == Merged(files[call[p].name], call[p].vtext.legacy[call[p].name])
           k == [call[p] EXCEPT !.step = "truncate", !.name = call[p].name,
                                !.key = call[p].key, !.text = x, !.vtext = call[p].vtext]
<1>1. /\ call[p] \in LocalCall /\ CallSound(call[p]) /\ call[p].step = "merge"
      /\ call' = [call EXCEPT ![p] = k] /\ files' = files /\ intended' = intended
  BY DEF LocalInv, LocalTypeOK, MergeLegacy, Rewrite, OnDiskUnchanged, disk, localHistory
<1>x. x = Merged(files[call[p].name], call[p].vtext.legacy[call[p].name])
  OBVIOUS
<1> HIDE DEF x
<1>2. /\ k.step = "truncate" /\ k.name = call[p].name /\ k.text = x
      /\ k.after = call[p].after
  BY <1>1 DEF LocalCall
<1> HIDE DEF k
<1>3. call'[p] = k /\ \A q \in Processes \ {p} : call'[q] = call[q]
  BY <1>1 DEF LocalInv, LocalTypeOK
<1>4. ~Fills(call[p], t) /\ ~Fills(k, t) /\ Moving(k)
  BY <1>1, <1>2 DEF Fills, CallSound, Moving
<1>5. CASE call[p].name = t
  <2>1. HasVaults(call[p]) /\ call[p].vtext \in VaultsText /\ Moving(call[p])
    BY <1>1, HeldTexts DEF CallSound, WritesVaults
  <2>2. Proper(p) /\ call[p].vtext.legacy[t] \in Documents
    BY <2>1 DEF Proper, VaultsText
  <2>3. Good(t, call[p].vtext.legacy[t])
    BY <2>2 DEF TablesInv, IsView
  <2>4. ~BeingWritten(t) => TextFits(k, intended.docs[t], l)
    BY <1>2, <1>4, <1>5, <1>x, <2>3 DEF Good, TextFits
  <2> QED
    BY <1>1, <1>4, <2>4, GoodNewText
<1>6. CASE call[p].name # t
  <2>1. \A q \in Processes : Fills(call[q], t) => Fills(call'[q], t)
    BY <1>3, <1>4
  <2>2. \A q \in Processes : HasText(call'[q], t) => call'[q] = call[q]
    BY <1>2, <1>3, <1>6 DEF HasText
  <2> QED
    BY <1>1, <2>1, <2>2, GoodSame
<1> QED
  BY <1>5, <1>6

\* A death, other than in the middle of a write of the table.
LEMMA GoodDeath ==
    ASSUME LocalInv, NEW t \in Moved, NEW l, Good(t, l), NEW P \in SUBSET Processes, Die(P),
           t \notin disturbed'
    PROVE  Good(t, l)'
<1>1. \A q \in Processes : call'[q] = IF q \in P THEN Idle ELSE call[q]
  BY DEF Die
<1>2. \A q \in P : ~Fills(call[q], t)
  BY DEF Die, Fills
<1>3. files' = files /\ intended' = intended
  BY DEF Die, disk
<1>4. \A q \in Processes : Fills(call[q], t) => Fills(call'[q], t)
  BY <1>1, <1>2
<1>5. \A q \in Processes : HasText(call'[q], t) => call'[q] = call[q]
  BY <1>1 DEF HasText, Idle
<1> QED
  BY <1>3, <1>4, <1>5, GoodSame

\* Under a view of vaults.json, or with nothing left in it, the table stays as intended.
LEMMA GoodStep ==
    ASSUME LocalInv, TablesInv, [Next]_localVars, NEW t \in Moved, NEW l \in Documents,
           Good(t, l), {"vault", t} \cap disturbed' = {}, SafeToTakeOut(t, l)
    PROVE  Good(t, l)'
<1>1. {"vault", t} \cap disturbed = {}
  BY DisturbedGrows
<1>2. ASSUME NEW p \in Processes, TakesUp(p)
      PROVE  Good(t, l)'
  BY <1>2, GoodTakingUp DEF TakesUp
<1>3. ASSUME NEW p \in Processes, Fill(p)
      PROVE  Good(t, l)'
  BY <1>3, GoodFill, GoodOtherFill
<1>4. CASE UNCHANGED localVars
  BY <1>4 DEF localVars, disk, localHistory, Good, BeingWritten, HasText, OtherFills, Fills
<1> QED
  BY <1>1, <1>2, <1>3, <1>4, StepKinds, GoodTruncate, GoodMerge, GoodDeath

\* What an operation takes out of a table is not in any view of vaults.json.
LEMMA ViewsAreSafe ==
    ASSUME LocalInv, VaultsInv, DeleteInv, "vault" \notin disturbed, NEW t \in Moved,
           t \notin disturbed', NEW l, IsView(t, l)
    PROVE  SafeToTakeOut(t, l)
<1> SUFFICES ASSUME NEW p \in Processes, NEW i \in Ids, MayTakeOut(p, t)
             PROVE  l[i] = None
  BY DEF SafeToTakeOut
<1>1. VaultsGood
  BY DEF VaultsInv
<1>2. CASE Legacy = {} /\ ~BeingWritten("vault")
  <2>1. vaultsFile.legacy[t] = NoDocuments
    BY <1>2 DEF Legacy
  <2>2. \A q \in Processes : HasVaults(call[q]) => call[q].vtext.legacy[t] = NoDocuments
    BY <1>1, <1>2, <2>1 DEF VaultsGood
  <2> QED
    BY <2>1, <2>2 DEF IsView, Proper, NoDocuments
<1>3. CASE t = "delivery" /\ call[p].op = "delete_vault"
  <2>1. Migrated(t)
    BY <1>3 DEF DeleteInv, DeletesVault, DeleteReady
  <2> QED
    BY <2>1 DEF Migrated, IsView, Proper, NoDocuments
<1> QED
  BY <1>2, <1>3 DEF MayTakeOut

\* A process has just moved the documents of the table: nothing is left to be added to it.
LEMMA MovedTable ==
    ASSUME LocalInv, VaultsInv, TablesInv, NEW t \in Moved, {"vault", t} \cap disturbed = {},
           NEW p \in Processes, Fill(p), Moving(call[p]), call[p].name = t, t \notin disturbed'
    PROVE  Good(t, NoDocuments)'
<1> DEFINE k == call[p]
           own == k.vtext.legacy[t]
<1>1. k \in LocalCall /\ CallSound(k) /\ k.step = "fill" /\ t # "vault"
  BY DEF LocalInv, LocalTypeOK, Fill, Moved
<1>2. HasVaults(k) /\ k.vtext \in VaultsText
  BY <1>1, HeldTexts DEF WritesVaults
<1>3. Proper(p) /\ own \in Documents
  BY <1>2 DEF Proper, VaultsText
<1>4. Good(t, own)
  BY <1>3 DEF TablesInv, IsView
<1>5. files'[t] = intended'.docs[t]
  BY <1>3, <1>4, GoodFill
<1>6. files'[t] \in Documents
  BY FillSound DEF LocalInv, LocalTypeOK
<1>7. \A q \in Processes : ~HasText(call'[q], t)
  <2>1. call'[p] = Resumed(k) /\ \A q \in Processes \ {p} : call'[q] = call[q]
    BY DEF Fill, LocalInv, LocalTypeOK
  <2>2. Resumed(k).text = None
    BY <1>1, ResumedFacts
  <2>3. \A q \in Processes \ {p} : ~HasText(call[q], t)
    BY <1>1, UndisturbedFill
  <2> QED
    BY <2>1, <2>2, <2>3 DEF HasText
<1>8. Merged(files'[t], NoDocuments) = files'[t]
  BY <1>6 DEF Merged, NoDocuments, Documents
<1> QED
  BY <1>5, <1>7, <1>8 DEF Good, NoDocuments

\* The tables stay as they should be with every step that does not disturb them.
LEMMA TablesStep ==
    ASSUME LocalInv, VaultsInv, TablesInv, DeleteInv, [Next]_localVars
    PROVE  TablesInv'
<1> SUFFICES ASSUME NEW t \in Moved, {"vault", t} \cap disturbed' = {},
                    NEW l \in Documents, IsView(t, l)'
             PROVE  Good(t, l)'
  BY DEF TablesInv
<1>1. {"vault", t} \cap disturbed = {}
  BY DisturbedGrows
<1>2. CASE IsView(t, l)
  <2>1. Good(t, l)
    BY <1>1, <1>2 DEF TablesInv
  <2>2. SafeToTakeOut(t, l)
    BY <1>1, <1>2, ViewsAreSafe
  <2> QED
    BY <2>1, <2>2, GoodStep
<1>3. CASE l = NoDocuments /\ \E p \in Processes : Fill(p) /\ Moving(call[p]) /\ call[p].name = t
  BY <1>1, <1>3, MovedTable
<1> QED
  BY <1>2, <1>3, ViewStep

\* A table that has been moved stays so.
LEMMA MigratedStep ==
    ASSUME LocalInv, VaultsInv, [Next]_localVars, "vault" \notin disturbed', NEW t \in Moved,
           Migrated(t)
    PROVE  Migrated(t)'
<1>1. VaultsGood
  BY DisturbedGrows DEF VaultsInv
<1>2. CASE VaultsKept
  BY <1>2 DEF VaultsKept, SameCopy, FreshCopy, Migrated
<1>3. ASSUME NEW p \in Processes, Truncate(p), call[p].name = "vault"
      PROVE  Migrated(t)'
  BY <1>3, VaultsTruncated DEF Migrated, NoVaults
<1>4. ASSUME NEW p \in Processes, Fill(p), call[p].name = "vault"
      PROVE  Migrated(t)'
  <2>1. /\ \A q \in Processes : ~HasVaults(call'[q])
        /\ Proper(p) /\ vaultsFile' = call[p].vtext
    BY <1>1, <1>4, VaultsFilled
  <2> QED
    BY <2>1 DEF Migrated, Proper
<1> QED
  BY <1>2, <1>3, <1>4, KeepingVaults

\* A deletion begins only where the deliveries have been moved.
LEMMA DeleteBegins ==
    ASSUME LocalInv, VaultsInv, TablesInv, DeleteInv, [Next]_localVars,
           "vault" \notin disturbed', DeletesVault'
    PROVE  DeleteReady
<1>1. VaultsGood /\ "vault" \notin disturbed
  BY DisturbedGrows DEF VaultsInv
<1>2. ASSUME Legacy = {}, NEW i \in Ids, Known(i)
      PROVE  DeleteReady
  <2>1. vaultsFile # NoVaults
    BY <1>2 DEF Known, NoVaults
  <2>2. ~BeingWritten("vault") /\ vaultsFile.legacy["delivery"] = NoDocuments
    BY <1>1, <1>2, <2>1 DEF VaultsGood, Legacy, Moved
  <2>3. Migrated("delivery")
    BY <1>1, <2>2 DEF VaultsGood, Migrated, Moved
  <2>4. NoDocuments \in Documents /\ IsView("delivery", NoDocuments)
    BY <2>2 DEF IsView, NoDocuments, Documents
  <2>5. "delivery" \notin disturbed => Good("delivery", NoDocuments)
    BY <1>1, <2>4 DEF TablesInv, Moved
  <2> QED
    BY <2>3, <2>5 DEF DeleteReady
<1>3. CASE DeletesVault
  BY <1>1, <1>3 DEF DeleteInv
<1>4. CASE ~DeletesVault
  <2>1. ASSUME NEW p \in Processes, TakesUp(p)
        PROVE  Legacy = {} /\ \E i \in Ids : Known(i)
    <3>1. PICK k : Reads(p, k) /\ DeletesKnown(p, k)
      BY <2>1 DEF TakesUp
    <3>2. call'[p] = k /\ \A q \in Processes \ {p} : call'[q] = call[q]
      BY <3>1 DEF Reads, TakesLegacy, Pauses, TakesVaults, TakesText, TakesWholeText,
                  TakesWholeVaults, Turns, LocalInv, LocalTypeOK
    <3> QED
      BY <1>4, <3>1, <3>2 DEF DeletesVault, DeletesKnown
  <2>2. ASSUME NEW p \in Processes, Truncate(p) \/ MergeLegacy(p) \/ Fill(p)
        PROVE  FALSE
    <3>1. /\ call[p] \in LocalCall /\ CallSound(call[p])
          /\ \A q \in Processes \ {p} : call'[q] = call[q]
      BY <2>2 DEF Truncate, MergeLegacy, Fill, Rewrite, LocalInv, LocalTypeOK
    <3>2. call'[p].op \in {call[p].op, "idle"}
      <4>1. CASE Truncate(p)
        BY <3>1, <4>1 DEF Truncate, LocalInv, LocalTypeOK, LocalCall
      <4>2. CASE Fill(p)
        <5>1. call'[p] = Resumed(call[p])
          BY <4>2 DEF Fill, LocalInv, LocalTypeOK
        <5> QED
          BY <3>1, <4>2, <5>1, ResumedFacts DEF Fill
      <4>3. CASE MergeLegacy(p)
        <5> DEFINE x == Merged(files[call[p].name], call[p].vtext.legacy[call[p].name])
        <5>1. Rewrite(p, call[p].name, call[p].key, x, call[p].vtext)
          BY <4>3 DEF MergeLegacy
        <5> HIDE DEF x
        <5> QED
          BY <3>1, <5>1 DEF Rewrite, LocalInv, LocalTypeOK, LocalCall
      <4> QED
        BY <2>2, <4>1, <4>2, <4>3
    <3> QED
      BY <1>4, <3>1, <3>2 DEF DeletesVault
  <2>3. ASSUME NEW P \in SUBSET Processes, Die(P)
        PROVE  FALSE
    BY <1>4, <2>3 DEF Die, DeletesVault, Idle
  <2>4. ~UNCHANGED localVars
    BY <1>4 DEF localVars, DeletesVault
  <2> QED
    BY <1>2, <2>1, <2>2, <2>3, <2>4, StepKinds
<1> QED
  BY <1>3, <1>4

LEMMA DeleteStep ==
    ASSUME LocalInv, VaultsInv, TablesInv, DeleteInv, [Next]_localVars
    PROVE  DeleteInv'
<1> SUFFICES ASSUME "vault" \notin disturbed', DeletesVault'
             PROVE  DeleteReady'
  BY DEF DeleteInv
<1>1. DeleteReady /\ disturbed \subseteq disturbed'
  BY DeleteBegins, DisturbedGrows
<1>2. Migrated("delivery")'
  BY <1>1, MigratedStep DEF DeleteReady, Moved
<1>3. ASSUME "delivery" \notin disturbed'
      PROVE  Good("delivery", NoDocuments)'
  <2>1. Good("delivery", NoDocuments) /\ NoDocuments \in Documents
    BY <1>1, <1>3 DEF DeleteReady, NoDocuments, Documents
  <2>2. SafeToTakeOut("delivery", NoDocuments)
    BY DEF SafeToTakeOut, NoDocuments
  <2> QED
    BY <1>3, <2>1, <2>2, GoodStep DEF Moved
<1> QED
  BY <1>2, <1>3 DEF DeleteReady

\* What the files hold, all told.
StoreInv == VaultsInv /\ TablesInv /\ DeleteInv

LEMMA StoreInit == Init => StoreInv
<1> SUFFICES ASSUME Init PROVE StoreInv
  OBVIOUS
<1>1. LocalInv
  BY LocalInit
<1>2. \A p \in Processes : /\ call[p].step # "fill" /\ ~HasVaults(call[p])
                           /\ call[p].text = None /\ call[p].op = "idle"
  BY DEF Init, Idle, HasVaults
<1>3. /\ vaultsFile.vaults = intended.vaults /\ vaultsFile.legacy = intended.docs
      /\ files = [t \in Moved |-> NoDocuments]
  BY DEF Init
<1>4. VaultsInv
  BY <1>2, <1>3 DEF VaultsInv, VaultsGood, Proper, BeingWritten
<1>5. ASSUME NEW t \in Moved, NEW l \in Documents, IsView(t, l)
      PROVE  Good(t, l)
  <2>1. l = intended.docs[t]
    BY <1>2, <1>3, <1>5 DEF IsView, Proper
  <2>2. Merged(files[t], l) = l
    BY <1>3 DEF Merged, NoDocuments, Documents
  <2> QED
    BY <1>2, <2>1, <2>2 DEF Good, HasText
<1>6. DeleteInv
  BY <1>2 DEF DeleteInv, DeletesVault
<1> QED
  BY <1>4, <1>5, <1>6 DEF StoreInv, TablesInv

LEMMA StoreInvariance == LocalSpec => []StoreInv
<1>1. LocalInv /\ StoreInv /\ [Next]_localVars => StoreInv'
  BY VaultsStep, TablesStep, DeleteStep DEF StoreInv
<1> QED
  BY <1>1, StoreInit, LocalInvariance, PTL DEF LocalSpec

\* The tables are what the completed operations made them: initialize, run by any number
\* of threads at any time and cut off anywhere, loses no document of an older version,
\* keeps none twice and brings none back, and no write loses another, except in a file
\* that was written from a stale copy, cut off in a write, or deleted from while vaults.json
\* was emptied by a writer.
THEOREM LocalWritesAreKept == LocalSpec => []CompletedWritesAreOnDisk
<1>1. ASSUME LocalInv, StoreInv, Sound("vault")
      PROVE  vaultsFile.vaults = intended.vaults
  BY <1>1 DEF StoreInv, VaultsInv, VaultsGood, Sound
<1>2. ASSUME LocalInv, StoreInv, NEW t \in Moved, Sound("vault"), Sound(t)
      PROVE  Logical(t) = intended.docs[t]
  <2>1. vaultsFile.legacy[t] \in Documents /\ IsView(t, vaultsFile.legacy[t])
    BY <1>2 DEF Sound, IsView, LocalInv, LocalTypeOK, VaultsText
  <2>2. Good(t, vaultsFile.legacy[t])
    BY <1>2, <2>1 DEF StoreInv, TablesInv, Sound
  <2> QED
    BY <1>2, <2>2 DEF Good, Sound, Logical
<1>3. LocalInv /\ StoreInv => CompletedWritesAreOnDisk
  BY <1>1, <1>2 DEF CompletedWritesAreOnDisk
<1> QED
  BY <1>3, LocalInvariance, StoreInvariance, PTL

-----------------------------------------------------------------------------
(* Who does what, and which vaults it is about.                              *)

\* The worker archives, the threads of the backend do the rest.
ByProcess ==
    \A p \in Processes : /\ call[p].op = "worker" <=> p = Worker /\ call[p] # Idle
                         /\ call[p].op = "idle" <=> call[p] = Idle
                         /\ call[p].step = "mirror" => call[p].name = "none"

\* The start-up is one thread's and comes before the requests.
StartUpInv ==
    IF serving THEN \A p \in Clients : call[p].op # "backfill"
    ELSE /\ \A p \in Clients : call[p].op \in {"idle", "initialize", "backfill"}
         /\ \A p, q \in Clients : call[p] # Idle /\ call[q] # Idle => p = q

\* The vault i exists, unless vaults.json was written from a stale copy.
Kept(i) == "vault" \in disturbed \/ intended.vaults[i] # None

\* The worker's vault has not been deleted, or its deletion met the worker.
WorkerInv == \A i \in Ids : WorkerIsOn(i) => Kept(i) \/ i \in stranded

\* None of the vaults the start-up gives a delivery is deleted meanwhile.
BackfillInv ==
    \A p \in Clients : call[p].op = "backfill" =>
        \A i \in Ids : i \in call[p].todo \/ i = call[p].key => Kept(i)

\* What a call is about after a write.
LEMMA ResumedCall ==
    ASSUME NEW k \in LocalCall, CallSound(k), k.step = "fill", k.op # "idle"
    PROVE  \/ /\ Resumed(k) = Idle
              /\ k.op = "delete_vault" => ~Moving(k) /\ k.name # "vault"
           \/ /\ Resumed(k) # Idle /\ Resumed(k).op = k.op
              /\ Resumed(k).key \in {k.key, None}
              /\ IF k.op = "backfill" THEN Resumed(k).todo = k.todo
                 ELSE Resumed(k).key = k.key
              /\ Resumed(k).step = "mirror" => Resumed(k).name = "none"
              /\ k.op = "worker" => k.name # "audit_log"
<1>1. /\ Idle \in LocalCall /\ Idle.op = "idle" /\ Idle.key = None /\ Idle.name = "none"
  BY IdleSound DEF Idle
<1>2. /\ k.key \in Ids \cup {None} /\ k.todo \in SUBSET Ids
      /\ k.op \in LocalOperations \cup {"idle", "initialize", "backfill"}
  BY DEF LocalCall
<1>3. CASE Moving(k) /\ k.name # "vault"
  <2> DEFINE x == [k.vtext EXCEPT !.legacy[k.name] = NoDocuments]
             r == [k EXCEPT !.step = "truncate", !.name = "vault", !.text = None, !.vtext = x]
  <2>1. Resumed(k) = r
    BY <1>3 DEF Resumed, LocalCall
  <2> HIDE DEF x
  <2>2. r.step = "truncate" /\ r.op = k.op /\ r.key = k.key /\ r.todo = k.todo
    BY DEF LocalCall
  <2>3. k.op # "worker"
    BY <1>3, StepNames DEF CallSound, Orderly, LocalCall, InitializeComesFrom, Moving
  <2> HIDE DEF r
  <2> QED
    BY <1>1, <2>1, <2>2, <2>3
<1>4. ASSUME NEW step \in BetweenSteps, NEW key \in {k.key, None},
             NEW todo \in SUBSET Ids,
             IF k.op = "backfill" THEN todo = k.todo ELSE key = k.key,
             k.op = "worker" => k.name # "audit_log",
             Resumed(k) = [Idle EXCEPT !.op = k.op, !.step = step, !.key = key, !.todo = todo]
      PROVE  /\ Resumed(k) # Idle /\ Resumed(k).op = k.op
             /\ Resumed(k).key \in {k.key, None}
             /\ IF k.op = "backfill" THEN Resumed(k).todo = k.todo
                ELSE Resumed(k).key = k.key
             /\ Resumed(k).step = "mirror" => Resumed(k).name = "none"
             /\ k.op = "worker" => k.name # "audit_log"
  <2>1. /\ Resumed(k).op = k.op /\ Resumed(k).key = key /\ Resumed(k).todo = todo
        /\ Resumed(k).name = "none"
    BY <1>1, <1>2, <1>4 DEF LocalCall
  <2> QED
    BY <1>1, <1>4, <2>1
<1>5. CASE Moving(k) /\ k.name = "vault" /\ k.after # "idle"
  <2>1. Resumed(k) = [Idle EXCEPT !.op = k.op, !.step = k.after, !.key = k.key,
                                  !.todo = k.todo]
    BY <1>5 DEF Resumed
  <2>2. k.after \in BetweenSteps
    BY <1>5 DEF LocalCall, InitializeComesFrom, Moving, BetweenSteps
  <2> QED
    BY <1>2, <1>4, <1>5, <2>1, <2>2, ZenonT(30)
<1>6. CASE /\ ~Moving(k)
           /\ \/ k.op = "delete_vault" /\ k.name = "vault"
              \/ k.op = "worker" /\ k.name \in {"vault", "delivery"}
  <2> DEFINE step == IF k.op = "delete_vault" THEN "purge"
                     ELSE IF k.name = "vault" THEN "mirror" ELSE "audit"
  <2>1. Resumed(k) = [Idle EXCEPT !.op = k.op, !.step = step, !.key = k.key]
    BY <1>6 DEF Resumed
  <2>2. Resumed(k) = [Idle EXCEPT !.op = k.op, !.step = step, !.key = k.key,
                                  !.todo = Idle.todo]
    BY <1>1, <2>1 DEF LocalCall
  <2>3. step \in BetweenSteps /\ Idle.todo \in SUBSET Ids
    BY <1>1, StepNames DEF LocalCall
  <2> HIDE DEF step
  <2> QED
    BY <1>2, <1>4, <1>6, <2>2, <2>3, ZenonT(30)
<1>7. CASE ~Moving(k) /\ k.op = "backfill"
  <2> DEFINE step == IF k.key = None THEN NextPass[k.name] ELSE "backfill"
  <2>1. Resumed(k) = [Idle EXCEPT !.op = k.op, !.todo = k.todo, !.step = step]
    BY <1>7 DEF Resumed
  <2>2. Resumed(k) = [Idle EXCEPT !.op = k.op, !.step = step, !.key = Idle.key,
                                  !.todo = k.todo]
    BY <1>1, <2>1 DEF LocalCall
  <2>3. step \in StartUpSteps
    BY <1>7, StartUpPass
  <2> HIDE DEF step
  <2>4. step \in BetweenSteps
    BY <2>3, StepNames
  <2> QED
    BY <1>1, <1>2, <1>4, <1>7, <2>2, <2>4
<1>8. CASE /\ ~(Moving(k) /\ k.name # "vault")
           /\ ~(Moving(k) /\ k.name = "vault" /\ k.after # "idle")
           /\ ~(~Moving(k) /\ k.op = "delete_vault" /\ k.name = "vault")
           /\ ~(~Moving(k) /\ k.op = "backfill")
           /\ ~(~Moving(k) /\ k.op = "worker" /\ k.name \in {"vault", "delivery"})
  <2>1. Resumed(k) = Idle
    BY <1>8 DEF Resumed
  <2>2. k.op = "delete_vault" => k.after # "idle"
    BY DEF CallSound, Orderly
  <2> QED
    BY <1>8, <2>1, <2>2
<1> QED
  BY <1>3, <1>5, <1>6, <1>7, <1>8

\* The call goes on, about the same vault.
GoesOn(p) ==
    /\ call[p] # Idle /\ call'[p] # Idle /\ call'[p].step # "mirror"
    /\ call'[p].op = call[p].op /\ call'[p].key = call[p].key /\ call'[p].todo = call[p].todo
    /\ p = Worker => /\ call[p].step \notin {"update", "audit"}
                     /\ call[p].name = "audit_log" => call'[p].name = "audit_log"
    /\ serving' = serving

\* A call begins: a request of a running backend, a step of the start-up, the worker's.
Begins(p) ==
    /\ call[p] = Idle /\ call'[p].step \notin {"none", "mirror"} /\ serving' = serving
    /\ \/ p \in Clients /\ serving /\ call'[p].op \notin {"idle", "worker", "backfill"}
       \/ p \in Clients /\ (serving \/ StartingAlone) /\ call'[p].op = "initialize"
       \/ /\ p \in Clients /\ ~serving /\ StartingAlone /\ call'[p].op = "backfill"
          /\ call'[p].key = None /\ call'[p].todo = {}
       \/ p = Worker /\ call'[p].op = "worker" /\ call'[p].step = "update"

\* The start-up turns to another file or vault, or has read which vaults it is to turn to.
BackfillsNext(p) ==
    /\ call[p].op = "backfill" /\ call'[p].op = "backfill"
    /\ call'[p].step \notin {"none", "mirror"} /\ serving' = serving
    /\ call'[p].key \in call[p].todo \cup {call[p].key, None}
    /\ call'[p].todo \subseteq call[p].todo \cup {i \in Ids : Known(i)}

\* The worker has found its vault in vaults.json again, and will write it, or has not.
Archives(p) ==
    /\ p = Worker /\ call[p].op = "worker" /\ call'[p].op = "worker"
    /\ call'[p].key = call[p].key /\ call'[p].step \notin {"none", "mirror"}
    /\ call'[p].step = "update" \/ Known(call'[p].key)
    /\ serving' = serving

\* The worker turns to its audit entry.
Audits(p) ==
    /\ p = Worker /\ call[p].op = "worker" /\ call'[p].op = "worker"
    /\ call'[p].name = "audit_log" /\ call'[p].step \notin {"none", "mirror"}
    /\ serving' = serving

\* A call ends without a write: the start-up with its last vault, a deletion without a
\* delivery to take out, the worker without an entry.
Ends(p) ==
    /\ call[p] # Idle /\ call'[p] = Idle
    /\ call[p].op = "delete_vault" =>
          /\ files["delivery"][call[p].key] = None
          /\ BeingWritten("delivery") => call[p].key \in stranded'
    /\ serving' = serving \/ (serving' /\ call[p].op = "backfill")

\* A step of one call, other than a write.
CallMoves(p) ==
    /\ \A q \in Processes \ {p} : call'[q] = call[q]
    /\ intended' = intended /\ disturbed \subseteq disturbed' /\ stranded \subseteq stranded'
    /\ GoesOn(p) \/ Begins(p) \/ BackfillsNext(p) \/ Archives(p) \/ Audits(p) \/ Ends(p)

\* The steps of a call with a file, and of initialize.
LEMMA FileCalls ==
    ASSUME LocalInv, ByProcess, NEW p \in Processes,
           Truncate(p) \/ MergeLegacy(p) \/ ReadLegacy(p)
    PROVE  CallMoves(p)
<1>1. call[p] \in LocalCall /\ CallSound(call[p]) /\ Idle.step = "none" /\ Idle.op = "idle"
  BY DEF LocalInv, LocalTypeOK, Idle
<1>2. /\ \A q \in Processes \ {p} : call'[q] = call[q]
      /\ intended' = intended /\ disturbed' = disturbed /\ stranded' = stranded
      /\ serving' = serving
  BY DEF Truncate, MergeLegacy, ReadLegacy, Rewrite, OnDiskUnchanged, disk, localHistory,
         LocalInv, LocalTypeOK
<1>3. CASE Truncate(p)
  <2>1. call'[p] = [call[p] EXCEPT !.step = "fill"] /\ call[p].step = "truncate"
    BY <1>3 DEF Truncate, LocalInv, LocalTypeOK
  <2>2. /\ call'[p].step = "fill" /\ call'[p].op = call[p].op /\ call'[p].key = call[p].key
        /\ call'[p].todo = call[p].todo /\ call'[p].name = call[p].name
    BY <1>1, <2>1 DEF LocalCall
  <2> QED
    BY <1>1, <1>2, <2>1, <2>2 DEF CallMoves, GoesOn
<1>4. CASE MergeLegacy(p)
  <2> DEFINE x == Merged(files[call[p].name], call[p].vtext.legacy[call[p].name])
  <2>1. /\ call'[p] = [call[p] EXCEPT !.step = "truncate", !.name = call[p].name,
                                      !.key = call[p].key, !.text = x, !.vtext = call[p].vtext]
        /\ call[p].step = "merge"
    BY <1>4 DEF MergeLegacy, Rewrite, LocalInv, LocalTypeOK
  <2> HIDE DEF x
  <2>2. /\ call'[p].step = "truncate" /\ call'[p].op = call[p].op /\ call'[p].key = call[p].key
        /\ call'[p].todo = call[p].todo /\ call'[p].name = call[p].name
    BY <1>1, <2>1 DEF LocalCall
  <2> QED
    BY <1>1, <1>2, <2>1, <2>2 DEF CallMoves, GoesOn
<1>5. CASE ReadLegacy(p)
  <2> DEFINE o == IF call[p] = Idle THEN "initialize" ELSE call[p].op
             a == IF call[p] = Idle THEN "idle" ELSE call[p].step
  <2>1. /\ call'[p] = [call[p] EXCEPT !.op = o, !.step = "merge", !.name = FirstLegacy,
                                      !.vtext = vaultsFile, !.after = a]
        /\ p \in Clients /\ (call[p] = Idle => serving \/ StartingAlone)
    BY <1>1, <1>5, StepNames DEF ReadLegacy, LocalInv, LocalTypeOK
  <2> HIDE DEF a
  <2>2. /\ call'[p].step = "merge" /\ call'[p].op = o /\ call'[p].key = call[p].key
        /\ call'[p].todo = call[p].todo
    BY <1>1, <2>1 DEF LocalCall
  <2>3. p # Worker
    BY <2>1, LocalBounds
  <2>4. CASE call[p] = Idle
    BY <1>2, <2>1, <2>2, <2>4 DEF CallMoves, Begins
  <2>5. CASE call[p] # Idle
    BY <1>1, <1>2, <2>2, <2>3, <2>5 DEF CallMoves, GoesOn
  <2> QED
    BY <2>4, <2>5
<1> QED
  BY <1>3, <1>4, <1>5

\* The start-up.
LEMMA BackfillCalls ==
    ASSUME LocalInv, ByProcess, NEW p \in Processes,
           StartBackfill(p) \/ ShapeFile(p) \/ ListVaults(p) \/ BackfillNext(p)
    PROVE  CallMoves(p)
<1>1. /\ call[p] \in LocalCall /\ CallSound(call[p]) /\ Idle \in LocalCall
      /\ Idle.step = "none" /\ Idle.op = "idle" /\ Idle.key = None /\ Idle.todo = {}
  BY IdleSound DEF LocalInv, LocalTypeOK, Idle
<1>2. /\ \A q \in Processes \ {p} : call'[q] = call[q]
      /\ intended' = intended /\ disturbed' = disturbed /\ stranded' = stranded
  BY DEF StartBackfill, ShapeFile, Rewrite, ListVaults, BackfillNext, OnDiskUnchanged,
         localHistory, LocalInv, LocalTypeOK
<1>3. CASE StartBackfill(p)
  <2>1. /\ call'[p] = [Idle EXCEPT !.op = "backfill", !.step = "shape_vault"]
        /\ call[p] = Idle /\ p \in Clients /\ StartingAlone /\ ~serving /\ serving' = serving
    BY <1>3 DEF StartBackfill, StartingAlone, OnDiskUnchanged, LocalInv, LocalTypeOK
  <2>3. /\ call'[p].op = "backfill" /\ call'[p].step = "shape_vault" /\ call'[p].todo = {}
        /\ call'[p].key = None
    BY <1>1, <2>1 DEF LocalCall
  <2> QED
    BY <1>2, <2>1, <2>3 DEF CallMoves, Begins
<1>4. CASE BackfillNext(p) /\ call[p].todo = {}
  <2>1. /\ call'[p] = Idle /\ serving' = TRUE /\ call[p].step = "backfill"
        /\ call[p].op = "backfill"
    BY <1>4, StartUpHolds, StepNames DEF BackfillNext, LocalInv, LocalTypeOK
  <2> QED
    BY <1>1, <1>2, <2>1 DEF CallMoves, Ends
<1>5. CASE BackfillNext(p) /\ call[p].todo # {}
  <2>1. PICK i \in call[p].todo :
          call' = [call EXCEPT ![p] = [call[p] EXCEPT
                         !.step = "truncate", !.name = "delivery",
                         !.key = i, !.todo = call[p].todo \ {i},
                         !.text = [files["delivery"] EXCEPT ![i] = written + 1]]]
    BY <1>5 DEF BackfillNext
  <2> DEFINE x == [files["delivery"] EXCEPT ![i] = written + 1]
             d == call[p].todo \ {i}
  <2>2. call'[p] = [call[p] EXCEPT !.step = "truncate", !.name = "delivery", !.key = i,
                                   !.todo = d, !.text = x]
    BY <2>1 DEF LocalInv, LocalTypeOK
  <2>3. d \subseteq call[p].todo
    OBVIOUS
  <2> HIDE DEF x, d
  <2>4. /\ call'[p].step = "truncate" /\ call'[p].key = i /\ call'[p].todo = d
        /\ call'[p].op = call[p].op
    BY <1>1, <2>2 DEF LocalCall
  <2>5. call[p].op = "backfill" /\ serving' = serving
    BY <1>5, StartUpHolds, StepNames DEF BackfillNext
  <2> QED
    BY <1>2, <2>3, <2>4, <2>5 DEF CallMoves, BackfillsNext
<1>6. ASSUME call[p].step \in StartUpSteps, OnDiskUnchanged, NEW step \in StartUpSteps,
             NEW T \in SUBSET Ids, NEW k, k = [call[p] EXCEPT !.step = step, !.todo = T],
             call' = [call EXCEPT ![p] = k],
             T \subseteq call[p].todo \cup {i \in Ids : Known(i)}
      PROVE  CallMoves(p)
  <2>1. /\ k \in LocalCall /\ CallSound(k) /\ k.step = step /\ k.todo = T
        /\ k.op = "backfill" /\ k.key = call[p].key /\ k.text = None /\ k.vtext = None
    <3>1. k \in LocalCall /\ CallSound(k)
      BY <1>6, StartUpGoesOn, ZenonT(30)
    <3>2. call[p].op = "backfill" /\ call[p].text = None /\ call[p].vtext = None
      BY <1>6, StartUpHolds
    <3> QED
      BY <1>1, <1>6, <3>1, <3>2 DEF LocalCall
  <2>2. call'[p] = k /\ serving' = serving /\ call[p].op = "backfill"
    BY <1>6, StartUpHolds DEF LocalInv, LocalTypeOK, OnDiskUnchanged
  <2>3. step \notin {"none", "mirror"}
    BY StepNames
  <2> QED
    BY <1>2, <1>6, <2>1, <2>2, <2>3 DEF CallMoves, BackfillsNext
<1>7. CASE ListVaults(p)
  <2>1. PICK T \in SUBSET {i \in Ids : Known(i)} :
          call' = [call EXCEPT ![p].step = "backfill", ![p].todo = T]
    BY <1>7 DEF ListVaults
  <2>2. PICK k : k = [call[p] EXCEPT !.step = "backfill", !.todo = T]
    OBVIOUS
  <2>3. call' = [call EXCEPT ![p] = k] /\ T \in SUBSET Ids
    BY <2>1, <2>2 DEF LocalInv, LocalTypeOK
  <2>4. call[p].step \in StartUpSteps /\ "backfill" \in StartUpSteps /\ OnDiskUnchanged
    BY <1>7, StepNames DEF ListVaults
  <2> QED
    BY <1>6, <2>2, <2>3, <2>4
<1>8. CASE ShapeFile(p)
  <2> DEFINE name == PassOver[call[p].step]
  <2>1. call[p].step \in DOMAIN PassOver /\ OnDiskUnchanged
    BY <1>8 DEF ShapeFile
  <2>2. call[p].step \in StartUpSteps /\ call[p].todo \in SUBSET Ids
    BY <1>1, <2>1, StepNames DEF LocalCall
  <2>3. CASE call' = [call EXCEPT ![p].step = NextPass[name]]
    <3>1. PICK step \in StartUpSteps :
            \E k : /\ k = [call[p] EXCEPT !.step = step, !.todo = call[p].todo]
                   /\ call' = [call EXCEPT ![p] = k]
      BY <2>1, <2>3, PassesBy
    <3> QED
      BY <1>6, <2>1, <2>2, <3>1
  <2>4. CASE Rewrite(p, name, None, IF name = "vault" THEN None ELSE files[name],
                                    IF name = "vault" THEN vaultsFile ELSE None)
    <3>1. PICK k \in LocalCall :
            /\ call' = [call EXCEPT ![p] = k]
            /\ k.step = "truncate" /\ k.op = "backfill" /\ k.key = None /\ k.todo = call[p].todo
      BY <2>1, <2>4, PassWrites
    <3>2. call'[p] = k /\ serving' = serving /\ call[p].op = "backfill"
      BY <2>1, <2>2, <3>1, StartUpHolds DEF LocalInv, LocalTypeOK, OnDiskUnchanged
    <3> QED
      BY <1>2, <3>1, <3>2 DEF CallMoves, BackfillsNext
  <2> QED
    BY <1>8, <2>3, <2>4 DEF ShapeFile
<1> QED
  BY <1>3, <1>4, <1>5, <1>7, <1>8

\* The endpoints.
LEMMA OperationCalls ==
    ASSUME LocalInv, ByProcess, NEW p \in Processes,
           \/ VaultOperation(p) \/ LocalCreateUser(p) \/ LocalUpdateUser(p)
           \/ LocalDeleteUser(p) \/ LocalLogAuditEvent(p)
    PROVE  CallMoves(p)
<1>1. call[p] \in LocalCall /\ CallSound(call[p]) /\ Idle.step = "none"
  BY DEF LocalInv, LocalTypeOK, Idle
<1>2. ASSUME NEW op \in LocalOperations \ {"worker"}, NEW name \in Moved \cup {"vault"},
             NEW i \in Ids, NEW text \in Documents \cup {None},
             NEW vtext \in VaultsText \cup {None}, Operate(p, op, name, i, text, vtext)
      PROVE  CallMoves(p)
  <2>1. PICK k : Turns(p, k) /\ k.op = op /\ k.step = "truncate"
    BY <1>2, OperateTurns
  <2>2. call'[p] = k /\ \A q \in Processes \ {p} : call'[q] = call[q]
    BY <2>1 DEF Turns, LocalInv, LocalTypeOK
  <2>3. /\ p \in Clients /\ serving /\ call[p] = Idle /\ serving' = serving
        /\ stranded' = stranded
    BY <1>2 DEF Operate
  <2>4. op \notin {"idle", "worker", "backfill"}
    BY <1>2 DEF LocalOperations, VaultEdits
  <2> QED
    BY <2>1, <2>2, <2>3, <2>4 DEF CallMoves, Begins, Turns
<1>3. ASSUME NEW op \in VaultEdits \cup {"delete_vault"}, NEW i \in Ids,
             NEW doc \in VaultDoc \cup {None}, Edits(p, op, i, doc)
      PROVE  CallMoves(p)
  <2> DEFINE x == [vaultsFile EXCEPT !.vaults[i] = doc]
  <2>1. x \in VaultsText
    BY <1>3, EditedText DEF Edits, SoundText
  <2>2. Operate(p, op, "vault", i, None, x)
    BY <1>3 DEF Edits, EditVault
  <2> HIDE DEF x
  <2>3. op \in LocalOperations \ {"worker"}
    BY DEF VaultEdits, LocalOperations
  <2> QED
    BY <1>2, <2>1, <2>2, <2>3
<1>4. ASSUME NEW op \in LocalOperations \ {"worker"}, NEW t \in {"user", "audit_log"},
             NEW i \in Ids, NEW doc \in {written + 1, None}, PutDocument(p, op, t, i, doc)
      PROVE  CallMoves(p)
  <2> DEFINE x == [files[t] EXCEPT ![i] = doc]
  <2>1. Operate(p, op, t, i, x, None)
    BY <1>4 DEF PutDocument, Docs
  <2>2. written + 1 \in Nat
    BY LocalBounds DEF LocalInv, LocalTypeOK
  <2>3. x \in Documents
    BY <2>2, EditedTable DEF Moved
  <2> HIDE DEF x
  <2> QED
    BY <1>2, <2>1, <2>3 DEF Moved
<1>5. CASE PurgeDeliveries(p)
  <2> DEFINE i == call[p].key
             x == [files["delivery"] EXCEPT ![i] = None]
  <2>1. /\ call[p].step = "purge" /\ intended' = intended /\ disturbed' = disturbed
        /\ stranded \subseteq stranded' /\ serving' = serving
        /\ BeingWritten("delivery") => i \in stranded'
    BY <1>5 DEF PurgeDeliveries
  <2>2. call[p].op = "delete_vault" /\ p # Worker
    BY <1>1, <2>1, StepNames DEF CallSound, Orderly, ByProcess
  <2>3. CASE files["delivery"][i] # None
    <3>1. /\ call'[p] = [call[p] EXCEPT !.step = "truncate", !.name = "delivery", !.key = i,
                                        !.text = x, !.vtext = None]
          /\ \A q \in Processes \ {p} : call'[q] = call[q]
      BY <1>5, <2>3 DEF PurgeDeliveries, Rewrite, LocalInv, LocalTypeOK
    <3> HIDE DEF x
    <3>2. /\ call'[p].step = "truncate" /\ call'[p].op = call[p].op /\ call'[p].key = i
          /\ call'[p].todo = call[p].todo
      BY <1>1, <3>1 DEF LocalCall
    <3> QED
      BY <1>1, <2>1, <2>2, <3>1, <3>2 DEF CallMoves, GoesOn
  <2>4. CASE files["delivery"][i] = None
    <3>1. call'[p] = Idle /\ \A q \in Processes \ {p} : call'[q] = call[q]
      BY <1>5, <2>4 DEF PurgeDeliveries, LocalInv, LocalTypeOK
    <3> QED
      BY <1>1, <2>1, <2>4, <3>1 DEF CallMoves, Ends
  <2> QED
    BY <2>3, <2>4
<1>6. \A op \in {"create_user", "update_user", "delete_user", "log_audit_event"} :
          op \in LocalOperations \ {"worker"}
  BY DEF LocalOperations
<1>7. CASE LocalCreateUser(p)
  BY <1>4, <1>6, <1>7 DEF LocalCreateUser
<1>8. CASE LocalUpdateUser(p)
  BY <1>4, <1>6, <1>8 DEF LocalUpdateUser
<1>9. CASE LocalDeleteUser(p)
  BY <1>4, <1>6, <1>9 DEF LocalDeleteUser
<1>10. CASE LocalLogAuditEvent(p)
  BY <1>4, <1>6, <1>10 DEF LocalLogAuditEvent
<1> QED
  BY <1>3, <1>5, <1>7, <1>8, <1>9, <1>10, OperationEdits

\* The worker.
LEMMA WorkerCalls ==
    ASSUME LocalInv, ByProcess,
           \/ ReadLocalVault \/ UpdateLocalVault
           \/ UpsertLocalDelivery \/ RecordLocalAuditEvent
    PROVE  CallMoves(Worker)
<1>1. /\ Worker \in Processes /\ call[Worker] \in LocalCall /\ CallSound(call[Worker])
      /\ Idle \in LocalCall /\ Idle.step = "none"
  BY IdleSound DEF Processes, LocalInv, LocalTypeOK, Idle
<1>2. /\ \A q \in Processes \ {Worker} : call'[q] = call[q]
      /\ intended' = intended /\ disturbed' = disturbed /\ stranded' = stranded
      /\ serving' = serving
  BY DEF ReadLocalVault, UpdateLocalVault, UpsertLocalDelivery, RecordLocalAuditEvent, Rewrite,
         OnDiskUnchanged, localHistory, LocalInv, LocalTypeOK
<1>r. CASE ReadLocalVault
  <2>1. PICK i \in Ids :
          call' = [call EXCEPT ![Worker] = [Idle EXCEPT !.op = "worker", !.step = "update",
                                                        !.key = i, !.seen = Doc(i)]]
    BY <1>r DEF ReadLocalVault
  <2> DEFINE d == Doc(i)
  <2>2. /\ call'[Worker] = [Idle EXCEPT !.op = "worker", !.step = "update", !.key = i,
                                        !.seen = d]
        /\ call[Worker] = Idle
    BY <1>r, <1>1, <2>1 DEF ReadLocalVault, LocalInv, LocalTypeOK
  <2> HIDE DEF d
  <2>3. call'[Worker].op = "worker" /\ call'[Worker].step = "update"
    BY <1>1, <2>2 DEF LocalCall
  <2> QED
    BY <1>2, <2>2, <2>3 DEF CallMoves, Begins
<1>3. CASE UpdateLocalVault
  <2> DEFINE i == call[Worker].key
  <2>1. /\ call[Worker].step = "update" /\ i \in Ids /\ call[Worker].op = "worker"
    BY <1>3, WorkerChoices
  <2>2. CASE call' = [call EXCEPT ![Worker] = Idle]
    <3>1. call'[Worker] = Idle /\ call[Worker] # Idle
      BY <1>1, <2>1, <2>2 DEF LocalInv, LocalTypeOK
    <3> QED
      BY <1>2, <2>1, <3>1 DEF CallMoves, Ends
  <2>3. CASE call' = [call EXCEPT ![Worker] = [call[Worker] EXCEPT !.seen = None]]
    <3>1. call'[Worker] = [call[Worker] EXCEPT !.seen = None]
      BY <1>1, <2>3 DEF LocalInv, LocalTypeOK
    <3>2. call'[Worker].op = "worker" /\ call'[Worker].step = "update" /\ call'[Worker].key = i
      BY <1>1, <2>1, <3>1 DEF LocalCall
    <3> QED
      BY <1>2, <2>1, <3>2 DEF CallMoves, Archives
  <2>4. ASSUME Known(i), NEW doc \in VaultDoc, Consistent(doc),
               call' = [call EXCEPT ![Worker] = [Idle EXCEPT !.op = "worker",
                          !.step = "truncate", !.name = "vault", !.key = i,
                          !.vtext = [vaultsFile EXCEPT !.vaults[i] = doc]]]
        PROVE  CallMoves(Worker)
    <3> DEFINE x == [vaultsFile EXCEPT !.vaults[i] = doc]
    <3>1. call'[Worker] = [Idle EXCEPT !.op = "worker", !.step = "truncate", !.name = "vault",
                                       !.key = i, !.vtext = x]
      BY <1>1, <2>4 DEF LocalInv, LocalTypeOK
    <3> HIDE DEF x
    <3>2. call'[Worker].op = "worker" /\ call'[Worker].step = "truncate" /\ call'[Worker].key = i
      BY <1>1, <3>1 DEF LocalCall
    <3> QED
      BY <1>2, <2>1, <2>4, <3>2 DEF CallMoves, Archives
  <2> QED
    BY <1>3, <2>2, <2>3, <2>4, WorkerChoices
<1>4. ASSUME NEW t \in Moved, NEW key \in Ids, NEW text,
             Rewrite(Worker, t, key, text, None)
      PROVE  /\ call'[Worker].op = call[Worker].op /\ call'[Worker].step = "truncate"
             /\ call'[Worker].name = t /\ call'[Worker].key = key
             /\ call'[Worker].todo = call[Worker].todo
  BY <1>1, <1>4 DEF Rewrite, LocalInv, LocalTypeOK, LocalCall
<1>5. CASE UpsertLocalDelivery
  <2> DEFINE x == [Docs("delivery") EXCEPT ![call[Worker].key] = written]
  <2>1. /\ call[Worker].step = "mirror" /\ Rewrite(Worker, "delivery", call[Worker].key, x, None)
    BY <1>5 DEF UpsertLocalDelivery
  <2> HIDE DEF x
  <2>2. call[Worker].key \in Ids /\ call[Worker].name = "none" /\ "delivery" \in Moved
    BY <1>1, <2>1 DEF CallSound, ByProcess, Moved
  <2>3. /\ call'[Worker].op = call[Worker].op /\ call'[Worker].step = "truncate"
        /\ call'[Worker].key = call[Worker].key /\ call'[Worker].todo = call[Worker].todo
    BY <1>4, <2>1, <2>2
  <2> QED
    BY <1>1, <1>2, <2>1, <2>2, <2>3 DEF CallMoves, GoesOn
<1>6. CASE RecordLocalAuditEvent
  <2>1. call[Worker].step = "audit" /\ call[Worker].op = "worker"
    BY <1>1, <1>6, StepNames DEF RecordLocalAuditEvent, CallSound, Orderly
  <2>2. CASE call' = [call EXCEPT ![Worker] = Idle]
    <3>1. call'[Worker] = Idle
      BY <1>1, <2>2 DEF LocalInv, LocalTypeOK
    <3> QED
      BY <1>1, <1>2, <2>1, <3>1 DEF CallMoves, Ends
  <2>3. ASSUME NEW i \in Ids, Rewrite(Worker, "audit_log", i,
                                      [Docs("audit_log") EXCEPT ![i] = written], None)
        PROVE  CallMoves(Worker)
    <3>1. /\ call'[Worker].op = call[Worker].op /\ call'[Worker].step = "truncate"
          /\ call'[Worker].name = "audit_log"
      BY <1>4, <2>3 DEF Moved
    <3> QED
      BY <1>2, <2>1, <3>1 DEF CallMoves, Audits
  <2> QED
    BY <1>6, <2>2, <2>3 DEF RecordLocalAuditEvent
<1> QED
  BY <1>3, <1>5, <1>6, <1>r

\* Every step is a write, a move of one call, or a death, or changes nothing.
LEMMA CallKinds ==
    ASSUME LocalInv, ByProcess, [Next]_localVars
    PROVE  \/ \E p \in Processes : Fill(p) \/ CallMoves(p)
           \/ BackendDies \/ WorkerDies
           \/ UNCHANGED localVars
<1>1. ASSUME NEW p \in Processes, ProcessStep(p)
      PROVE  Fill(p) \/ CallMoves(p)
  BY <1>1, FileCalls, BackfillCalls, OperationCalls DEF ProcessStep
<1>2. Worker \in Processes
  BY DEF Processes
<1> QED
  BY <1>1, <1>2, WorkerCalls DEF Next

\* The call of a process after a write, or a death.
LEMMA FilledCall ==
    ASSUME LocalInv, ByProcess, NEW p \in Processes, Fill(p)
    PROVE  /\ call'[p] = Resumed(call[p]) /\ \A q \in Processes \ {p} : call'[q] = call[q]
           /\ call[p] \in LocalCall /\ CallSound(call[p]) /\ call[p].step = "fill"
           /\ call[p].op # "idle" /\ call[p] # Idle /\ serving' = serving
<1>1. /\ call'[p] = Resumed(call[p]) /\ \A q \in Processes \ {p} : call'[q] = call[q]
      /\ call[p] \in LocalCall /\ CallSound(call[p]) /\ call[p].step = "fill"
      /\ serving' = serving
  BY DEF Fill, LocalInv, LocalTypeOK
<1>2. call[p] # Idle
  BY <1>1 DEF Idle
<1> QED
  BY <1>1, <1>2 DEF ByProcess

LEMMA DeadCalls ==
    ASSUME LocalInv, NEW P \in SUBSET Processes, Die(P)
    PROVE  \A q \in Processes : call'[q] = IF q \in P THEN Idle ELSE call[q]
BY DEF Die

\* Each process stays with its operations.
LEMMA ByProcessStep ==
    ASSUME LocalInv, ByProcess, [Next]_localVars
    PROVE  ByProcess'
<1>1. Idle.op = "idle" /\ Idle.step = "none" /\ Idle.name = "none" /\ Worker \in Processes
      /\ Clients \in SUBSET Processes /\ {Worker} \in SUBSET Processes /\ Worker \notin Clients
  BY LocalBounds DEF Idle, Processes
<1>2. ASSUME NEW p \in Processes, Fill(p)
      PROVE  ByProcess'
  <2>1. Resumed(call[p]) = Idle \/
          /\ Resumed(call[p]) # Idle /\ Resumed(call[p]).op = call[p].op
          /\ Resumed(call[p]).step = "mirror" => Resumed(call[p]).name = "none"
    BY <1>2, FilledCall, ResumedCall
  <2> QED
    BY <1>1, <1>2, <2>1, FilledCall DEF ByProcess
<1>3. ASSUME NEW p \in Processes, CallMoves(p)
      PROVE  ByProcess'
  <2>1. CASE GoesOn(p) \/ Ends(p) \/ Audits(p) \/ Archives(p)
    BY <1>1, <1>3, <2>1 DEF CallMoves, GoesOn, Ends, Audits, Archives, ByProcess
  <2>2. CASE Begins(p) \/ BackfillsNext(p)
    BY <1>1, <1>3, <2>2 DEF CallMoves, Begins, BackfillsNext, ByProcess
  <2> QED
    BY <1>3, <2>1, <2>2 DEF CallMoves
<1>4. ASSUME NEW P \in SUBSET Processes, Die(P)
      PROVE  ByProcess'
  BY <1>1, <1>4, DeadCalls DEF ByProcess
<1>5. CASE UNCHANGED localVars
  BY <1>5 DEF localVars, ByProcess
<1> QED
  BY <1>1, <1>2, <1>3, <1>4, <1>5, CallKinds DEF BackendDies, WorkerDies

\* The requests come after the start-up, and the start-up after a death.
LEMMA StartUpStep ==
    ASSUME LocalInv, ByProcess, StartUpInv, [Next]_localVars
    PROVE  StartUpInv'
<1>1. /\ Idle.op = "idle" /\ Idle.step = "none" /\ Worker \in Processes
      /\ Clients \in SUBSET Processes /\ {Worker} \in SUBSET Processes /\ Worker \notin Clients
  BY LocalBounds DEF Idle, Processes
<1>2. ASSUME NEW p \in Processes, Fill(p)
      PROVE  StartUpInv'
  <2>1. Resumed(call[p]) = Idle \/ Resumed(call[p]).op = call[p].op
    BY <1>2, FilledCall, ResumedCall
  <2> QED
    BY <1>1, <1>2, <2>1, FilledCall DEF StartUpInv
<1>3. ASSUME NEW p \in Processes, CallMoves(p)
      PROVE  StartUpInv'
  <2>1. CASE GoesOn(p) \/ Audits(p) \/ Archives(p)
    BY <1>1, <1>3, <2>1 DEF CallMoves, GoesOn, Audits, Archives, StartUpInv, ByProcess
  <2>2. CASE Ends(p)
    <3>1. call[p] # Idle /\ call'[p] = Idle /\ \A q \in Processes \ {p} : call'[q] = call[q]
      BY <1>3, <2>2 DEF CallMoves, Ends
    <3>2. CASE serving' = serving
      BY <1>1, <3>1, <3>2 DEF StartUpInv
    <3>3. CASE ~serving /\ serving' /\ call[p].op = "backfill"
      <4>1. p \in Clients
        BY <1>1, <3>1, <3>3 DEF ByProcess, Processes
      <4>2. \A q \in Clients \ {p} : call[q] = Idle
        BY <3>1, <3>3, <4>1 DEF StartUpInv
      <4> QED
        BY <1>1, <3>1, <3>3, <4>2 DEF StartUpInv
    <3>4. serving \in BOOLEAN
      BY DEF LocalInv, LocalTypeOK
    <3> QED
      BY <2>2, <3>2, <3>3, <3>4 DEF Ends
  <2>3. CASE Begins(p)
    BY <1>1, <1>3, <2>3 DEF CallMoves, Begins, StartUpInv, StartingAlone
  <2>4. CASE BackfillsNext(p)
    BY <1>1, <1>3, <2>4 DEF CallMoves, BackfillsNext, StartUpInv, ByProcess
  <2> QED
    BY <1>3, <2>1, <2>2, <2>3, <2>4 DEF CallMoves
<1>4. CASE BackendDies
  BY <1>1, <1>4, DeadCalls DEF BackendDies, StartUpInv
<1>5. CASE WorkerDies
  BY <1>1, <1>5, DeadCalls DEF WorkerDies, StartUpInv
<1>6. CASE UNCHANGED localVars
  BY <1>6 DEF localVars, StartUpInv
<1> QED
  BY <1>2, <1>3, <1>4, <1>5, <1>6, CallKinds

-----------------------------------------------------------------------------
(* The deliveries go with their vaults.                                      *)

\* What a write adds to the history of one vault.
LEMMA IntendedFill ==
    ASSUME LocalInv, NEW p \in Processes, Fill(p), NEW i \in Ids
    PROVE  LET k == call[p]
           IN /\ intended'.vaults[i] = IF ChangesOne(k) /\ k.name = "vault" /\ k.key = i
                                       THEN k.vtext.vaults[i] ELSE intended.vaults[i]
              /\ intended'.docs["delivery"][i] =
                    IF ChangesOne(k) /\ k.name = "delivery" /\ k.key = i
                    THEN k.text[i] ELSE intended.docs["delivery"][i]
<1> DEFINE k == call[p]
<1>1. intended \in [vaults : [Ids -> VaultDoc \cup {None}], docs : [Moved -> Documents]]
  BY DEF LocalInv, LocalTypeOK
<1>2. /\ k.step = "fill" /\ CallSound(k) /\ intended.docs["delivery"] \in Documents
      /\ intended.vaults \in [Ids -> VaultDoc \cup {None}] /\ "delivery" \in Moved
  BY <1>1 DEF Fill, LocalInv, Moved
<1>3. CASE ~ChangesOne(k)
  BY <1>3 DEF Fill
<1>4. CASE ChangesOne(k) /\ k.name = "vault"
  <2>1. intended' = [intended EXCEPT !.vaults[k.key] = k.vtext.vaults[k.key]]
    BY <1>4 DEF Fill
  <2>2. /\ intended'.vaults = [intended.vaults EXCEPT ![k.key] = k.vtext.vaults[k.key]]
        /\ intended'.docs = intended.docs
    BY <1>1, <2>1
  <2> QED
    BY <1>2, <1>4, <2>2
<1>5. CASE ChangesOne(k) /\ k.name # "vault"
  <2>1. intended' = [intended EXCEPT !.docs[k.name][k.key] = k.text[k.key]]
    BY <1>5 DEF Fill
  <2>2. /\ intended'.vaults = intended.vaults
        /\ intended'.docs = [intended.docs EXCEPT
                                ![k.name] = [intended.docs[k.name] EXCEPT ![k.key] = k.text[k.key]]]
    BY <1>1, <1>2, <1>5, <2>1 DEF CallSound, WritesTable
  <2>3. intended'.docs["delivery"] = IF k.name = "delivery"
                                     THEN [intended.docs["delivery"] EXCEPT ![k.key] = k.text[k.key]]
                                     ELSE intended.docs["delivery"]
    BY <1>1, <1>2, <2>2
  <2> QED
    BY <1>2, <1>5, <2>2, <2>3 DEF Documents
<1> QED
  BY <1>3, <1>4, <1>5

\* Only the first write of a deletion takes a vault out.
LEMMA VaultDeleted ==
    ASSUME LocalInv, NEW p \in Processes, Fill(p), NEW i \in Ids,
           intended.vaults[i] # None, intended'.vaults[i] = None
    PROVE  /\ call[p].op = "delete_vault" /\ call[p].key = i
           /\ ~Moving(call[p]) /\ call[p].name = "vault"
<1>1. /\ ChangesOne(call[p]) /\ call[p].name = "vault" /\ call[p].key = i
      /\ call[p].vtext.vaults[i] = None
  BY IntendedFill
<1>2. PlainWrite(call[p])
  BY <1>1, OneChanged DEF LocalInv, LocalTypeOK, Fill
<1> QED
  BY <1>1, <1>2 DEF PlainWrite, ChangesOne

\* A vault found in vaults.json exists.
LEMMA KnownIsKept ==
    ASSUME LocalInv, StoreInv, NEW i \in Ids, Known(i)
    PROVE  Kept(i)
<1> SUFFICES ASSUME "vault" \notin disturbed PROVE intended.vaults[i] # None
  BY DEF Kept
<1>1. VaultsGood
  BY DEF StoreInv, VaultsInv
<1>2. vaultsFile # NoVaults
  BY DEF Known, NoVaults
<1> QED
  BY <1>1, <1>2 DEF VaultsGood, Known

\* It stays so but for a deletion.
LEMMA KeptStays ==
    ASSUME LocalInv, [Next]_localVars, NEW i \in Ids, Kept(i), intended' = intended
    PROVE  Kept(i)'
BY DisturbedGrows DEF Kept

LEMMA FillKeeps ==
    ASSUME LocalInv, [Next]_localVars, NEW p \in Processes, Fill(p), NEW i \in Ids, Kept(i)
    PROVE  Kept(i)' \/ (call[p].op = "delete_vault" /\ call[p].key = i)
BY VaultDeleted, DisturbedGrows DEF Kept

\* The worker's vault.
LEMMA WorkerStep ==
    ASSUME LocalInv, StoreInv, ByProcess, WorkerInv, [Next]_localVars
    PROVE  WorkerInv'
<1> SUFFICES ASSUME NEW i \in Ids, WorkerIsOn(i)'
             PROVE  (Kept(i) \/ i \in stranded)'
  BY DEF WorkerInv
<1>1. Worker \in Processes /\ Worker \notin Clients /\ Idle.op = "idle"
  BY LocalBounds DEF Processes, Idle
<1>2. ASSUME WorkerIsOn(i), intended' = intended, stranded \subseteq stranded'
      PROVE  (Kept(i) \/ i \in stranded)'
  BY <1>2, KeptStays DEF WorkerInv
<1>3. ASSUME NEW p \in Processes, Fill(p)
      PROVE  (Kept(i) \/ i \in stranded)'
  <2>1. WorkerIsOn(i)
    <3>1. CASE p = Worker
      <4>1. Resumed(call[p]) # Idle /\ Resumed(call[p]).op = "worker" /\ Resumed(call[p]).key = i
        BY <1>1, <1>3, <3>1, FilledCall DEF WorkerIsOn
      <4>2. call[p].op = "worker" /\ call[p].key = i /\ call[p].name # "audit_log"
        BY <1>3, <4>1, FilledCall, ResumedCall
      <4> QED
        BY <1>3, <3>1, <4>2, FilledCall DEF WorkerIsOn
    <3>2. CASE p # Worker
      BY <1>1, <1>3, <3>2, FilledCall DEF WorkerIsOn
    <3> QED
      BY <3>1, <3>2
  <2>2. CASE i \in stranded
    BY <1>3, <2>2 DEF Fill
  <2>3. CASE Kept(i)
    <3>1. call[p].op = "delete_vault" /\ call[p].key = i => i \in stranded'
      BY <1>3, <2>1 DEF Fill
    <3> QED
      BY <1>3, <2>3, <3>1, FillKeeps
  <2> QED
    BY <2>1, <2>2, <2>3 DEF WorkerInv
<1>4. ASSUME NEW p \in Processes, CallMoves(p)
      PROVE  (Kept(i) \/ i \in stranded)'
  <2>1. intended' = intended /\ stranded \subseteq stranded'
    BY <1>4 DEF CallMoves
  <2>2. CASE p # Worker
    <3>1. WorkerIsOn(i)
      BY <1>1, <1>4, <2>2 DEF CallMoves, WorkerIsOn
    <3> QED
      BY <1>2, <2>1, <3>1
  <2>3. CASE p = Worker /\ GoesOn(p)
    <3>1. WorkerIsOn(i)
      BY <2>3 DEF GoesOn, WorkerIsOn
    <3> QED
      BY <1>2, <2>1, <3>1
  <2>4. CASE p = Worker /\ Archives(p)
    <3>1. Known(i)
      BY <1>1, <2>4 DEF Archives, WorkerIsOn
    <3> QED
      BY <2>1, <3>1, KnownIsKept, KeptStays
  <2>5. CASE p = Worker /\ (Begins(p) \/ BackfillsNext(p) \/ Audits(p) \/ Ends(p))
    BY <1>1, <2>5 DEF Begins, BackfillsNext, Audits, Ends, WorkerIsOn
  <2> QED
    BY <1>4, <2>2, <2>3, <2>4, <2>5 DEF CallMoves
<1>5. ASSUME NEW P \in SUBSET Processes, Die(P)
      PROVE  (Kept(i) \/ i \in stranded)'
  <2>1. WorkerIsOn(i)
    BY <1>1, <1>5, DeadCalls DEF WorkerIsOn
  <2> QED
    BY <1>2, <1>5, <2>1 DEF Die
<1>6. CASE UNCHANGED localVars
  BY <1>2, <1>6 DEF localVars, localHistory, WorkerIsOn
<1> QED
  BY <1>3, <1>4, <1>5, <1>6, CallKinds DEF BackendDies, WorkerDies, Processes

\* The vaults of the start-up.
LEMMA BackfillStep ==
    ASSUME LocalInv, StoreInv, ByProcess, StartUpInv, BackfillInv, [Next]_localVars
    PROVE  BackfillInv'
<1> SUFFICES ASSUME NEW p \in Clients, call'[p].op = "backfill", NEW i \in Ids,
                    i \in call'[p].todo \/ i = call'[p].key
             PROVE  Kept(i)'
  BY DEF BackfillInv
<1>1. p \in Processes /\ p # Worker /\ Idle.op = "idle" /\ i # None
  BY LocalBounds DEF Processes, Idle
<1>2. ASSUME call[p].op = "backfill", i \in call[p].todo \/ i = call[p].key
      PROVE  Kept(i)
  BY <1>2 DEF BackfillInv
<1>3. ASSUME NEW q \in Processes, Fill(q)
      PROVE  Kept(i)'
  <2>1. call[p].op = "backfill" /\ (i \in call[p].todo \/ i = call[p].key)
    <3>1. CASE q = p
      <4>1. /\ Resumed(call[p]) # Idle /\ Resumed(call[p]).op = "backfill"
            /\ i \in Resumed(call[p]).todo \/ i = Resumed(call[p]).key
        BY <1>1, <1>3, <3>1, FilledCall
      <4> QED
        BY <1>1, <1>3, <3>1, <4>1, FilledCall, ResumedCall
    <3>2. CASE q # p
      BY <1>1, <1>3, <3>2, FilledCall
    <3> QED
      BY <3>1, <3>2
  <2>2. call[q].op # "delete_vault"
    <3>1. CASE q = Worker
      BY <1>3, <3>1, FilledCall DEF ByProcess
    <3>2. CASE q \in Clients
      BY <2>1, <3>2 DEF StartUpInv
    <3> QED
      BY <3>1, <3>2 DEF Processes
  <2> QED
    BY <1>2, <1>3, <2>1, <2>2, FillKeeps
<1>4. ASSUME NEW q \in Processes, CallMoves(q)
      PROVE  Kept(i)'
  <2>1. intended' = intended
    BY <1>4 DEF CallMoves
  <2>2. CASE q # p \/ GoesOn(q)
    <3>1. call[p].op = "backfill" /\ (i \in call[p].todo \/ i = call[p].key)
      BY <1>1, <1>4, <2>2 DEF CallMoves, GoesOn
    <3> QED
      BY <1>2, <2>1, <3>1, KeptStays
  <2>3. CASE q = p /\ BackfillsNext(q)
    <3>1. call[p].op = "backfill" /\ (i \in call[p].todo \/ i = call[p].key \/ Known(i))
      BY <1>1, <2>3 DEF BackfillsNext
    <3> QED
      BY <1>2, <2>1, <3>1, KnownIsKept, KeptStays
  <2>4. CASE q = p /\ (Begins(q) \/ Archives(q) \/ Audits(q) \/ Ends(q))
    BY <1>1, <2>4 DEF Begins, Archives, Audits, Ends
  <2> QED
    BY <1>4, <2>2, <2>3, <2>4 DEF CallMoves
<1>5. ASSUME NEW P \in SUBSET Processes, Die(P)
      PROVE  Kept(i)'
  <2>1. call'[p] = call[p] /\ intended' = intended
    BY <1>1, <1>5, DeadCalls DEF Die
  <2> QED
    BY <1>2, <2>1, KeptStays
<1>6. CASE UNCHANGED localVars
  BY <1>2, <1>6, KeptStays DEF localVars, localHistory
<1> QED
  BY <1>3, <1>4, <1>5, <1>6, CallKinds DEF BackendDies, WorkerDies, Processes

\* A delivery stays behind only where its vault's deletion is still under way.
LEMMA TwinsStep ==
    ASSUME LocalInv, StoreInv, ByProcess, WorkerInv, BackfillInv, TwinsFollowVaults,
           [Next]_localVars
    PROVE  TwinsFollowVaults'
<1> SUFFICES ASSUME NEW i \in Ids, intended'.docs["delivery"][i] # None,
                    intended'.vaults[i] = None, i \notin stranded',
                    {"vault", "delivery"} \cap disturbed' = {}
             PROVE  \E q \in Clients : call'[q].op = "delete_vault" /\ call'[q].key = i
  BY DEF TwinsFollowVaults
<1>1. {"vault", "delivery"} \cap disturbed = {}
  BY DisturbedGrows
<1>2. Clients \in SUBSET Processes /\ Worker \in Processes /\ Idle.op = "idle"
  BY DEF Processes, Idle
<1>3. ASSUME intended.docs["delivery"][i] # None, intended.vaults[i] = None, i \notin stranded
      PROVE  \E q \in Clients : call[q].op = "delete_vault" /\ call[q].key = i
  BY <1>1, <1>3 DEF TwinsFollowVaults
<1>4. ASSUME NEW p \in Processes, Fill(p)
      PROVE  \E q \in Clients : call'[q].op = "delete_vault" /\ call'[q].key = i
  <2> DEFINE k == call[p]
  <2>1. /\ k.step = "fill" /\ CallSound(k) /\ k \in LocalCall /\ k.op # "idle"
        /\ ChangesOne(k) => PlainWrite(k)
        /\ i \notin stranded
    BY <1>4, FilledCall, OneChanged DEF Fill
  <2>2. CASE intended.vaults[i] # None
    <3>1. k.op = "delete_vault" /\ k.key = i /\ k.name = "vault"
      BY <1>4, <2>2, VaultDeleted
    <3>2. Resumed(k) # Idle /\ Resumed(k).op = k.op /\ Resumed(k).key = k.key
      BY <2>1, <3>1, ResumedCall
    <3>3. p \in Clients
      BY <3>1 DEF ByProcess, Processes
    <3> QED
      BY <1>4, <3>1, <3>2, <3>3, FilledCall
  <2>3. CASE intended.vaults[i] = None /\ intended.docs["delivery"][i] = None
    <3>1. ChangesOne(k) /\ k.name = "delivery" /\ k.key = i /\ k.text[i] # None
      BY <1>4, <2>3, IntendedFill
    <3>2. k.op \in {"worker", "backfill"}
      BY <2>1, <3>1 DEF PlainWrite
    <3>3. CASE k.op = "worker"
      <4>1. WorkerIsOn(i)
        BY <1>2, <2>1, <3>1, <3>3 DEF WorkerIsOn, ByProcess
      <4> QED
        BY <1>1, <2>1, <2>3, <4>1 DEF WorkerInv, Kept
    <3>4. CASE k.op = "backfill"
      <4>1. p \in Clients
        BY <2>1, <3>4, FilledCall, <1>4 DEF ByProcess, Processes
      <4> QED
        BY <1>1, <2>3, <3>1, <3>4, <4>1 DEF BackfillInv, Kept
    <3> QED
      BY <3>2, <3>3, <3>4
  <2>4. CASE intended.vaults[i] = None /\ intended.docs["delivery"][i] # None
    <3>1. PICK q \in Clients : call[q].op = "delete_vault" /\ call[q].key = i
      BY <1>3, <2>1, <2>4
    <3>2. CASE q # p
      BY <1>2, <1>4, <3>1, <3>2, FilledCall
    <3>3. CASE q = p
      <4>1. k.op # "backfill" /\ k.op = "delete_vault" /\ k.key = i
        BY <3>1, <3>3
      <4>2. Moving(k) \/ k.name = "vault"
        <5>0. ~Moving(k) => ChangesOne(k)
          BY <4>1, LocalBounds DEF ChangesOne
        <5>1. ~Moving(k) /\ k.name = "delivery" => k.text[i] = None
          BY <2>1, <4>1, <5>0 DEF PlainWrite
        <5>2. ~Moving(k) => k.name \in {"vault", "delivery"}
          BY <2>1, <4>1, <5>0 DEF PlainWrite
        <5>3. ~(~Moving(k) /\ k.name = "delivery")
          BY <1>4, <4>1, <5>0, <5>1, IntendedFill
        <5> QED
          BY <5>2, <5>3
      <4>3. Resumed(k).op = k.op /\ Resumed(k).key = k.key
        BY <2>1, <4>1, <4>2, ResumedCall
      <4> QED
        BY <1>4, <3>3, <4>1, <4>3, FilledCall
    <3> QED
      BY <3>2, <3>3
  <2> QED
    BY <2>2, <2>3, <2>4
<1>5. ASSUME NEW p \in Processes, CallMoves(p)
      PROVE  \E q \in Clients : call'[q].op = "delete_vault" /\ call'[q].key = i
  <2>1. /\ intended' = intended /\ stranded \subseteq stranded'
        /\ \A q \in Processes \ {p} : call'[q] = call[q]
    BY <1>5 DEF CallMoves
  <2>2. PICK q \in Clients : call[q].op = "delete_vault" /\ call[q].key = i
    BY <1>3, <2>1
  <2>3. CASE q # p
    BY <1>2, <2>1, <2>2, <2>3
  <2>4. CASE q = p /\ ~Ends(p)
    BY <1>2, <1>5, <2>2, <2>4 DEF CallMoves, GoesOn, Begins, BackfillsNext, Archives, Audits
  <2>5. CASE q = p /\ Ends(p)
    <3>1. files["delivery"][i] = None /\ ~BeingWritten("delivery")
      BY <2>2, <2>5 DEF Ends
    <3>2. Good("delivery", NoDocuments)
      BY <1>1, <1>2, <2>2 DEF StoreInv, DeleteInv, DeletesVault, DeleteReady
    <3>3. Merged(files["delivery"], NoDocuments)[i] = None
      BY <3>1 DEF Merged, NoDocuments
    <3> QED
      BY <2>1, <3>1, <3>2, <3>3 DEF Good
  <2> QED
    BY <2>3, <2>4, <2>5
<1>6. ASSUME NEW P \in SUBSET Processes, Die(P)
      PROVE  \E q \in Clients : call'[q].op = "delete_vault" /\ call'[q].key = i
  <2>1. /\ intended' = intended /\ stranded \subseteq stranded'
        /\ \A q \in P : call[q].op = "delete_vault" => call[q].key \in stranded'
    BY <1>6 DEF Die
  <2>2. PICK q \in Clients : call[q].op = "delete_vault" /\ call[q].key = i
    BY <1>3, <2>1
  <2>3. q \notin P
    BY <2>1, <2>2
  <2> QED
    BY <1>2, <1>6, <2>2, <2>3, DeadCalls
<1>7. CASE UNCHANGED localVars
  BY <1>3, <1>7 DEF localVars, localHistory
<1> QED
  BY <1>4, <1>5, <1>6, <1>7, CallKinds DEF BackendDies, WorkerDies, Processes

\* Who does what, all told.
TwinsInv == ByProcess /\ StartUpInv /\ WorkerInv /\ BackfillInv /\ TwinsFollowVaults

LEMMA TwinsInit == Init => TwinsInv
<1> SUFFICES ASSUME Init PROVE TwinsInv
  OBVIOUS
<1>1. Idle.op = "idle" /\ Idle.step = "none"
  BY DEF Idle
<1>2. /\ \A p \in Processes : call[p] = Idle
      /\ serving = FALSE /\ Worker \in Processes /\ Clients \subseteq Processes
  BY DEF Init, Processes
<1>3. ByProcess /\ StartUpInv /\ WorkerInv /\ BackfillInv
  BY <1>1, <1>2 DEF ByProcess, StartUpInv, WorkerInv, WorkerIsOn, BackfillInv
<1>4. TwinsFollowVaults
  <2>1. PICK R \in SUBSET Recipients, V \in SUBSET Ids, L \in [Moved -> SUBSET Ids] :
          /\ L["delivery"] \subseteq V
          /\ vaultsFile = [vaults |-> [i \in Ids |-> IF i \in V THEN NewVault(R, R, 1, 1)
                                                     ELSE None],
                           legacy |-> [t \in Moved |-> [i \in Ids |->
                                         IF i \in L[t] THEN 0 ELSE None]]]
    BY DEF Init
  <2> DEFINE n == NewVault(R, R, 1, 1)
  <2>2. n # None
    BY NewLocalVault, NoneIsNoDocument
  <2> HIDE DEF n
  <2>3. /\ intended.vaults = [i \in Ids |-> IF i \in V THEN n ELSE None]
        /\ intended.docs = [t \in Moved |-> [i \in Ids |-> IF i \in L[t] THEN 0 ELSE None]]
    BY <2>1 DEF Init, n
  <2>4. intended.docs["delivery"] = [i \in Ids |-> IF i \in L["delivery"] THEN 0 ELSE None]
    BY <2>3 DEF Moved
  <2> QED
    BY <2>1, <2>2, <2>3, <2>4 DEF TwinsFollowVaults
<1> QED
  BY <1>3, <1>4 DEF TwinsInv

LEMMA TwinsInvariance == LocalSpec => []TwinsInv
<1>1. LocalInv /\ StoreInv /\ TwinsInv /\ [Next]_localVars => TwinsInv'
  BY ByProcessStep, StartUpStep, WorkerStep, BackfillStep, TwinsStep DEF TwinsInv
<1> QED
  BY <1>1, TwinsInit, LocalInvariance, StoreInvariance, PTL DEF LocalSpec

\* No delivery document outlives its vault, whatever the start-up, the worker and the
\* deletions interleave, but for the vaults of a deletion that died or met the worker
\* halfway, and the files written from a stale copy or cut off.
THEOREM LocalTwinsFollowVaults == LocalSpec => []TwinsFollowVaults
<1>1. TwinsInv => TwinsFollowVaults
  BY DEF TwinsInv
<1> QED
  BY <1>1, TwinsInvariance, PTL

=============================================================================
