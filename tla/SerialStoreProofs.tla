--------------------------- MODULE SerialStoreProofs ---------------------------
(***************************************************************************)
(* Proofs about the API calls of VaultStore when they do not overlap: one  *)
(* client at a time, any number of calls one after the other, any number   *)
(* of recipients and files.  The copies a call works on are then the       *)
(* stored document itself, so what an operation does to a copy             *)
(* (VaultDocumentProofs) is what it does to the vault.                     *)
(***************************************************************************)
EXTENDS VaultStoreProofs

\* No two calls are in progress together.
Serial == \E c : Clients = {c}

\* Before its write a call's copies are the stored document.
CallCurrent(k, v) ==
    /\ k.step \in {"assets", "load", "save"} => v # None /\ k.seen \in {None, v}
    /\ k.step = "save" => k.snap = v

CopiesCurrent == \A c \in Clients : CallCurrent(call[c], vault)

\* A client between calls holds no copy.
LEMMA IdleCurrent == ASSUME NEW v PROVE CallCurrent(Idle, v)
BY DEF Idle, CallCurrent

\* One call at a time: what its own step leaves current is all there is.
LEMMA SerialStep ==
    ASSUME Serial, IInv, NEW c \in Clients, NEW k,
           call' = [call EXCEPT ![c] = k], CallCurrent(k, vault')
    PROVE  CopiesCurrent'
<1>1. \A d \in Clients : d = c
  BY DEF Serial
<1>2. call'[c] = k
  BY DEF IInv, TypeOK
<1> QED
  BY <1>1, <1>2 DEF CopiesCurrent, CallCurrent

\* A call picks up the stored document, writes at most once, and then ends.
LEMMA CurrentStep ==
    ASSUME Serial, IInv, CopiesCurrent, NEW c \in Clients, ApiStep(c)
    PROVE  CopiesCurrent'
<1>1. call[c] \in Call /\ CallCurrent(call[c], vault)
  BY DEF IInv, TypeOK, CopiesCurrent
<1>2. CASE call' = [call EXCEPT ![c] = Idle]
  BY <1>2, IdleCurrent, SerialStep
<1>3. ASSUME NEW op, NEW step, NEW seen \in {None, vault}, NEW file,
             Begin(c, op, step, seen, file), step \in {"assets", "load"}, vault' = vault
      PROVE  CopiesCurrent'
  <2> DEFINE k == [op |-> op, step |-> step, seen |-> seen, snap |-> None, file |-> file]
  <2>1. call' = [call EXCEPT ![c] = k] /\ vault # None
    BY <1>3 DEF Begin
  <2>2. k.step # "save" /\ k.seen \in {None, vault'} /\ vault' # None
    BY <1>3, <2>1
  <2>3. CallCurrent(k, vault')
    BY <2>2 DEF CallCurrent
  <2> QED
    BY <2>1, <2>3, SerialStep
<1>4. CASE \/ StartUpdateVault(c) \/ StartAddRecipient(c) \/ StartUpdatePermission(c)
           \/ StartDeleteRecipient(c) \/ StartRequestActivation(c) \/ StartWithdraw(c)
           \/ StartCheckIn(c) \/ StartUploadFile(c) \/ StartAssignFile(c)
           \/ StartDeleteFile(c) \/ StartDeleteVault(c) \/ StartDeleteAccount(c)
           \/ StartLeave(c)
  <2>1. /\ vault' = vault
        /\ \E op, file : \E seen \in {None, vault}, step \in {"assets", "load"} :
              Begin(c, op, step, seen, file)
    BY <1>4 DEF StartUpdateVault, StartAddRecipient, StartUpdatePermission,
         StartDeleteRecipient, StartRequestActivation, StartWithdraw, StartCheckIn,
         StartUploadFile, StartAssignFile, StartDeleteFile, StartDeleteVault,
         StartDeleteAccount, StartLeave
  <2> QED
    BY <1>3, <2>1
<1>5. CASE StoreBytes(c) \/ DropBytes(c) \/ DeleteVaultAssets(c)
  <2> DEFINE k == [call[c] EXCEPT !.step = "load"]
  <2>1. call' = [call EXCEPT ![c] = k] /\ vault' = vault /\ call[c].step = "assets"
    BY <1>1, <1>5 DEF StoreBytes, DropBytes, DeleteVaultAssets, IInv, TypeOK
  <2>2. k.step = "load" /\ k.seen = call[c].seen
    BY <1>1 DEF Call
  <2>3. CallCurrent(k, vault')
    BY <1>1, <2>1, <2>2 DEF CallCurrent
  <2> QED
    BY <2>1, <2>3, SerialStep
<1>6. CASE Load(c) /\ vault # None
  <2> DEFINE k == [call[c] EXCEPT !.step = "save", !.snap = vault]
  <2>1. call' = [call EXCEPT ![c] = k] /\ vault' = vault /\ call[c].step = "load"
    BY <1>6 DEF Load
  <2>2. k.snap = vault /\ k.seen = call[c].seen
    BY <1>1 DEF Call
  <2>3. CallCurrent(k, vault')
    BY <1>1, <2>1, <2>2 DEF CallCurrent
  <2> QED
    BY <2>1, <2>3, SerialStep
<1>7. CASE DeleteDocument(c) /\ vault # None
  <2> DEFINE k == [call[c] EXCEPT !.step = "purge", !.snap = None]
  <2>1. call' = [call EXCEPT ![c] = k]
    BY <1>7 DEF DeleteDocument
  <2>2. k.step = "purge"
    BY <1>1 DEF Call
  <2>3. CallCurrent(k, vault')
    BY <2>2 DEF CallCurrent
  <2> QED
    BY <2>1, <2>3, SerialStep
<1>8. CASE (Load(c) \/ DeleteDocument(c)) /\ vault = None
  BY <1>2, <1>8 DEF Load, DeleteDocument
<1>9. CASE \/ SaveUpdateVault(c) \/ SaveAddRecipient(c) \/ SaveUpdatePermission(c)
           \/ SaveDeleteRecipient(c) \/ SaveRequestActivation(c) \/ SaveWithdraw(c)
           \/ SaveCheckIn(c) \/ SaveUploadFile(c) \/ SaveAssignFile(c)
           \/ SaveDeleteFile(c) \/ BrokenOff(c) \/ PurgeDelivery(c)
  BY <1>2, <1>9 DEF SaveUpdateVault, SaveAddRecipient, SaveUpdatePermission,
       SaveDeleteRecipient, SaveRequestActivation, SaveWithdraw, SaveCheckIn,
       SaveUploadFile, SaveAssignFile, SaveFileList, SaveDeleteFile, BrokenOff, Crash,
       StoreFails, BlobsFail, PurgeDelivery, Replace, Return, Finish
<1> QED
  BY <1>4, <1>5, <1>6, <1>7, <1>8, <1>9
     DEF ApiStep, BrokenOff, RecipientSteps, ActivationSteps, FileSteps

\* One call at a time, the copies a call still has to write from are never stale.
LEMMA CurrentAlways == ASSUME Serial PROVE Spec => []CopiesCurrent
<1>1. Init => CopiesCurrent
  BY IdleCurrent DEF Init, CopiesCurrent
<1>2. IInv /\ CopiesCurrent /\ [Next]_storeVars => CopiesCurrent'
  <2> SUFFICES ASSUME IInv, CopiesCurrent, [Next]_storeVars PROVE CopiesCurrent'
    OBVIOUS
  <2>1. CASE Tick \/ UNCHANGED storeVars
    <3>1. UNCHANGED <<vault, call>>
      BY <2>1 DEF Tick, storeVars, history
    <3> QED
      BY <3>1 DEF CopiesCurrent, CallCurrent
  <2>2. ASSUME NEW c \in Clients, ApiStep(c) PROVE CopiesCurrent'
    BY <2>2, CurrentStep
  <2> QED
    BY <2>1, <2>2 DEF Next
<1> QED
  BY <1>1, <1>2, InvariantLemma, PTL DEF Spec

-----------------------------------------------------------------------------
(* What one write does to the document it was made from.                    *)

FilesAfter(k) ==
    IF k.op \in {"upload_file", "assign_file"} THEN k.seen.files \cup {k.file}
    ELSE IF k.op = "delete_file" THEN k.snap.files \ {k.file}
    ELSE k.snap.files

\* The write w of call c: the history follows the requests, a grace period keeps its
\* deadline and a delivery its status, and the file list is the one the operation means.
Written(c, w) ==
    LET v == call[c].snap
    IN /\ w \in VaultDoc
       /\ v.requests = consent => w.requests = consent'
       /\ Holds(w, v)
       /\ w.files = FilesAfter(call[c])

\* A call that ends without a write.
NothingWritten == UNCHANGED <<vault, blobs, consent>>

\* PATCH of the vault.
LEMMA UpdateVaultWrites ==
    ASSUME IInv, NEW c \in Clients, SaveUpdateVault(c), vault # None
    PROVE  Written(c, vault')
<1> DEFINE snap == call[c].snap
           recips(l) == IF l = None THEN snap ELSE l
           T(t) == IF t = None THEN snap.threshold ELSE t
           H(h) == IF h = None THEN snap.hours ELSE h
           w(l, t, h) == [snap EXCEPT !.recipients = recips(l).recipients,
                                      !.can_activate = recips(l).can_activate,
                                      !.threshold = T(t), !.hours = H(h)]
<1>1. snap \in VaultDoc /\ Consistent(snap) /\ now \in Nat /\ call[c].op = "update_vault"
  BY SnapLemma DEF SaveUpdateVault, Saving
<1>2. PICK l \in RecipientList \cup {None}, t \in Thresholds \cup {None},
           h \in Hours \cup {None} :
          Replace(c, UpdateVault(w(l, t, h), now)) /\ consent' = consent \cap recips(l).can_activate
  BY <1>1 DEF SaveUpdateVault, VaultDoc
<1>3. recips(l).recipients \in SUBSET Recipients
      /\ recips(l).can_activate \in SUBSET recips(l).recipients
  BY <1>1 DEF RecipientList, VaultDoc, Consistent, ConsentOK
<1>4. T(t) \in Nat \ {0} /\ H(h) \in Nat \ {0}
  <2>1. snap.threshold \in Nat \ {0} /\ snap.hours \in Nat \ {0}
    BY <1>1 DEF VaultDoc
  <2>2. Thresholds \subseteq Nat \ {0} /\ Hours \subseteq Nat \ {0}
    BY BoundsOK DEF Thresholds
  <2>3. T(t) \in Nat \ {0}
    BY <1>2, <2>1, <2>2
  <2>4. H(h) \in Nat \ {0}
    BY <1>2, <2>1, <2>2
  <2> QED
    BY <2>3, <2>4
<1> DEFINE R == recips(l).recipients
           A == recips(l).can_activate
           th == T(t)
           hh == H(h)
           m == [snap EXCEPT !.recipients = R, !.can_activate = A,
                             !.threshold = th, !.hours = hh]
<1>5. /\ vault' = UpdateVault(m, now) /\ consent' = consent \cap A
      /\ R \in SUBSET Recipients /\ A \in SUBSET R
      /\ th \in Nat \ {0} /\ hh \in Nat \ {0}
  BY <1>2, <1>3, <1>4 DEF Replace
<1> HIDE DEF R, A, th, hh
<1>6. Mergeable(m) /\ Carries(m, snap)
  BY <1>1, <1>5, MergeRecipientsLemma
<1>7. /\ UpdateVault(m, now).requests = snap.requests \cap A
      /\ Holds(UpdateVault(m, now), snap)
  BY <1>1, <1>6, MergedRequests
<1> HIDE DEF m
<1>8. UpdateVault(m, now) \in VaultDoc /\ UpdateVault(m, now).files = snap.files
  BY <1>1, <1>6, UpdateVaultLemma DEF Carries
<1> QED
  BY <1>1, <1>5, <1>7, <1>8 DEF Written, FilesAfter

\* The recipient operations.
LEMMA RecipientWrites ==
    ASSUME IInv, NEW c \in Clients, vault # None,
           SaveAddRecipient(c) \/ SaveUpdatePermission(c) \/ SaveDeleteRecipient(c)
    PROVE  NothingWritten \/ Written(c, vault')
<1> DEFINE snap == call[c].snap
<1>1. /\ snap \in VaultDoc /\ Consistent(snap) /\ now \in Nat
      /\ FilesAfter(call[c]) = snap.files
  BY SnapLemma DEF SaveAddRecipient, SaveUpdatePermission, SaveDeleteRecipient, Saving,
                   FilesAfter
<1>2. CASE SaveAddRecipient(c)
  <2>1. PICK r \in Recipients, can \in BOOLEAN :
            Replace(c, AddRecipientToVault(snap, r, can, now))
    BY <1>2 DEF SaveAddRecipient
  <2>2. vault' = AddRecipientToVault(snap, r, can, now) /\ consent' = consent
    BY <1>2, <2>1 DEF Replace, SaveAddRecipient, history
  <2>3. vault' \in VaultDoc /\ vault'.files = snap.files
    BY <1>1, <2>2, AddRecipientLemma DEF Carries
  <2>4. vault'.requests = snap.requests /\ Holds(vault', snap)
    BY <1>1, <2>2, AddRecipientRequests
  <2> QED
    BY <1>1, <2>2, <2>3, <2>4 DEF Written
<1>3. CASE SaveUpdatePermission(c)
  <2>1. PICK r \in Recipients, can \in BOOLEAN :
            \/ Return(c)
            \/ /\ r \in snap.recipients
               /\ Replace(c, UpdateRecipientActivationPermission(snap, r, can, now))
               /\ consent' = IF can THEN consent ELSE consent \ {r}
    BY <1>3 DEF SaveUpdatePermission
  <2>2. CASE Return(c)
    BY <2>2 DEF Return, NothingWritten, history
  <2>3. CASE ~Return(c)
    <3>1. /\ vault' = UpdateRecipientActivationPermission(snap, r, can, now)
          /\ r \in snap.recipients
          /\ consent' = IF can THEN consent ELSE consent \ {r}
      BY <2>1, <2>3 DEF Replace
    <3>2. vault' \in VaultDoc /\ vault'.files = snap.files
      BY <1>1, <3>1, UpdatePermissionLemma DEF Carries
    <3>3. /\ can => vault'.requests = snap.requests
          /\ ~can => vault'.requests = snap.requests \ {r}
          /\ Holds(vault', snap)
      BY <1>1, <3>1, UpdatePermissionRequests
    <3> QED
      BY <1>1, <3>1, <3>2, <3>3 DEF Written
  <2> QED
    BY <2>2, <2>3
<1>4. CASE SaveDeleteRecipient(c)
  <2>1. PICK r \in Recipients : /\ Replace(c, RemoveRecipientFromVault(snap, r, now))
                                /\ consent' = consent \ {r}
    BY <1>4 DEF SaveDeleteRecipient
  <2>2. vault' = RemoveRecipientFromVault(snap, r, now)
    BY <2>1 DEF Replace
  <2>3. vault' \in VaultDoc /\ vault'.files = snap.files
    BY <1>1, <2>2, RemoveRecipientLemma DEF Carries
  <2>4. vault'.requests = snap.requests \ {r} /\ Holds(vault', snap)
    BY <1>1, <2>2, RemoveRecipientRequests
  <2> QED
    BY <1>1, <2>1, <2>3, <2>4 DEF Written
<1> QED
  BY <1>2, <1>3, <1>4

\* Requests, withdrawals and check-ins.
LEMMA ActivationWrites ==
    ASSUME IInv, NEW c \in Clients, vault # None,
           SaveRequestActivation(c) \/ SaveWithdraw(c) \/ SaveCheckIn(c)
    PROVE  NothingWritten \/ Written(c, vault')
<1> DEFINE snap == call[c].snap
<1>1. /\ snap \in VaultDoc /\ Consistent(snap) /\ now \in Nat
      /\ FilesAfter(call[c]) = snap.files
  BY SnapLemma DEF SaveRequestActivation, SaveWithdraw, SaveCheckIn, Saving, FilesAfter
<1>2. CASE Return(c)
  BY <1>2 DEF Return, NothingWritten, history
<1>3. CASE SaveRequestActivation(c) /\ ~Return(c)
  <2>1. PICK r : /\ MayRequestActivation(snap, r)
                 /\ Replace(c, AddActivationRequest(snap, r, now))
                 /\ consent' = consent \cup {r}
    BY <1>3 DEF SaveRequestActivation
  <2>2. vault' = AddActivationRequest(snap, r, now)
    BY <2>1 DEF Replace
  <2>3. vault' \in VaultDoc /\ vault'.files = snap.files
    BY <1>1, <2>1, <2>2, AddRequestLemma DEF Carries
  <2>4. vault'.requests = snap.requests \cup {r} /\ Holds(vault', snap)
    BY <1>1, <2>1, <2>2, RequestOperations
  <2> QED
    BY <1>1, <2>1, <2>3, <2>4 DEF Written
<1>4. CASE SaveWithdraw(c) /\ ~Return(c)
  <2>1. PICK r : /\ Replace(c, RemoveActivationRequest(snap, r, now))
                 /\ consent' = consent \ {r}
    BY <1>4 DEF SaveWithdraw
  <2>2. vault' = RemoveActivationRequest(snap, r, now)
    BY <2>1 DEF Replace
  <2>3. vault' \in VaultDoc /\ vault'.files = snap.files
    BY <1>1, <2>2, RemoveRequestLemma DEF Carries
  <2>4. vault'.requests = snap.requests \ {r} /\ Holds(vault', snap)
    BY <1>1, <2>2, RequestOperations
  <2> QED
    BY <1>1, <2>1, <2>3, <2>4 DEF Written
<1>5. CASE SaveCheckIn(c) /\ ~Return(c)
  <2>1. /\ vault' = CheckInVault(snap) /\ consent' = {}
        /\ snap.status \notin VAULT_ACTIVATION_TERMINAL_STATUSES
    BY <1>5 DEF SaveCheckIn, Replace
  <2>2. vault' \in VaultDoc /\ vault'.files = snap.files
    BY <1>1, <2>1, CheckInLemma DEF Carries
  <2>3. vault'.requests = {} /\ Holds(vault', snap)
    BY <1>1, <2>1, CheckInRequests DEF Holds, HoldsDelivery
  <2> QED
    BY <1>1, <2>1, <2>2, <2>3 DEF Written
<1> QED
  BY <1>2, <1>3, <1>4, <1>5

\* Uploads, assignments and file deletions.
LEMMA FileWrites ==
    ASSUME IInv, NEW c \in Clients, vault # None,
           SaveUploadFile(c) \/ SaveAssignFile(c) \/ SaveDeleteFile(c)
    PROVE  Written(c, vault')
<1> DEFINE snap == call[c].snap
           seen == call[c].seen
           f == call[c].file
<1>1. /\ snap \in VaultDoc /\ Consistent(snap) /\ now \in Nat /\ f \in Files
      /\ consent' = consent
  BY SnapLemma DEF SaveUploadFile, SaveAssignFile, SaveDeleteFile, Saving, FileOperations,
                   history
<1>2. CASE SaveUploadFile(c) \/ SaveAssignFile(c)
  <2>1. call[c].op \in {"upload_file", "assign_file"} /\ call[c].step = "save"
    BY <1>2 DEF SaveUploadFile, SaveAssignFile, Saving
  <2>2. seen \in VaultDoc /\ Consistent(seen)
    BY <2>1, SnapLemma DEF SeeingOperations
  <2>3. PICK to \in SUBSET seen.recipients : SaveFileList(c, to)
    BY <1>2 DEF SaveUploadFile, SaveAssignFile
  <2> DEFINE F == seen.files \cup {f}
             A == {a \in seen.assigned : a[1] # f} \cup ({f} \X to)
             m == WithFiles(snap, F, A)
  <2>4. vault' = UpdateVault(m, now)
    BY <2>3 DEF SaveFileList, WithFiles, Replace
  <2>5. seen.assigned \subseteq seen.files \X Recipients /\ to \subseteq Recipients
        /\ F \subseteq Files
    BY <1>1, <2>2 DEF Consistent, FilesOK, VaultDoc
  <2>6. A \subseteq F \X Recipients
    BY <2>5
  <2>7. FilesAfter(call[c]) = F
    BY <2>1 DEF FilesAfter
  <2> HIDE DEF F, A
  <2>8. Mergeable(m) /\ m.files = F
    BY <1>1, <2>5, <2>6, MergeFilesLemma
  <2>9. UpdateVault(m, now).requests = snap.requests /\ Holds(UpdateVault(m, now), snap)
    BY <1>1, <2>5, <2>6, FileListRequests
  <2> HIDE DEF m
  <2>10. UpdateVault(m, now) \in VaultDoc /\ UpdateVault(m, now).files = F
    BY <1>1, <2>8, UpdateVaultLemma DEF Carries
  <2> QED
    BY <1>1, <2>4, <2>7, <2>9, <2>10 DEF Written
<1>3. CASE SaveDeleteFile(c)
  <2>1. vault' = RemoveFileFromVault(snap, f) /\ call[c].op = "delete_file"
    BY <1>3 DEF SaveDeleteFile, Replace, Saving
  <2>2. vault' \in VaultDoc /\ vault'.files = snap.files \ {f}
    BY <1>1, <2>1, RemoveFileLemma
  <2>3. vault'.requests = snap.requests /\ Holds(vault', snap)
    BY <1>1, <2>1, RemoveFileRequests
  <2> QED
    BY <1>1, <2>1, <2>2, <2>3 DEF Written, FilesAfter
<1> QED
  BY <1>2, <1>3

\* The steps that write the document.
Writing(c) == \/ SaveUpdateVault(c) \/ SaveAddRecipient(c) \/ SaveUpdatePermission(c)
              \/ SaveDeleteRecipient(c) \/ SaveRequestActivation(c) \/ SaveWithdraw(c)
              \/ SaveCheckIn(c) \/ SaveUploadFile(c) \/ SaveAssignFile(c)
              \/ SaveDeleteFile(c)

LEMMA WritingEnds ==
    ASSUME NEW c \in Clients, Writing(c)
    PROVE  call[c].step = "save" /\ call' = [call EXCEPT ![c] = Idle]
BY DEF Writing, SaveUpdateVault, SaveAddRecipient, SaveUpdatePermission,
   SaveDeleteRecipient, SaveRequestActivation, SaveWithdraw, SaveCheckIn, SaveUploadFile,
   SaveAssignFile, SaveFileList, SaveDeleteFile, Saving, Replace, Return, Finish

LEMMA WritingWrites ==
    ASSUME IInv, NEW c \in Clients, vault # None, Writing(c)
    PROVE  /\ NothingWritten \/ Written(c, vault')
           /\ call[c].step = "save" /\ call' = [call EXCEPT ![c] = Idle]
<1>1. NothingWritten \/ Written(c, vault')
  BY UpdateVaultWrites, RecipientWrites, ActivationWrites, FileWrites DEF Writing
<1> QED
  BY <1>1, WritingEnds

\* Every other step leaves the document and the requests on record alone, or deletes it.
LEMMA OtherSteps ==
    ASSUME NEW c \in Clients, ApiStep(c), ~Writing(c), vault' # None
    PROVE  vault' = vault /\ consent' = consent
<1> USE DEF Writing, history
<1>1. CASE RecipientSteps(c)
  BY <1>1 DEF RecipientSteps, StartUpdateVault, StartAddRecipient, StartUpdatePermission,
              StartDeleteRecipient, StartLeave
<1>2. CASE ActivationSteps(c)
  BY <1>2 DEF ActivationSteps, StartRequestActivation, StartWithdraw, StartCheckIn
<1>3. CASE FileSteps(c)
  BY <1>3 DEF FileSteps, StartUploadFile, StoreBytes, StartAssignFile, StartDeleteFile,
              DropBytes, StartDeleteVault, StartDeleteAccount, DeleteVaultAssets,
              DeleteDocument, PurgeDelivery
<1>4. CASE Load(c) \/ BrokenOff(c)
  BY <1>4 DEF Load, BrokenOff, Crash, StoreFails, BlobsFail
<1> QED
  BY <1>1, <1>2, <1>3, <1>4 DEF ApiStep, BrokenOff

\* What a step of the only call in progress does to the requests and the deadline.
LEMMA SerialEffect ==
    ASSUME IInv, CopiesCurrent, NEW c \in Clients, ApiStep(c), vault # None, vault' # None
    PROVE  /\ vault.requests = consent => vault'.requests = consent'
           /\ HoldsDeadline(vault', vault)
<1>1. CASE Writing(c)
  <2>1. call[c].snap = vault
    BY <1>1, WritingWrites DEF CopiesCurrent, CallCurrent
  <2>2. CASE NothingWritten
    BY <2>2 DEF NothingWritten, HoldsDeadline
  <2>3. CASE Written(c, vault')
    BY <2>1, <2>3 DEF Written, Holds
  <2> QED
    BY <1>1, <2>2, <2>3, WritingWrites
<1>2. CASE ~Writing(c)
  BY <1>2, OtherSteps DEF HoldsDeadline
<1> QED
  BY <1>1, <1>2

\* Calls that do not overlap lose no request and undo no check-in: the requests on record
\* are exactly those made since the last check-in and not taken back.
THEOREM RequestsAreKept == ASSUME Serial PROVE Spec => []RequestsAreConsents
<1>1. Init => RequestsAreConsents
  BY DEF Init, NewVault, RequestsAreConsents
<1>2. IInv /\ CopiesCurrent /\ RequestsAreConsents /\ [Next]_storeVars
        => RequestsAreConsents'
  <2> SUFFICES ASSUME IInv, CopiesCurrent, RequestsAreConsents, [Next]_storeVars
               PROVE  RequestsAreConsents'
    OBVIOUS
  <2>1. CASE Tick \/ UNCHANGED storeVars
    BY <2>1 DEF Tick, storeVars, history, RequestsAreConsents
  <2>2. ASSUME NEW c \in Clients, ApiStep(c) PROVE RequestsAreConsents'
    BY <2>2, DeletedLemma, SerialEffect DEF RequestsAreConsents
  <2> QED
    BY <2>1, <2>2 DEF Next
<1> QED
  BY <1>1, <1>2, InvariantLemma, CurrentAlways, PTL DEF Spec

\* Nothing an owner or a recipient does, one call after the other, moves the deadline of a
\* grace period that lasts.
THEOREM DeadlineStaysFixed == ASSUME Serial PROVE Spec => DeadlineIsFixed
<1>1. IInv /\ CopiesCurrent /\ [Next]_storeVars
        => [vault # None /\ vault' # None /\ vault.status = "grace_period"
              /\ vault'.status = "grace_period"
            => vault'.expires = vault.expires]_storeVars
  <2> SUFFICES ASSUME IInv, CopiesCurrent, [Next]_storeVars, vault # None, vault' # None,
                      vault.status = "grace_period", vault'.status = "grace_period"
               PROVE  vault'.expires = vault.expires
    OBVIOUS
  <2>1. CASE Tick \/ UNCHANGED storeVars
    BY <2>1 DEF Tick, storeVars, history
  <2>2. ASSUME NEW c \in Clients, ApiStep(c) PROVE vault'.expires = vault.expires
    BY <2>2, SerialEffect DEF HoldsDeadline
  <2> QED
    BY <2>1, <2>2 DEF Next
<1> QED
  BY <1>1, InvariantLemma, CurrentAlways, PTL DEF Spec, DeadlineIsFixed

-----------------------------------------------------------------------------
(* Files and their bytes.  Bytes are stored before the document lists the   *)
(* file and dropped before it forgets it, so during a call the two differ   *)
(* by that call's own file.  A deletion broken off in between leaves files  *)
(* listed without bytes: where requests to the stores may fail, these are   *)
(* among the files discarded.                                               *)

Listed == IF vault = None THEN {} ELSE vault.files

\* The blobs while call k is in progress, the document lists L and H are half deleted.
Expected(k, L, H) ==
    IF k.step \in {"load", "save"} /\ k.op = "upload_file" THEN (L \ H) \cup {k.file}
    ELSE IF k.step \in {"load", "save"} /\ k.op = "delete_file" THEN (L \ H) \ {k.file}
    ELSE IF k.step \in {"load", "save"} /\ k.op \in {"delete_vault", "delete_account"} THEN {}
    ELSE L \ H

\* An upload's file is new, an assigned one is listed, and what a deletion has dropped
\* is on record as discarded.
FileKnown(k, L, D) ==
    /\ k.op = "assign_file" => k.file \in L
    /\ k.op = "upload_file" => k.file \notin L \cup D
    /\ k.op = "delete_file" /\ k.step \in {"load", "save"} => k.file \in D
    /\ k.op \in {"delete_vault", "delete_account"} /\ k.step \in {"load", "save"} => L \subseteq D

CallBlobs(k, B, L, D) ==
    /\ B = Expected(k, L, IF StoreErrors THEN D ELSE {})
    /\ FileKnown(k, L, D)

BlobsInv == /\ Listed \cup discarded \subseteq uploaded
            /\ \A c \in Clients :
                  /\ call[c].op \in {"upload_file", "delete_file"} => call[c].file \in uploaded
                  /\ CallBlobs(call[c], blobs, Listed, discarded)

LEMMA SerialBlobs ==
    ASSUME Serial, IInv, NEW c \in Clients, NEW k,
           call' = [call EXCEPT ![c] = k], Listed' \cup discarded' \subseteq uploaded',
           k.op \in {"upload_file", "delete_file"} => k.file \in uploaded',
           CallBlobs(k, blobs', Listed', discarded')
    PROVE  BlobsInv'
<1>1. \A d \in Clients : d = c
  BY DEF Serial
<1>2. call'[c] = k
  BY DEF IInv, TypeOK
<1> QED
  BY <1>1, <1>2 DEF BlobsInv, CallBlobs, Expected, FileKnown, Listed

\* Between calls the blobs are the files listed and not half deleted.
LEMMA IdleBlobs ==
    ASSUME NEW L, NEW D, NEW B, B = L \ (IF StoreErrors THEN D ELSE {})
    PROVE  CallBlobs(Idle, B, L, D)
BY DEF Idle, CallBlobs, Expected, FileKnown

\* A handler starts from blobs and list that agree.
LEMMA StartBlobs ==
    ASSUME Serial, IInv, BlobsInv, NEW c \in Clients,
           \/ StartUpdateVault(c) \/ StartAddRecipient(c) \/ StartUpdatePermission(c)
           \/ StartDeleteRecipient(c) \/ StartRequestActivation(c) \/ StartWithdraw(c)
           \/ StartCheckIn(c) \/ StartUploadFile(c) \/ StartAssignFile(c)
           \/ StartDeleteFile(c) \/ StartDeleteVault(c) \/ StartDeleteAccount(c)
           \/ StartLeave(c)
    PROVE  BlobsInv'
<1>1. PICK op, step, seen, file :
          /\ Begin(c, op, step, seen, file)
          /\ op \in {"upload_file", "delete_file", "delete_vault", "delete_account"} =>
                step = "assets"
          /\ op \in {"assign_file", "delete_file"} => file \in vault.files
          /\ op = "upload_file" => file \notin uploaded /\ file \in uploaded'
  BY DEF StartUpdateVault, StartAddRecipient, StartUpdatePermission,
     StartDeleteRecipient, StartRequestActivation, StartWithdraw, StartCheckIn,
     StartUploadFile, StartAssignFile, StartDeleteFile, StartDeleteVault,
     StartDeleteAccount, StartLeave
<1> DEFINE k == [op |-> op, step |-> step, seen |-> seen, snap |-> None, file |-> file]
<1>2. /\ vault' = vault /\ blobs' = blobs /\ discarded' = discarded
      /\ uploaded \subseteq uploaded'
  BY DEF StartUpdateVault, StartAddRecipient, StartUpdatePermission,
     StartDeleteRecipient, StartRequestActivation, StartWithdraw, StartCheckIn,
     StartUploadFile, StartAssignFile, StartDeleteFile, StartDeleteVault,
     StartDeleteAccount, StartLeave, history
<1>3. call' = [call EXCEPT ![c] = k] /\ call[c].op = "idle" /\ vault # None
  BY <1>1 DEF Begin
<1>4. /\ blobs = Listed \ (IF StoreErrors THEN discarded ELSE {})
      /\ Listed \cup discarded \subseteq uploaded /\ Listed = vault.files
  BY <1>3 DEF BlobsInv, CallBlobs, Expected, Listed
<1>5. k.op = op /\ k.step = step /\ k.file = file
  OBVIOUS
<1> HIDE DEF k
<1>6. Listed' = Listed
  BY <1>2 DEF Listed
<1>7. CallBlobs(k, blobs', Listed', discarded')
  BY <1>1, <1>2, <1>4, <1>5, <1>6 DEF CallBlobs, Expected, FileKnown
<1>8. /\ Listed' \cup discarded' \subseteq uploaded'
      /\ k.op \in {"upload_file", "delete_file"} => k.file \in uploaded'
  BY <1>1, <1>2, <1>4, <1>5, <1>6
<1> QED
  BY <1>3, <1>7, <1>8, SerialBlobs

\* The bytes are stored, or dropped, first.
LEMMA AssetsBlobs ==
    ASSUME Serial, IInv, CopiesCurrent, BlobsInv, NEW c \in Clients,
           StoreBytes(c) \/ DropBytes(c) \/ DeleteVaultAssets(c)
    PROVE  BlobsInv'
<1> DEFINE k == [call[c] EXCEPT !.step = "load"]
<1>1. /\ call[c] \in Call /\ CallInv(call[c]) /\ CallCurrent(call[c], vault)
      /\ CallBlobs(call[c], blobs, Listed, discarded)
      /\ Listed \cup discarded \subseteq uploaded
      /\ call[c].op \in {"upload_file", "delete_file"} => call[c].file \in uploaded
  BY DEF IInv, TypeOK, CopiesCurrent, BlobsInv
<1>2. /\ call' = [call EXCEPT ![c] = k] /\ vault' = vault /\ uploaded' = uploaded
      /\ call[c].step = "assets"
  BY DEF StoreBytes, DropBytes, DeleteVaultAssets, IInv, TypeOK
<1>3. k.op = call[c].op /\ k.file = call[c].file /\ k.step = "load"
  BY <1>1 DEF Call
<1>4. /\ blobs = Listed \ (IF StoreErrors THEN discarded ELSE {})
      /\ vault # None /\ Listed' = Listed /\ Listed = vault.files
  BY <1>1, <1>2 DEF CallBlobs, Expected, CallCurrent, Listed
<1>5. DeletesVault(c) => call[c].seen = vault
  BY <1>1, <1>2 DEF DeletesVault, CallInv, CallCurrent, SeeingOperations
<1> HIDE DEF k
<1>6. CASE StoreBytes(c)
  <2>1. /\ blobs' = blobs \cup {k.file} /\ discarded' = discarded /\ k.op = "upload_file"
    BY <1>3, <1>6 DEF StoreBytes, history
  <2>2. CallBlobs(k, blobs', Listed', discarded')
    BY <1>1, <1>3, <1>4, <2>1 DEF CallBlobs, Expected, FileKnown
  <2> QED
    BY <1>1, <1>2, <1>3, <1>4, <2>1, <2>2, SerialBlobs
<1>7. CASE DropBytes(c)
  <2>1. /\ blobs' = blobs \ {k.file} /\ discarded' = discarded \cup {k.file}
        /\ k.op = "delete_file"
    BY <1>3, <1>7 DEF DropBytes
  <2>2. CallBlobs(k, blobs', Listed', discarded')
    BY <1>1, <1>3, <1>4, <2>1 DEF CallBlobs, Expected, FileKnown
  <2> QED
    BY <1>1, <1>2, <1>3, <1>4, <2>1, <2>2, SerialBlobs
<1>8. CASE DeleteVaultAssets(c)
  <2>1. /\ blobs' = {} /\ discarded' = discarded \cup Listed
        /\ k.op \in {"delete_vault", "delete_account"}
    BY <1>3, <1>4, <1>5, <1>8 DEF DeleteVaultAssets, DeletesVault
  <2>2. CallBlobs(k, blobs', Listed', discarded')
    BY <1>1, <1>3, <1>4, <2>1 DEF CallBlobs, Expected, FileKnown
  <2> QED
    BY <1>1, <1>2, <1>3, <1>4, <2>1, <2>2, SerialBlobs
<1> QED
  BY <1>6, <1>7, <1>8

\* The write of the call makes list and blobs agree again.
LEMMA WritingBlobs ==
    ASSUME Serial, IInv, CopiesCurrent, BlobsInv, NEW c \in Clients, Writing(c),
           vault' # None
    PROVE  BlobsInv'
<1> DEFINE k == call[c]
<1>1. /\ k \in Call /\ CallInv(k) /\ CallCurrent(k, vault)
      /\ CallBlobs(k, blobs, Listed, discarded)
      /\ Listed \cup discarded \subseteq uploaded
      /\ k.op \in {"upload_file", "delete_file"} => k.file \in uploaded
  BY DEF IInv, TypeOK, BlobsInv, CopiesCurrent
<1>2. k.step = "save"
  BY DEF Writing, SaveUpdateVault, SaveAddRecipient, SaveUpdatePermission,
     SaveDeleteRecipient, SaveRequestActivation, SaveWithdraw, SaveCheckIn, SaveUploadFile,
     SaveAssignFile, SaveDeleteFile, Saving
<1>3. vault # None /\ k.snap = vault
  BY <1>1, <1>2 DEF CallCurrent
<1>4. k.op \in {"upload_file", "assign_file"} => k.seen = vault
  BY <1>1, <1>2 DEF CallCurrent, CallInv, SeeingOperations
<1>5. call' = [call EXCEPT ![c] = Idle] /\ (NothingWritten \/ Written(c, vault'))
  BY <1>3, WritingWrites
<1>6. /\ k.op \notin {"delete_vault", "delete_account"} /\ blobs' = blobs
      /\ discarded' = discarded /\ uploaded' = uploaded
  BY <1>3 DEF Writing, SaveUpdateVault, SaveAddRecipient, SaveUpdatePermission,
     SaveDeleteRecipient, SaveRequestActivation, SaveWithdraw, SaveCheckIn, SaveUploadFile,
     SaveAssignFile, SaveFileList, SaveDeleteFile, Saving, Replace, Return, history
<1>7. NothingWritten => k.op \notin {"upload_file", "assign_file", "delete_file"}
                        \/ vault'.files = FilesAfter(k)
  <2>1. CASE SaveUploadFile(c) \/ SaveAssignFile(c) \/ SaveDeleteFile(c)
    BY <1>3, <2>1, FileWrites DEF Written
  <2>2. CASE ~(SaveUploadFile(c) \/ SaveAssignFile(c) \/ SaveDeleteFile(c))
    BY <2>2 DEF Writing, SaveUpdateVault, SaveAddRecipient, SaveUpdatePermission,
     SaveDeleteRecipient, SaveRequestActivation, SaveWithdraw, SaveCheckIn, Saving
  <2> QED
    BY <2>1, <2>2
<1>8. vault'.files = FilesAfter(k)
  BY <1>3, <1>5, <1>7 DEF NothingWritten, Written, FilesAfter
<1>9. blobs = FilesAfter(k) \ (IF StoreErrors THEN discarded ELSE {})
  BY <1>1, <1>2, <1>3, <1>4, <1>6 DEF CallBlobs, Expected, FileKnown, Listed, FilesAfter
<1>10. FilesAfter(k) \subseteq uploaded
  BY <1>1, <1>3, <1>4 DEF CallBlobs, FileKnown, Listed, FilesAfter
<1>11. Listed' = FilesAfter(k)
  BY <1>8 DEF Listed
<1>12. CallBlobs(Idle, blobs', Listed', discarded')
  BY <1>6, <1>9, <1>11, IdleBlobs
<1>13. Idle.op \notin {"upload_file", "delete_file"}
  BY DEF Idle
<1> QED
  BY <1>1, <1>5, <1>6, <1>10, <1>11, <1>12, <1>13, SerialBlobs

\* Reading the document changes nothing; deleting it ends with neither list nor blobs.
LEMMA OtherBlobs ==
    ASSUME Serial, IInv, CopiesCurrent, BlobsInv, NEW c \in Clients,
           Load(c) \/ DeleteDocument(c) \/ PurgeDelivery(c)
    PROVE  BlobsInv'
<1>1. /\ call[c] \in Call /\ CallCurrent(call[c], vault)
      /\ CallBlobs(call[c], blobs, Listed, discarded)
      /\ Listed \cup discarded \subseteq uploaded
      /\ call[c].op \in {"upload_file", "delete_file"} => call[c].file \in uploaded
  BY DEF IInv, TypeOK, BlobsInv, CopiesCurrent
<1>2. UNCHANGED <<blobs, discarded, uploaded>>
  BY DEF Load, DeleteDocument, PurgeDelivery, history
<1>3. CASE Load(c)
  <2> DEFINE k == [call[c] EXCEPT !.step = "save", !.snap = vault]
  <2>1. /\ vault # None /\ vault' = vault /\ call[c].step = "load"
        /\ call' = [call EXCEPT ![c] = k]
    BY <1>1, <1>3 DEF Load, CallCurrent
  <2>2. k.op = call[c].op /\ k.file = call[c].file /\ k.step = "save"
    BY <1>1 DEF Call
  <2>3. Listed' = Listed
    BY <2>1 DEF Listed
  <2> HIDE DEF k
  <2>4. CallBlobs(k, blobs', Listed', discarded')
    BY <1>1, <1>2, <2>1, <2>2, <2>3 DEF CallBlobs, Expected, FileKnown
  <2> QED
    BY <1>1, <1>2, <2>1, <2>2, <2>3, <2>4, SerialBlobs
<1>4. CASE DeleteDocument(c)
  <2> DEFINE k == [call[c] EXCEPT !.step = "purge", !.snap = None]
  <2>1. /\ vault # None /\ vault' = None /\ call[c].step = "save"
        /\ call[c].op \in {"delete_vault", "delete_account"}
        /\ call' = [call EXCEPT ![c] = k]
    BY <1>1, <1>4 DEF DeleteDocument, DeletesVault, CallCurrent
  <2>2. k.op = call[c].op /\ k.step = "purge"
    BY <1>1 DEF Call
  <2>3. Listed' = {} /\ blobs = {}
    BY <1>1, <2>1 DEF Listed, CallBlobs, Expected
  <2> HIDE DEF k
  <2>4. CallBlobs(k, blobs', Listed', discarded')
    BY <1>2, <2>1, <2>2, <2>3 DEF CallBlobs, Expected, FileKnown
  <2> QED
    BY <1>1, <1>2, <2>1, <2>2, <2>3, <2>4, SerialBlobs
<1>5. CASE PurgeDelivery(c)
  <2>1. /\ vault' = vault /\ call[c].step = "purge"
        /\ call' = [call EXCEPT ![c] = Idle]
    BY <1>5 DEF PurgeDelivery, Finish
  <2>2. blobs = Listed \ (IF StoreErrors THEN discarded ELSE {}) /\ Listed' = Listed
    BY <1>1, <2>1 DEF CallBlobs, Expected, Listed
  <2>3. CallBlobs(Idle, blobs', Listed', discarded')
    BY <1>2, <2>2, IdleBlobs
  <2>4. Idle.op \notin {"upload_file", "delete_file"}
    BY DEF Idle
  <2> QED
    BY <1>1, <1>2, <2>1, <2>2, <2>3, <2>4, SerialBlobs
<1> QED
  BY <1>3, <1>4, <1>5

\* A request to a store that fails: the upload's bytes go again, a deletion's stay gone.
LEMMA FailedBlobs ==
    ASSUME Serial, IInv, CopiesCurrent, BlobsInv, NEW c \in Clients,
           StoreFails(c) \/ BlobsFail(c)
    PROVE  BlobsInv'
<1>1. /\ call[c] \in Call /\ CallInv(call[c]) /\ CallCurrent(call[c], vault)
      /\ CallBlobs(call[c], blobs, Listed, discarded)
      /\ Listed \cup discarded \subseteq uploaded
  BY DEF IInv, TypeOK, BlobsInv, CopiesCurrent
<1>2. /\ vault' = vault /\ uploaded' = uploaded /\ StoreErrors
      /\ call' = [call EXCEPT ![c] = Idle]
  BY DEF StoreFails, BlobsFail, Finish
<1>3. Listed' = Listed
  BY <1>2 DEF Listed
<1>4. blobs' = Listed \ discarded' /\ discarded' \subseteq uploaded
  <2>1. CASE StoreFails(c)
    <3>1. /\ call[c].step \in {"load", "save", "purge"} /\ discarded' = discarded
          /\ blobs' = IF call[c].op = "upload_file" THEN blobs \ {call[c].file} ELSE blobs
      BY <2>1 DEF StoreFails, history
    <3>2. /\ blobs = Expected(call[c], Listed, discarded)
          /\ FileKnown(call[c], Listed, discarded)
      BY <1>1, <1>2 DEF CallBlobs
    <3>3. CASE call[c].op = "upload_file"
      BY <1>1, <3>1, <3>2, <3>3 DEF Expected, FileKnown
    <3>4. CASE call[c].op # "upload_file"
      BY <1>1, <3>1, <3>2, <3>4 DEF Expected, FileKnown
    <3> QED
      BY <1>1, <3>1, <3>3, <3>4
  <2>2. CASE BlobsFail(c)
    <3>1. PICK dropped \in SUBSET (IF DeletesVault(c) THEN call[c].seen.files ELSE {}) :
              blobs' = blobs \ dropped /\ discarded' = discarded \cup dropped
      BY <2>2 DEF BlobsFail
    <3>2. call[c].step = "assets" /\ blobs = Listed \ discarded
      BY <1>1, <1>2, <2>2 DEF BlobsFail, CallBlobs, Expected
    <3>3. DeletesVault(c) => call[c].seen.files = Listed
      BY <1>1, <3>2 DEF DeletesVault, CallInv, CallCurrent, SeeingOperations, Listed
    <3> QED
      BY <1>1, <3>1, <3>2, <3>3
  <2> QED
    BY <2>1, <2>2
<1>5. CallBlobs(Idle, blobs', Listed', discarded')
  BY <1>2, <1>3, <1>4, IdleBlobs
<1>6. Idle.op \notin {"upload_file", "delete_file"}
  BY DEF Idle
<1> QED
  BY <1>1, <1>2, <1>3, <1>4, <1>5, <1>6, SerialBlobs

\* A write stores a document.
LEMMA WritingStores ==
    ASSUME IInv, NEW c \in Clients, Writing(c), vault # None
    PROVE  vault' # None
BY WritingWrites, NoneIsNoDocument DEF NothingWritten, Written

\* Calls that neither overlap nor die keep the file list and the blob container in step:
\* no failed request leaves bytes nobody lists, and while no request fails the two are
\* equal between calls.
THEOREM FilesAndBlobsAgree ==
    ASSUME Serial, ~Crashes PROVE Spec => []FilesMatchBlobs
<1>1. Init => BlobsInv
  <2>1. ASSUME Init PROVE Listed = {} /\ blobs = {} /\ discarded = {}
    BY <2>1 DEF Init, NewVault, Listed
  <2>2. ASSUME Init, NEW c \in Clients
        PROVE  call[c] = Idle /\ CallBlobs(Idle, blobs, Listed, discarded)
    BY <2>1, <2>2, IdleBlobs DEF Init
  <2> QED
    BY <2>1, <2>2 DEF BlobsInv, Idle
<1>2. IInv /\ CopiesCurrent /\ BlobsInv /\ [Next]_storeVars => BlobsInv'
  <2> SUFFICES ASSUME IInv, CopiesCurrent, BlobsInv, [Next]_storeVars
               PROVE  BlobsInv'
    OBVIOUS
  <2>1. CASE Tick \/ UNCHANGED storeVars
    <3>1. UNCHANGED <<vault, blobs, call, discarded, uploaded>>
      BY <2>1 DEF Tick, storeVars, history
    <3> QED
      BY <3>1 DEF BlobsInv, CallBlobs, Expected, FileKnown, Listed
  <2>2. ASSUME NEW c \in Clients, ApiStep(c) PROVE BlobsInv'
    <3>1. CASE Writing(c)
      <4>1. call[c].step = "save"
        BY <3>1 DEF Writing, SaveUpdateVault, SaveAddRecipient, SaveUpdatePermission,
          SaveDeleteRecipient, SaveRequestActivation, SaveWithdraw, SaveCheckIn,
          SaveUploadFile, SaveAssignFile, SaveDeleteFile, Saving
      <4>2. vault # None
        BY <4>1 DEF CopiesCurrent, CallCurrent
      <4> QED
        BY <3>1, <4>2, WritingStores, WritingBlobs
    <3>2. CASE ~Writing(c)
      BY <2>2, <3>2, StartBlobs, AssetsBlobs, OtherBlobs, FailedBlobs
         DEF ApiStep, RecipientSteps, ActivationSteps, FileSteps, Crash, Writing
    <3> QED
      BY <3>1, <3>2
  <2> QED
    BY <2>1, <2>2 DEF Next
<1>3. BlobsInv => FilesMatchBlobs
  <2> SUFFICES ASSUME BlobsInv, \A c \in Clients : call[c].op = "idle"
               PROVE  blobs = Listed \ HalfDeleted
    BY DEF FilesMatchBlobs, Listed
  <2>1. PICK c \in Clients : TRUE
    BY DEF Serial
  <2> QED
    BY <2>1 DEF BlobsInv, CallBlobs, Expected, HalfDeleted
<1> QED
  BY <1>1, <1>2, <1>3, InvariantLemma, CurrentAlways, PTL DEF Spec

=============================================================================
