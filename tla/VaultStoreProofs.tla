--------------------------- MODULE VaultStoreProofs ---------------------------
(***************************************************************************)
(* Proofs about the API calls of VaultStore, for any number of concurrent  *)
(* calls, recipients and files, with crashes.                              *)
(*                                                                         *)
(* The last writer wins, so the stored document is at any time a function  *)
(* of some copy read earlier.  The invariant therefore speaks of every     *)
(* copy a call holds, not only of the stored one: each is consistent, and  *)
(* an operation applied to a consistent copy yields a consistent document  *)
(* (VaultDocumentProofs), however old the copy is.                         *)
(***************************************************************************)
EXTENDS VaultStore, VaultDocumentProofs

\* Calls whose handler keeps its copy, and calls about one file.
SeeingOperations == {"update_vault", "withdraw", "upload_file", "assign_file",
                      "delete_vault", "delete_account"}
FileOperations == {"upload_file", "assign_file", "delete_file"}

Sound(v) == v # None => Consistent(v)

CallInv(k) == /\ Sound(k.seen) /\ Sound(k.snap)
              /\ k.step = "save" => k.snap # None
              /\ k.op \in SeeingOperations => k.seen # None
              /\ k.op \in FileOperations => k.file \in Files

IInv == /\ TypeOK
        /\ Sound(vault)
        /\ \A c \in Clients : CallInv(call[c])

\* An idle client is a well-typed call that has read nothing.
LEMMA IdleLemma == Idle \in Call /\ CallInv(Idle)
BY DEF Idle, Call, CallInv, Sound, SeeingOperations, FileOperations

\* The common shape of a step of a call: it replaces the call's record and leaves the
\* rest of the state well typed.
LEMMA CallStep ==
    ASSUME IInv, NEW c \in Clients, NEW k \in Call, CallInv(k),
           call' = [call EXCEPT ![c] = k],
           vault' \in VaultDoc \cup {None}, Sound(vault'),
           delivery' \in Statuses \cup {None}, blobs' \subseteq Files,
           uploaded' \subseteq Files, now' \in Nat, consent' \subseteq Recipients,
           discarded' \subseteq Files
    PROVE  IInv'
<1>1. call' \in [Clients -> Call]
  BY DEF IInv, TypeOK
<1>2. ASSUME NEW d \in Clients
      PROVE  CallInv(call'[d])
  <2>1. CASE d = c
    BY <2>1 DEF IInv, TypeOK
  <2>2. CASE d # c
    <3>1. call'[d] = call[d]
      BY <2>2 DEF IInv, TypeOK
    <3> QED
      BY <3>1 DEF IInv
  <2> QED
    BY <2>1, <2>2
<1>3. TypeOK'
  BY <1>1 DEF TypeOK
<1>4. Sound(vault)'
  BY DEF Sound
<1>5. (\A d \in Clients : CallInv(call[d]))'
  BY <1>2
<1> QED
  BY <1>3, <1>4, <1>5 DEF IInv

\* A step that only moves the call on.
LEMMA CallMoves ==
    ASSUME IInv, NEW c \in Clients, NEW k \in Call, CallInv(k),
           call' = [call EXCEPT ![c] = k],
           vault' = vault, delivery' = delivery, blobs' \subseteq Files,
           uploaded' \subseteq Files, now' = now, consent' = consent, discarded' \subseteq Files
    PROVE  IInv'
<1>1. /\ vault' \in VaultDoc \cup {None} /\ Sound(vault')
      /\ delivery' \in Statuses \cup {None} /\ now' \in Nat /\ consent' \subseteq Recipients
  BY DEF IInv, TypeOK
<1> QED
  BY <1>1, CallStep

\* A whole-document write of a consistent document ends the call safely.
LEMMA ReplaceStep ==
    ASSUME IInv, NEW c \in Clients, NEW doc \in VaultDoc, Consistent(doc),
           Replace(c, doc), blobs' \subseteq Files, consent' \subseteq Recipients,
           discarded' = discarded
    PROVE  IInv'
<1>1. vault' \in VaultDoc \cup {None} /\ Sound(vault')
  BY DEF Replace, Sound, IInv
<1>2. call' = [call EXCEPT ![c] = Idle]
  BY DEF Replace, Finish
<1>3. /\ delivery' \in Statuses \cup {None} /\ uploaded' \subseteq Files /\ now' \in Nat
      /\ discarded' \subseteq Files
  BY DEF Replace, IInv, TypeOK
<1> QED
  BY <1>1, <1>2, <1>3, IdleLemma, CallStep

\* A store operation that writes nothing ends its call safely.
LEMMA ReturnStep ==
    ASSUME IInv, NEW c \in Clients, Return(c)
    PROVE  IInv'
<1>1. call' = [call EXCEPT ![c] = Idle] /\ blobs' \subseteq Files /\ uploaded' \subseteq Files
      /\ discarded' \subseteq Files
  BY DEF Return, Finish, IInv, TypeOK, history
<1>2. vault' = vault /\ delivery' = delivery /\ now' = now /\ consent' = consent
  BY DEF Return, history
<1> QED
  BY <1>1, <1>2, IdleLemma, CallMoves

\* A handler begins with the stored vault as its copy, or with none.
LEMMA BeginStep ==
    ASSUME IInv, NEW c \in Clients,
           NEW op \in OwnerOperations \cup RecipientOperations,
           NEW step \in {"assets", "load"}, NEW seen \in {vault, None},
           NEW file \in Files \cup {None},
           op \in SeeingOperations => seen = vault,
           op \in FileOperations => file \in Files,
           Begin(c, op, step, seen, file), uploaded' \subseteq Files,
           UNCHANGED <<vault, delivery, blobs, now, history>>
    PROVE  IInv'
<1> DEFINE k == [op |-> op, step |-> step, seen |-> seen, snap |-> None, file |-> file]
<1>1. vault # None /\ call' = [call EXCEPT ![c] = k]
  BY DEF Begin
<1>2. seen \in VaultDoc \cup {None} /\ Sound(seen)
  BY <1>1 DEF IInv, TypeOK, Sound
<1>3. k \in Call
  BY <1>2 DEF Call
<1>4. CallInv(k)
  BY <1>1, <1>2 DEF CallInv, Sound
<1>5. /\ vault' = vault /\ delivery' = delivery /\ now' = now /\ consent' = consent
      /\ blobs' \subseteq Files /\ discarded' \subseteq Files
  BY DEF history, IInv, TypeOK
<1> QED
  BY <1>1, <1>3, <1>4, <1>5, CallMoves

\* What a store operation works on.
LEMMA SnapLemma ==
    ASSUME IInv, NEW c \in Clients, call[c].step = "save"
    PROVE  /\ call[c] \in Call
           /\ call[c].snap \in VaultDoc
           /\ Consistent(call[c].snap)
           /\ call[c].op \in SeeingOperations =>
                  call[c].seen \in VaultDoc /\ Consistent(call[c].seen)
           /\ call[c].op \in FileOperations => call[c].file \in Files
           /\ now \in Nat
<1>1. call[c] \in Call /\ CallInv(call[c]) /\ now \in Nat
  BY DEF IInv, TypeOK
<1> QED
  BY <1>1 DEF Call, CallInv, Sound

-----------------------------------------------------------------------------
(* The frame of a call.                                                     *)

\* The document of POST /vaults satisfies the invariant.
LEMMA InitLemma == Init => IInv
<1> SUFFICES ASSUME Init PROVE IInv
  OBVIOUS
<1>1. PICK l \in RecipientList, t \in Thresholds, h \in Hours :
          /\ ValidThreshold(t, l.can_activate)
          /\ vault = NewVault(l.recipients, l.can_activate, t, h)
  BY DEF Init
<1>2. /\ l.recipients \in SUBSET Recipients /\ l.can_activate \in SUBSET l.recipients
      /\ t \in Nat \ {0} /\ h \in Nat \ {0}
  BY BoundsOK DEF RecipientList, Thresholds
<1>3. vault \in VaultDoc /\ Consistent(vault)
  BY <1>1, <1>2, NewVaultLemma
<1>4. TypeOK
  BY <1>3, IdleLemma DEF Init, TypeOK
<1>5. \A c \in Clients : CallInv(call[c])
  BY IdleLemma DEF Init
<1> QED
  BY <1>3, <1>4, <1>5 DEF IInv, Sound

\* The store operation's own read picks up a consistent document or none.
LEMMA LoadLemma ==
    ASSUME IInv, NEW c \in Clients, Load(c)
    PROVE  IInv'
<1>1. /\ vault' = vault /\ delivery' = delivery /\ blobs' \subseteq Files
      /\ uploaded' \subseteq Files /\ now' = now /\ consent' = consent
      /\ discarded' \subseteq Files
  BY DEF Load, history, IInv, TypeOK
<1>2. CASE vault = None
  <2>1. call' = [call EXCEPT ![c] = Idle]
    BY <1>2 DEF Load
  <2> QED
    BY <1>1, <2>1, IdleLemma, CallMoves
<1>3. CASE vault # None
  <2> DEFINE k == [call[c] EXCEPT !.step = "save", !.snap = vault]
  <2>1. call' = [call EXCEPT ![c] = k]
    BY <1>3 DEF Load
  <2>2. call[c] \in Call /\ CallInv(call[c]) /\ vault \in VaultDoc
    BY <1>3 DEF IInv, TypeOK
  <2>3. k \in Call
    BY <2>2 DEF Call
  <2>4. k.snap = vault /\ k.seen = call[c].seen /\ k.op = call[c].op /\ k.file = call[c].file
    BY <2>2 DEF Call
  <2>5. CallInv(k)
    BY <1>3, <2>2, <2>4 DEF CallInv, IInv
  <2> QED
    BY <1>1, <2>1, <2>3, <2>5, CallMoves
<1> QED
  BY <1>2, <1>3

\* The ways a call is broken off: the backend dies, or a request to a store fails.
BrokenOff(c) == Crash(c) \/ StoreFails(c) \/ BlobsFail(c)

\* A call broken off leaves a state every other call can live with.
LEMMA BrokenOffLemma ==
    ASSUME IInv, NEW c \in Clients, BrokenOff(c)
    PROVE  IInv'
<1>1. call' = [call EXCEPT ![c] = Idle]
  BY DEF BrokenOff, Crash, StoreFails, BlobsFail, Finish
<1>2. /\ vault' = vault /\ delivery' = delivery /\ blobs' \subseteq Files
      /\ uploaded' \subseteq Files /\ now' = now /\ consent' = consent
  BY DEF BrokenOff, Crash, StoreFails, BlobsFail, history, IInv, TypeOK
<1>3. discarded' \subseteq Files
  <2>1. call[c] \in Call /\ CallInv(call[c]) /\ discarded \subseteq Files
    BY DEF IInv, TypeOK
  <2>2. DeletesVault(c) => call[c].seen \in VaultDoc
    BY <2>1 DEF CallInv, Call, SeeingOperations, DeletesVault
  <2>3. DeletesVault(c) => call[c].seen.files \subseteq Files
    BY <2>2 DEF VaultDoc
  <2>4. BlobsFail(c) => discarded' \subseteq Files
    BY <2>1, <2>3 DEF BlobsFail
  <2>5. Crash(c) \/ StoreFails(c) => discarded' = discarded
    BY DEF Crash, StoreFails, history
  <2> QED
    BY <2>1, <2>4, <2>5 DEF BrokenOff
<1> QED
  BY <1>1, <1>2, <1>3, IdleLemma, CallMoves

\* Time alone disturbs nothing.
LEMMA TickLemma == ASSUME IInv, Tick PROVE IInv'
<1>1. now' \in Nat
  BY DEF Tick, IInv, TypeOK
<1>2. UNCHANGED <<vault, delivery, blobs, uploaded, call, consent, discarded>>
  BY DEF Tick, history
<1> QED
  BY <1>1, <1>2 DEF IInv, TypeOK, Sound

\* The handlers' own steps.
LEMMA StartLemma ==
    ASSUME IInv, NEW c \in Clients,
           \/ StartUpdateVault(c) \/ StartAddRecipient(c) \/ StartUpdatePermission(c)
           \/ StartDeleteRecipient(c) \/ StartRequestActivation(c) \/ StartWithdraw(c)
           \/ StartCheckIn(c) \/ StartUploadFile(c) \/ StartAssignFile(c)
           \/ StartDeleteFile(c) \/ StartDeleteVault(c) \/ StartDeleteAccount(c)
           \/ StartLeave(c)
    PROVE  IInv'
<1> USE DEF OwnerOperations, RecipientOperations, SeeingOperations, FileOperations
<1>0. uploaded \subseteq Files /\ (vault # None => vault.files \subseteq Files)
  BY DEF IInv, TypeOK, VaultDoc
<1>1. CASE StartUpdateVault(c)
  BY <1>0, <1>1, BeginStep DEF StartUpdateVault
<1>2. CASE StartAddRecipient(c)
  BY <1>0, <1>2, BeginStep DEF StartAddRecipient
<1>3. CASE StartUpdatePermission(c)
  BY <1>0, <1>3, BeginStep DEF StartUpdatePermission
<1>4. CASE StartDeleteRecipient(c)
  BY <1>0, <1>4, BeginStep DEF StartDeleteRecipient
<1>5. CASE StartRequestActivation(c)
  BY <1>0, <1>5, BeginStep DEF StartRequestActivation
<1>6. CASE StartWithdraw(c)
  BY <1>0, <1>6, BeginStep DEF StartWithdraw
<1>7. CASE StartCheckIn(c)
  BY <1>0, <1>7, BeginStep DEF StartCheckIn
<1>8. CASE StartUploadFile(c)
  <2>1. PICK f \in Files \ uploaded :
            Begin(c, "upload_file", "assets", vault, f) /\ uploaded' = uploaded \cup {f}
    BY <1>8 DEF StartUploadFile
  <2>2. uploaded' \subseteq Files
    BY <1>0, <2>1
  <2> QED
    BY <1>8, <2>1, <2>2, BeginStep DEF StartUploadFile
<1>9. CASE StartAssignFile(c)
  <2>1. PICK f \in Files : Begin(c, "assign_file", "load", vault, f)
    BY <1>0, <1>9 DEF StartAssignFile
  <2> QED
    BY <1>0, <1>9, <2>1, BeginStep DEF StartAssignFile
<1>10. CASE StartDeleteFile(c)
  <2>1. PICK f \in Files : Begin(c, "delete_file", "assets", None, f)
    BY <1>0, <1>10 DEF StartDeleteFile
  <2> QED
    BY <1>0, <1>10, <2>1, BeginStep DEF StartDeleteFile
<1>11. CASE StartDeleteVault(c)
  BY <1>0, <1>11, BeginStep DEF StartDeleteVault
<1>12. CASE StartDeleteAccount(c)
  BY <1>0, <1>12, BeginStep DEF StartDeleteAccount
<1>13. CASE StartLeave(c)
  BY <1>0, <1>13, BeginStep DEF StartLeave
<1> QED
  BY <1>1, <1>2, <1>3, <1>4, <1>5, <1>6, <1>7, <1>8, <1>9, <1>10, <1>11, <1>12, <1>13

-----------------------------------------------------------------------------
(* The store operations.                                                    *)

\* PATCH /vaults/{id}: the caller's fields over the document read are settled before the write.
LEMMA SaveUpdateVaultLemma ==
    ASSUME IInv, NEW c \in Clients, SaveUpdateVault(c)
    PROVE  IInv'
<1> DEFINE snap == call[c].snap
           recips(l) == IF l = None THEN snap ELSE l
           T(t) == IF t = None THEN snap.threshold ELSE t
           H(h) == IF h = None THEN snap.hours ELSE h
           w(l, t, h) == [snap EXCEPT !.recipients = recips(l).recipients,
                                      !.can_activate = recips(l).can_activate,
                                      !.threshold = T(t), !.hours = H(h)]
<1>1. snap \in VaultDoc /\ Consistent(snap) /\ now \in Nat
  BY SnapLemma DEF SaveUpdateVault, Saving
<1>2. PICK l \in RecipientList \cup {None}, t \in Thresholds \cup {None},
           h \in Hours \cup {None} :
          Replace(c, UpdateVault(w(l, t, h), now)) /\ consent' = consent \cap recips(l).can_activate
  BY <1>1 DEF SaveUpdateVault, VaultDoc
<1>3. recips(l).recipients \in SUBSET Recipients
      /\ recips(l).can_activate \in SUBSET recips(l).recipients
  BY <1>1 DEF RecipientList, VaultDoc, Consistent, ConsentOK
<1>4. T(t) \in Nat \ {0} /\ H(h) \in Nat \ {0}
  <2>1. snap.threshold \in Nat \ {0} /\ snap.hours \in Nat \ {0}
    BY <1>1 DEF VaultDoc
  <2>2. Thresholds \subseteq Nat \ {0} /\ Hours \subseteq Nat \ {0}
    BY BoundsOK DEF Thresholds
  <2>3. T(t) \in Nat \ {0}
    BY <1>2, <2>1, <2>2
  <2>4. H(h) \in Nat \ {0}
    BY <1>2, <2>1, <2>2
  <2> QED
    BY <2>3, <2>4
<1>5. Mergeable(w(l, t, h))
  BY <1>1, <1>3, <1>4, MergeRecipientsLemma
<1> HIDE DEF w
<1>6. UpdateVault(w(l, t, h), now) \in VaultDoc /\ Consistent(UpdateVault(w(l, t, h), now))
  BY <1>1, <1>5, UpdateVaultLemma
<1>7. consent' \subseteq Recipients /\ blobs' \subseteq Files /\ discarded' = discarded
  BY <1>2 DEF SaveUpdateVault, IInv, TypeOK
<1> QED
  BY <1>2, <1>6, <1>7, ReplaceStep

\* The three recipient operations (and leaving a vault) preserve the invariant.
LEMMA SaveRecipientLemma ==
    ASSUME IInv, NEW c \in Clients,
           SaveAddRecipient(c) \/ SaveUpdatePermission(c) \/ SaveDeleteRecipient(c)
    PROVE  IInv'
<1> DEFINE snap == call[c].snap
<1>1. snap \in VaultDoc /\ Consistent(snap) /\ now \in Nat
  BY SnapLemma DEF SaveAddRecipient, SaveUpdatePermission, SaveDeleteRecipient, Saving
<1>2. consent \subseteq Recipients /\ blobs \subseteq Files
  BY DEF IInv, TypeOK
<1>3. CASE SaveAddRecipient(c)
  <2>1. PICK r \in Recipients, can \in BOOLEAN :
            Replace(c, AddRecipientToVault(snap, r, can, now))
    BY <1>3 DEF SaveAddRecipient
  <2>2. /\ AddRecipientToVault(snap, r, can, now) \in VaultDoc
        /\ Consistent(AddRecipientToVault(snap, r, can, now))
    BY <1>1, AddRecipientLemma
  <2>3. blobs' \subseteq Files /\ consent' \subseteq Recipients /\ discarded' = discarded
    BY <1>2, <1>3 DEF SaveAddRecipient, history
  <2> QED
    BY <2>1, <2>2, <2>3, ReplaceStep
<1>4. CASE SaveUpdatePermission(c)
  <2>1. PICK r \in Recipients, can \in BOOLEAN :
            \/ Return(c)
            \/ /\ r \in snap.recipients
               /\ Replace(c, UpdateRecipientActivationPermission(snap, r, can, now))
               /\ consent' = IF can THEN consent ELSE consent \ {r}
               /\ UNCHANGED <<blobs, discarded>>
    BY <1>4 DEF SaveUpdatePermission
  <2>2. CASE Return(c)
    BY <2>2, ReturnStep
  <2>3. CASE ~Return(c)
    <3>1. /\ UpdateRecipientActivationPermission(snap, r, can, now) \in VaultDoc
          /\ Consistent(UpdateRecipientActivationPermission(snap, r, can, now))
      BY <1>1, <2>1, <2>3, UpdatePermissionLemma
    <3>2. blobs' \subseteq Files /\ consent' \subseteq Recipients /\ discarded' = discarded
      BY <1>2, <2>1, <2>3
    <3> QED
      BY <2>1, <2>3, <3>1, <3>2, ReplaceStep
  <2> QED
    BY <2>2, <2>3
<1>5. CASE SaveDeleteRecipient(c)
  <2>1. PICK r \in Recipients : /\ Replace(c, RemoveRecipientFromVault(snap, r, now))
                                /\ consent' = consent \ {r}
    BY <1>5 DEF SaveDeleteRecipient
  <2>2. /\ RemoveRecipientFromVault(snap, r, now) \in VaultDoc
        /\ Consistent(RemoveRecipientFromVault(snap, r, now))
    BY <1>1, RemoveRecipientLemma
  <2>3. blobs' \subseteq Files /\ consent' \subseteq Recipients /\ discarded' = discarded
    BY <1>2, <1>5, <2>1 DEF SaveDeleteRecipient
  <2> QED
    BY <2>1, <2>2, <2>3, ReplaceStep
<1> QED
  BY <1>3, <1>4, <1>5

\* Requests, withdrawals and check-ins preserve the invariant.
LEMMA SaveActivationLemma ==
    ASSUME IInv, NEW c \in Clients,
           SaveRequestActivation(c) \/ SaveWithdraw(c) \/ SaveCheckIn(c)
    PROVE  IInv'
<1> DEFINE snap == call[c].snap
<1>1. snap \in VaultDoc /\ Consistent(snap) /\ now \in Nat
  BY SnapLemma DEF SaveRequestActivation, SaveWithdraw, SaveCheckIn, Saving
<1>2. consent \subseteq Recipients /\ blobs \subseteq Files
  BY DEF IInv, TypeOK
<1>3. CASE Return(c)
  BY <1>3, ReturnStep
<1>4. CASE SaveRequestActivation(c) /\ ~Return(c)
  <2>1. PICK r \in Recipients : /\ MayRequestActivation(snap, r)
                                /\ Replace(c, AddActivationRequest(snap, r, now))
                                /\ consent' = consent \cup {r}
                                /\ UNCHANGED <<blobs, discarded>>
    BY <1>4 DEF SaveRequestActivation
  <2>2. /\ AddActivationRequest(snap, r, now) \in VaultDoc
        /\ Consistent(AddActivationRequest(snap, r, now))
    BY <1>1, <2>1, AddRequestLemma
  <2>3. blobs' \subseteq Files /\ consent' \subseteq Recipients /\ discarded' = discarded
    BY <1>2, <2>1
  <2> QED
    BY <2>1, <2>2, <2>3, ReplaceStep
<1>5. CASE SaveWithdraw(c) /\ ~Return(c)
  <2>1. PICK r : /\ Replace(c, RemoveActivationRequest(snap, r, now))
                 /\ consent' = consent \ {r}
                 /\ UNCHANGED <<blobs, discarded>>
    BY <1>5 DEF SaveWithdraw
  <2>2. /\ RemoveActivationRequest(snap, r, now) \in VaultDoc
        /\ Consistent(RemoveActivationRequest(snap, r, now))
    BY <1>1, RemoveRequestLemma
  <2>3. blobs' \subseteq Files /\ consent' \subseteq Recipients /\ discarded' = discarded
    BY <1>2, <2>1
  <2> QED
    BY <2>1, <2>2, <2>3, ReplaceStep
<1>6. CASE SaveCheckIn(c) /\ ~Return(c)
  <2>1. Replace(c, CheckInVault(snap)) /\ consent' = {} /\ UNCHANGED <<blobs, discarded>>
    BY <1>6 DEF SaveCheckIn
  <2>2. CheckInVault(snap) \in VaultDoc /\ Consistent(CheckInVault(snap))
    BY <1>1, CheckInLemma
  <2>3. blobs' \subseteq Files /\ consent' \subseteq Recipients /\ discarded' = discarded
    BY <1>2, <2>1
  <2> QED
    BY <2>1, <2>2, <2>3, ReplaceStep
<1> QED
  BY <1>3, <1>4, <1>5, <1>6

\* A write of a call adds no packages and begins no delivery.
Follows(w, v) == /\ w.packages = v.packages
                 /\ w.status \in VAULT_ACTIVATION_TERMINAL_STATUSES =>
                       v.status \in VAULT_ACTIVATION_TERMINAL_STATUSES

\* The document both file handlers write: the handler's list with one entry renewed.
LEMMA FileListLemma ==
    ASSUME IInv, NEW c \in Clients, call[c].step = "save",
           call[c].op \in {"upload_file", "assign_file"},
           NEW to \in SUBSET call[c].seen.recipients, SaveFileList(c, to)
    PROVE  \E doc \in VaultDoc : /\ Consistent(doc)
                                 /\ doc.files = call[c].seen.files \cup {call[c].file}
                                 /\ Follows(doc, call[c].snap)
                                 /\ Replace(c, doc)
<1> DEFINE snap == call[c].snap
           seen == call[c].seen
           f == call[c].file
           F == seen.files \cup {f}
           A == {a \in seen.assigned : a[1] # f} \cup ({f} \X to)
           w == WithFiles(snap, F, A)
<1>1. /\ snap \in VaultDoc /\ Consistent(snap) /\ now \in Nat
      /\ seen \in VaultDoc /\ Consistent(seen) /\ f \in Files
  BY SnapLemma DEF SeeingOperations, FileOperations
<1>2. seen.assigned \subseteq seen.files \X Recipients /\ to \subseteq Recipients
      /\ F \in SUBSET Files
  BY <1>1 DEF Consistent, FilesOK, VaultDoc
<1>3. A \in SUBSET (F \X Recipients)
  BY <1>2
<1>4. Replace(c, UpdateVault(w, now))
  BY DEF SaveFileList, WithFiles
<1> HIDE DEF A, F, snap
<1>5. Mergeable(w) /\ w.files = F /\ w.packages = snap.packages /\ w.status = snap.status
  BY <1>1, <1>2, <1>3, MergeFilesLemma
<1> HIDE DEF w
<1>6. /\ UpdateVault(w, now) \in VaultDoc /\ Consistent(UpdateVault(w, now))
      /\ UpdateVault(w, now).files = F /\ Follows(UpdateVault(w, now), snap)
  BY <1>1, <1>5, UpdateVaultLemma DEF Carries, Follows
<1> QED
  BY <1>4, <1>6 DEF F, snap

\* A step of a call that changes blobs before the document is touched.
LEMMA AssetsLemma ==
    ASSUME IInv, NEW c \in Clients,
           StoreBytes(c) \/ DropBytes(c) \/ DeleteVaultAssets(c)
    PROVE  IInv'
<1> DEFINE k == [call[c] EXCEPT !.step = "load"]
<1>1. call[c] \in Call /\ CallInv(call[c])
  BY DEF IInv, TypeOK
<1>2. call' = [call EXCEPT ![c] = k]
  BY DEF StoreBytes, DropBytes, DeleteVaultAssets, IInv, TypeOK
<1>3. k \in Call
  BY <1>1 DEF Call
<1>4. /\ k.seen = call[c].seen /\ k.snap = call[c].snap /\ k.op = call[c].op
      /\ k.file = call[c].file /\ k.step = "load"
  BY <1>1 DEF Call
<1>5. CallInv(k)
  BY <1>1, <1>4 DEF CallInv
<1>6. /\ call[c].op \in FileOperations => call[c].file \in Files
      /\ DeletesVault(c) => call[c].seen \in VaultDoc
  BY <1>1 DEF CallInv, Call, SeeingOperations, DeletesVault
<1>7. DeletesVault(c) => call[c].seen.files \subseteq Files
  BY <1>6 DEF VaultDoc
<1>8. blobs' \subseteq Files /\ discarded' \subseteq Files
  BY <1>6, <1>7 DEF StoreBytes, DropBytes, DeleteVaultAssets, IInv, TypeOK, history,
                    FileOperations
<1>9. /\ vault' = vault /\ delivery' = delivery /\ uploaded' \subseteq Files
      /\ now' = now /\ consent' = consent
  BY DEF StoreBytes, DropBytes, DeleteVaultAssets, IInv, TypeOK, history
<1> QED
  BY <1>2, <1>3, <1>5, <1>8, <1>9, CallMoves

\* Uploads, assignments and file deletions preserve the invariant.
LEMMA SaveFileLemma ==
    ASSUME IInv, NEW c \in Clients,
           SaveUploadFile(c) \/ SaveAssignFile(c) \/ SaveDeleteFile(c)
    PROVE  IInv'
<1>1. consent' \subseteq Recipients /\ blobs' \subseteq Files /\ discarded' = discarded
  BY DEF SaveUploadFile, SaveAssignFile, SaveDeleteFile, history, IInv, TypeOK
<1>2. CASE SaveUploadFile(c) \/ SaveAssignFile(c)
  <2>1. \E doc \in VaultDoc : Consistent(doc) /\ Replace(c, doc)
    BY <1>2, FileListLemma DEF SaveUploadFile, SaveAssignFile, Saving
  <2> QED
    BY <1>1, <2>1, ReplaceStep
<1>3. CASE SaveDeleteFile(c)
  <2>1. call[c].snap \in VaultDoc /\ Consistent(call[c].snap) /\ call[c].file \in Files
    BY <1>3, SnapLemma DEF SaveDeleteFile, Saving, FileOperations
  <2>2. /\ RemoveFileFromVault(call[c].snap, call[c].file) \in VaultDoc
        /\ Consistent(RemoveFileFromVault(call[c].snap, call[c].file))
    BY <2>1, RemoveFileLemma
  <2> QED
    BY <1>1, <1>3, <2>2, ReplaceStep DEF SaveDeleteFile
<1> QED
  BY <1>2, <1>3

\* Deleting the document and its twin preserves the invariant.
LEMMA DeleteVaultLemma ==
    ASSUME IInv, NEW c \in Clients, DeleteDocument(c) \/ PurgeDelivery(c)
    PROVE  IInv'
<1> DEFINE k == [call[c] EXCEPT !.step = "purge", !.snap = None]
<1>1. call[c] \in Call /\ CallInv(call[c])
  BY DEF IInv, TypeOK
<1>2. k \in Call
  BY <1>1 DEF Call
<1>3. k.seen = call[c].seen /\ k.snap = None /\ k.op = call[c].op
      /\ k.file = call[c].file /\ k.step = "purge"
  BY <1>1 DEF Call
<1>4. CallInv(k)
  BY <1>1, <1>3 DEF CallInv, Sound
<1>5. /\ blobs' \subseteq Files /\ uploaded' \subseteq Files /\ now' \in Nat
      /\ consent' \subseteq Recipients /\ discarded' \subseteq Files
      /\ delivery' \in Statuses \cup {None}
      /\ vault' \in VaultDoc \cup {None} /\ Sound(vault')
  BY DEF DeleteDocument, PurgeDelivery, history, IInv, TypeOK, Sound
<1>6. CASE DeleteDocument(c) /\ vault # None
  <2>1. call' = [call EXCEPT ![c] = k]
    BY <1>6 DEF DeleteDocument
  <2> QED
    BY <1>2, <1>4, <1>5, <2>1, CallStep
<1>7. CASE ~(DeleteDocument(c) /\ vault # None)
  <2>1. call' = [call EXCEPT ![c] = Idle]
    BY <1>7 DEF DeleteDocument, PurgeDelivery, Finish
  <2> QED
    BY <1>5, <2>1, IdleLemma, CallStep
<1> QED
  BY <1>6, <1>7

-----------------------------------------------------------------------------
(* The theorems.                                                            *)

\* Every step of a call preserves the invariant.
LEMMA ApiStepLemma ==
    ASSUME IInv, NEW c \in Clients, ApiStep(c)
    PROVE  IInv'
<1>1. CASE RecipientSteps(c)
  BY <1>1, StartLemma, SaveUpdateVaultLemma, SaveRecipientLemma DEF RecipientSteps
<1>2. CASE ActivationSteps(c)
  BY <1>2, StartLemma, SaveActivationLemma DEF ActivationSteps
<1>3. CASE FileSteps(c)
  BY <1>3, StartLemma, AssetsLemma, SaveFileLemma, DeleteVaultLemma DEF FileSteps
<1>4. CASE Load(c) \/ BrokenOff(c)
  BY <1>4, LoadLemma, BrokenOffLemma
<1> QED
  BY <1>1, <1>2, <1>3, <1>4 DEF ApiStep, BrokenOff

\* IInv is an inductive invariant of the specification.
LEMMA InvariantLemma == Spec => []IInv
<1>1. IInv /\ [Next]_storeVars => IInv'
  <2> SUFFICES ASSUME IInv, [Next]_storeVars PROVE IInv'
    OBVIOUS
  <2>1. CASE Tick
    BY <2>1, TickLemma
  <2>2. ASSUME NEW c \in Clients, ApiStep(c) PROVE IInv'
    BY <2>2, ApiStepLemma
  <2>3. CASE UNCHANGED storeVars
    BY <2>3 DEF storeVars, IInv, TypeOK, Sound
  <2> QED
    BY <2>1, <2>2, <2>3 DEF Next
<1> QED
  BY <1>1, InitLemma, PTL DEF Spec

\* The state is well typed: in particular no normalisation ever stores a threshold of
\* zero, which would start a grace period nobody asked for.
THEOREM TypeCorrect == Spec => []TypeOK
<1>1. IInv => TypeOK
  BY DEF IInv
<1> QED
  BY <1>1, InvariantLemma, PTL

\* Whatever the interleaving of reads and whole-document writes, and wherever the
\* backend dies, the stored document agrees with itself.
THEOREM DocumentStaysConsistent == Spec => []DocumentConsistent
<1>1. IInv => DocumentConsistent
  BY DEF IInv, Sound, DocumentConsistent
<1> QED
  BY <1>1, InvariantLemma, PTL

\* No step of a call creates the document.
LEMMA DeletedLemma ==
    ASSUME NEW c \in Clients, ApiStep(c), vault = None
    PROVE  vault' = None
<1>1. CASE RecipientSteps(c)
  BY <1>1 DEF RecipientSteps, StartUpdateVault, SaveUpdateVault, StartAddRecipient,
              SaveAddRecipient, StartUpdatePermission, SaveUpdatePermission,
              StartDeleteRecipient, StartLeave, SaveDeleteRecipient, Replace, Return
<1>2. CASE ActivationSteps(c)
  BY <1>2 DEF ActivationSteps, StartRequestActivation, SaveRequestActivation,
              StartWithdraw, SaveWithdraw, StartCheckIn, SaveCheckIn, Replace, Return
<1>3. CASE FileSteps(c)
  BY <1>3 DEF FileSteps, StartUploadFile, StoreBytes, SaveUploadFile, SaveFileList,
              StartAssignFile, SaveAssignFile, StartDeleteFile, DropBytes, SaveDeleteFile,
              StartDeleteVault, StartDeleteAccount, DeleteVaultAssets, DeleteDocument, PurgeDelivery, Replace
<1>4. CASE Load(c) \/ BrokenOff(c)
  BY <1>4 DEF Load, BrokenOff, Crash, StoreFails, BlobsFail
<1> QED
  BY <1>1, <1>2, <1>3, <1>4 DEF ApiStep, BrokenOff

\* A call still in progress when the vault is deleted never brings it back.
THEOREM DeletedForever == Spec => DeletedStaysDeleted
<1>1. [Next]_storeVars => [vault = None => vault' = None]_storeVars
  BY DeletedLemma DEF Next, Tick
<1> QED
  BY <1>1, PTL DEF Spec, DeletedStaysDeleted

-----------------------------------------------------------------------------
(* What a write of a call is made from.                                     *)

\* The stored document changes only by a write made from the copy the store operation
\* read; its files are those of that copy, or the list a file handler built.
LEMMA ApiWrites ==
    ASSUME IInv, NEW c \in Clients, ApiStep(c), vault' # None
    PROVE  \/ vault' = vault
           \/ /\ call[c].step = "save" /\ call[c].snap \in VaultDoc
              /\ Follows(vault', call[c].snap)
              /\ \/ vault'.files \subseteq call[c].snap.files
                 \/ /\ call[c].op \in {"upload_file", "assign_file"}
                    /\ vault'.files = call[c].seen.files \cup {call[c].file}
<1> DEFINE snap == call[c].snap
           From(doc) == Follows(doc, snap) /\ doc.files \subseteq snap.files
<1>0. vault # None
  BY DeletedLemma
<1>1. ASSUME NEW doc, Carries(doc, snap) PROVE From(doc)
  BY <1>1 DEF Carries, Follows
<1>2. ASSUME call[c].step = "save"
      PROVE  snap \in VaultDoc /\ Consistent(snap) /\ now \in Nat
  BY <1>2, SnapLemma
<1>3. CASE SaveUpdateVault(c)
  <2> DEFINE recips(l) == IF l = None THEN snap ELSE l
             T(t) == IF t = None THEN snap.threshold ELSE t
             H(h) == IF h = None THEN snap.hours ELSE h
             w(l, t, h) == [snap EXCEPT !.recipients = recips(l).recipients,
                                        !.can_activate = recips(l).can_activate,
                                        !.threshold = T(t), !.hours = H(h)]
  <2>1. call[c].step = "save" /\ snap \in VaultDoc /\ Consistent(snap) /\ now \in Nat
    BY <1>2, <1>3 DEF SaveUpdateVault, Saving
  <2>2. PICK l \in RecipientList \cup {None}, t \in Thresholds \cup {None},
             h \in Hours \cup {None} : Replace(c, UpdateVault(w(l, t, h), now))
    BY <1>3, <2>1 DEF SaveUpdateVault, VaultDoc
  <2>3. recips(l).recipients \in SUBSET Recipients
        /\ recips(l).can_activate \in SUBSET recips(l).recipients
    BY <2>1 DEF RecipientList, VaultDoc, Consistent, ConsentOK
  <2>4. T(t) \in Nat \ {0} /\ H(h) \in Nat \ {0}
    <3>1. snap.threshold \in Nat \ {0} /\ snap.hours \in Nat \ {0}
      BY <2>1 DEF VaultDoc
    <3>2. Thresholds \subseteq Nat \ {0} /\ Hours \subseteq Nat \ {0}
      BY BoundsOK DEF Thresholds
    <3>3. T(t) \in Nat \ {0}
      BY <2>2, <3>1, <3>2
    <3>4. H(h) \in Nat \ {0}
      BY <2>2, <3>1, <3>2
    <3> QED
      BY <3>3, <3>4
  <2>5. Mergeable(w(l, t, h)) /\ Carries(w(l, t, h), snap)
    BY <2>1, <2>3, <2>4, MergeRecipientsLemma, ZenonT(30)
  <2> HIDE DEF w
  <2>6. Carries(UpdateVault(w(l, t, h), now), snap)
    BY <2>1, <2>5, UpdateVaultLemma DEF Carries
  <2>7. From(UpdateVault(w(l, t, h), now)) /\ vault' = UpdateVault(w(l, t, h), now)
    BY <1>0, <1>1, <2>2, <2>6 DEF Replace
  <2> QED
    BY <2>1, <2>7
<1>4. CASE SaveAddRecipient(c) \/ SaveUpdatePermission(c) \/ SaveDeleteRecipient(c)
  <2>1. call[c].step = "save" /\ snap \in VaultDoc /\ Consistent(snap) /\ now \in Nat
    BY <1>2, <1>4 DEF SaveAddRecipient, SaveUpdatePermission, SaveDeleteRecipient, Saving
  <2>2. CASE SaveAddRecipient(c)
    <3>1. PICK r \in Recipients, can \in BOOLEAN :
              Replace(c, AddRecipientToVault(snap, r, can, now))
      BY <2>2 DEF SaveAddRecipient
    <3>2. From(AddRecipientToVault(snap, r, can, now))
      BY <1>1, <2>1, AddRecipientLemma
    <3> QED
      BY <1>0, <2>1, <3>1, <3>2 DEF Replace
  <2>3. CASE SaveUpdatePermission(c)
    <3>1. PICK r \in Recipients, can \in BOOLEAN :
              \/ vault' = vault
              \/ /\ r \in snap.recipients
                 /\ Replace(c, UpdateRecipientActivationPermission(snap, r, can, now))
      BY <2>3 DEF SaveUpdatePermission, Return
    <3>2. r \in snap.recipients =>
              From(UpdateRecipientActivationPermission(snap, r, can, now))
      BY <1>1, <2>1, UpdatePermissionLemma
    <3> QED
      BY <1>0, <2>1, <3>1, <3>2 DEF Replace
  <2>4. CASE SaveDeleteRecipient(c)
    <3>1. PICK r \in Recipients : Replace(c, RemoveRecipientFromVault(snap, r, now))
      BY <2>4 DEF SaveDeleteRecipient
    <3>2. From(RemoveRecipientFromVault(snap, r, now))
      BY <1>1, <2>1, RemoveRecipientLemma
    <3> QED
      BY <1>0, <2>1, <3>1, <3>2 DEF Replace
  <2> QED
    BY <1>4, <2>2, <2>3, <2>4
<1>5. CASE SaveRequestActivation(c) \/ SaveWithdraw(c) \/ SaveCheckIn(c)
  <2>1. call[c].step = "save" /\ snap \in VaultDoc /\ Consistent(snap) /\ now \in Nat
    BY <1>2, <1>5 DEF SaveRequestActivation, SaveWithdraw, SaveCheckIn, Saving
  <2>2. \/ vault' = vault
        \/ \E r : MayRequestActivation(snap, r) /\ Replace(c, AddActivationRequest(snap, r, now))
        \/ \E r : Replace(c, RemoveActivationRequest(snap, r, now))
        \/ Replace(c, CheckInVault(snap))
    BY <1>5 DEF SaveRequestActivation, SaveWithdraw, SaveCheckIn, Return
  <2>3. \A r : MayRequestActivation(snap, r) => From(AddActivationRequest(snap, r, now))
    BY <1>1, <2>1, AddRequestLemma
  <2>4. \A r : From(RemoveActivationRequest(snap, r, now))
    BY <1>1, <2>1, RemoveRequestLemma
  <2>5. From(CheckInVault(snap))
    BY <1>1, <2>1, CheckInLemma
  <2>6. vault' = vault \/ From(vault')
    BY <1>0, <2>2, <2>3, <2>4, <2>5 DEF Replace
  <2> QED
    BY <2>1, <2>6
<1>6. CASE SaveUploadFile(c) \/ SaveAssignFile(c)
  <2>1. call[c].step = "save" /\ call[c].op \in {"upload_file", "assign_file"}
    BY <1>6 DEF SaveUploadFile, SaveAssignFile, Saving
  <2>2. PICK doc \in VaultDoc : /\ doc.files = call[c].seen.files \cup {call[c].file}
                                /\ Follows(doc, snap)
                                /\ Replace(c, doc)
    BY <1>6, <2>1, FileListLemma DEF SaveUploadFile, SaveAssignFile
  <2> QED
    BY <1>0, <1>2, <2>1, <2>2 DEF Replace
<1>7. CASE SaveDeleteFile(c)
  <2> DEFINE doc == RemoveFileFromVault(snap, call[c].file)
  <2>1. call[c].step = "save" /\ snap \in VaultDoc /\ Consistent(snap) /\ call[c].file \in Files
    BY <1>2, <1>7, SnapLemma DEF SaveDeleteFile, Saving, FileOperations
  <2>2. doc.files \subseteq snap.files /\ doc.packages = snap.packages /\ doc.status = snap.status
    BY <2>1, RemoveFileLemma
  <2>3. vault' = doc
    BY <1>0, <1>7 DEF SaveDeleteFile, Replace
  <2> QED
    BY <2>1, <2>2, <2>3 DEF Follows
<1>8. CASE \/ StartUpdateVault(c) \/ StartAddRecipient(c) \/ StartUpdatePermission(c)
           \/ StartDeleteRecipient(c) \/ StartRequestActivation(c) \/ StartWithdraw(c)
           \/ StartCheckIn(c) \/ StartUploadFile(c) \/ StartAssignFile(c)
           \/ StartDeleteFile(c) \/ StartDeleteVault(c) \/ StartDeleteAccount(c)
           \/ StartLeave(c)
  BY <1>8 DEF StartUpdateVault, StartAddRecipient, StartUpdatePermission,
       StartDeleteRecipient, StartRequestActivation, StartWithdraw, StartCheckIn,
       StartUploadFile, StartAssignFile, StartDeleteFile, StartDeleteVault,
       StartDeleteAccount, StartLeave
<1>9. CASE \/ StoreBytes(c) \/ DropBytes(c) \/ DeleteVaultAssets(c) \/ DeleteDocument(c)
           \/ PurgeDelivery(c) \/ Load(c) \/ BrokenOff(c)
  BY <1>9 DEF StoreBytes, DropBytes, DeleteVaultAssets, DeleteDocument,
       PurgeDelivery, Load, BrokenOff, Crash, StoreFails, BlobsFail
<1> QED
  BY <1>3, <1>4, <1>5, <1>6, <1>7, <1>8, <1>9
     DEF ApiStep, BrokenOff, RecipientSteps, ActivationSteps, FileSteps

\* A call picks up no copy but that of the stored document.
LEMMA ApiCopies ==
    ASSUME IInv, NEW c \in Clients, ApiStep(c)
    PROVE  \E k : /\ call' = [call EXCEPT ![c] = k]
                  /\ k.snap \in {None, vault, call[c].snap}
<1>1. CASE call' = [call EXCEPT ![c] = Idle]
  <2>1. Idle.snap = None
    BY DEF Idle
  <2> QED
    BY <1>1, <2>1
<1>2. call[c] \in Call
  BY DEF IInv, TypeOK
<1>3. CASE \E op, step, seen, file : Begin(c, op, step, seen, file)
  <2>1. PICK op, step, seen, file : Begin(c, op, step, seen, file)
    BY <1>3
  <2> DEFINE k == [op |-> op, step |-> step, seen |-> seen, snap |-> None, file |-> file]
  <2>2. call' = [call EXCEPT ![c] = k] /\ k.snap = None
    BY <2>1 DEF Begin
  <2> HIDE DEF k
  <2> QED
    BY <2>2
<1>4. CASE \/ StartUpdateVault(c) \/ StartAddRecipient(c) \/ StartUpdatePermission(c)
           \/ StartDeleteRecipient(c) \/ StartRequestActivation(c) \/ StartWithdraw(c)
           \/ StartCheckIn(c) \/ StartUploadFile(c) \/ StartAssignFile(c)
           \/ StartDeleteFile(c) \/ StartDeleteVault(c) \/ StartDeleteAccount(c)
           \/ StartLeave(c)
  BY <1>3, <1>4 DEF StartUpdateVault, StartAddRecipient, StartUpdatePermission,
       StartDeleteRecipient, StartRequestActivation, StartWithdraw, StartCheckIn,
       StartUploadFile, StartAssignFile, StartDeleteFile, StartDeleteVault,
       StartDeleteAccount, StartLeave
<1>5. CASE StoreBytes(c) \/ DropBytes(c) \/ DeleteVaultAssets(c)
  <2> DEFINE k == [call[c] EXCEPT !.step = "load"]
  <2>1. call' = [call EXCEPT ![c] = k]
    BY <1>2, <1>5 DEF StoreBytes, DropBytes, DeleteVaultAssets, IInv, TypeOK
  <2>2. k.snap = call[c].snap
    BY <1>2 DEF Call
  <2> QED
    BY <2>1, <2>2
<1>6. CASE Load(c) /\ vault # None
  <2> DEFINE k == [call[c] EXCEPT !.step = "save", !.snap = vault]
  <2>1. call' = [call EXCEPT ![c] = k]
    BY <1>6 DEF Load
  <2>2. k.snap = vault
    BY <1>2 DEF Call
  <2> QED
    BY <2>1, <2>2
<1>7. CASE DeleteDocument(c) /\ vault # None
  <2> DEFINE k == [call[c] EXCEPT !.step = "purge", !.snap = None]
  <2>1. call' = [call EXCEPT ![c] = k]
    BY <1>7 DEF DeleteDocument
  <2>2. k.snap = None
    BY <1>2 DEF Call
  <2> QED
    BY <2>1, <2>2
<1>8. CASE (Load(c) \/ DeleteDocument(c)) /\ vault = None
  BY <1>1, <1>8 DEF Load, DeleteDocument
<1>9. CASE \/ SaveUpdateVault(c) \/ SaveAddRecipient(c) \/ SaveUpdatePermission(c)
           \/ SaveDeleteRecipient(c) \/ SaveRequestActivation(c) \/ SaveWithdraw(c)
           \/ SaveCheckIn(c) \/ SaveUploadFile(c) \/ SaveAssignFile(c)
           \/ SaveDeleteFile(c) \/ BrokenOff(c) \/ PurgeDelivery(c)
  BY <1>1, <1>9 DEF SaveUpdateVault, SaveAddRecipient, SaveUpdatePermission,
       SaveDeleteRecipient, SaveRequestActivation, SaveWithdraw, SaveCheckIn,
       SaveUploadFile, SaveAssignFile, SaveFileList, SaveDeleteFile, BrokenOff, Crash,
       StoreFails, BlobsFail, PurgeDelivery, Replace, Return, Finish
<1> QED
  BY <1>4, <1>5, <1>6, <1>7, <1>8, <1>9
     DEF ApiStep, BrokenOff, RecipientSteps, ActivationSteps, FileSteps

-----------------------------------------------------------------------------
(* No file loses its bytes unasked.  A blob name is never reused, so the    *)
(* file of an upload in progress is named by no stored document, no copy    *)
(* and no other upload: a rollback takes bytes nobody names.  But for these *)
(* rollbacks the set of files that are stored or were discarded on request  *)
(* only grows while the vault exists, and it contains every file of every   *)
(* copy that may still be written back.                                     *)

CopyFiles(v) == IF v = None THEN {} ELSE v.files

\* The files a call may write into the document, and the one it is uploading.
Named(k) == CopyFiles(k.seen) \cup CopyFiles(k.snap)
            \cup (IF k.op = "assign_file" THEN {k.file} ELSE {})
Own(k) == IF k.op = "upload_file" THEN {k.file} ELSE {}

FreshInv ==
    /\ CopyFiles(vault) \subseteq uploaded
    /\ \A c \in Clients : /\ Named(call[c]) \cup Own(call[c]) \subseteq uploaded
                          /\ Own(call[c]) \cap CopyFiles(vault) = {}
    /\ \A c, d \in Clients : /\ Own(call[c]) \cap Named(call[d]) = {}
                             /\ c # d => Own(call[c]) \cap Own(call[d]) = {}

\* What the steps of a call have in common: a copy comes from the stored document, an
\* upload's file is a new one, a write names files of the call's copies or its own.
LEMMA FreshStep ==
    ASSUME IInv, FreshInv, NEW c \in Clients, NEW k, call' = [call EXCEPT ![c] = k],
           uploaded \subseteq uploaded', Own(k) \subseteq uploaded',
           Named(k) \subseteq Named(call[c]) \cup CopyFiles(vault),
           Own(k) \subseteq Own(call[c]) \cup (Files \ uploaded),
           \/ CopyFiles(vault') \subseteq CopyFiles(vault)
           \/ /\ Own(k) = {}
              /\ CopyFiles(vault') \subseteq Named(call[c]) \cup Own(call[c])
    PROVE  FreshInv'
<1>1. call'[c] = k /\ \A d \in Clients : d # c => call'[d] = call[d]
  BY DEF IInv, TypeOK
<1>2. /\ CopyFiles(vault) \subseteq uploaded
      /\ \A d \in Clients : /\ Named(call[d]) \cup Own(call[d]) \subseteq uploaded
                            /\ Own(call[d]) \cap CopyFiles(vault) = {}
      /\ \A d, e \in Clients : /\ Own(call[d]) \cap Named(call[e]) = {}
                               /\ d # e => Own(call[d]) \cap Own(call[e]) = {}
  BY DEF FreshInv
<1>3. Named(k) \subseteq uploaded /\ CopyFiles(vault') \subseteq uploaded
  BY <1>2
<1>4. ASSUME NEW d \in Clients
      PROVE  /\ Named(call'[d]) \cup Own(call'[d]) \subseteq uploaded'
             /\ Own(call'[d]) \cap CopyFiles(vault') = {}
  <2>1. CASE d = c
    BY <1>1, <1>2, <1>3, <2>1
  <2>2. CASE d # c
    BY <1>1, <1>2, <2>2
  <2> QED
    BY <2>1, <2>2
<1>5. ASSUME NEW d \in Clients, NEW e \in Clients
      PROVE  /\ Own(call'[d]) \cap Named(call'[e]) = {}
             /\ d # e => Own(call'[d]) \cap Own(call'[e]) = {}
  <2>1. CASE d = c /\ e = c
    BY <1>1, <1>2, <1>3, <2>1
  <2>2. CASE d = c /\ e # c
    BY <1>1, <1>2, <2>2
  <2>3. CASE d # c /\ e = c
    BY <1>1, <1>2, <2>3
  <2>4. CASE d # c /\ e # c
    BY <1>1, <1>2, <2>4
  <2> QED
    BY <2>1, <2>2, <2>3, <2>4
<1>6. FreshInv' = (/\ CopyFiles(vault') \subseteq uploaded'
                   /\ \A d \in Clients : /\ Named(call'[d]) \cup Own(call'[d]) \subseteq uploaded'
                                         /\ Own(call'[d]) \cap CopyFiles(vault') = {}
                   /\ \A d, e \in Clients : /\ Own(call'[d]) \cap Named(call'[e]) = {}
                                            /\ d # e => Own(call'[d]) \cap Own(call'[e]) = {})
  BY DEF FreshInv, Named, Own, CopyFiles
<1> QED
  BY <1>3, <1>4, <1>5, <1>6

\* An idle client names nothing and uploads nothing.
LEMMA IdleFresh == Named(Idle) = {} /\ Own(Idle) = {}
BY DEF Idle, Named, Own, CopyFiles

\* What a step may store names files the call has named, or those of the document.
LEMMA ApiFresh ==
    ASSUME IInv, FreshInv, NEW c \in Clients, ApiStep(c)
    PROVE  FreshInv'
<1>1. call[c] \in Call /\ CallInv(call[c])
  BY DEF IInv, TypeOK
<1>2. CASE call' = [call EXCEPT ![c] = Idle] /\ uploaded' = uploaded
  <2>1. CASE vault' = None \/ vault' = vault
    <3>1. CopyFiles(vault') \subseteq CopyFiles(vault)
      BY <2>1 DEF CopyFiles
    <3> QED
      BY <1>2, <3>1, IdleFresh, FreshStep
  <2>2. CASE vault' # None /\ vault' # vault
    <3>1. /\ call[c].step = "save" /\ call[c].snap \in VaultDoc
          /\ \/ vault'.files \subseteq call[c].snap.files
             \/ /\ call[c].op \in {"upload_file", "assign_file"}
                /\ vault'.files = call[c].seen.files \cup {call[c].file}
      BY <2>2, ApiWrites
    <3>2. /\ call[c].snap # None
          /\ call[c].op \in {"upload_file", "assign_file"} => call[c].seen # None
      BY <1>1, <3>1 DEF CallInv, SeeingOperations
    <3>3. CopyFiles(vault') \subseteq Named(call[c]) \cup Own(call[c])
      BY <2>2, <3>1, <3>2 DEF CopyFiles, Named, Own
    <3> QED
      BY <1>2, <3>3, IdleFresh, FreshStep
  <2> QED
    BY <2>1, <2>2
<1>3. ASSUME NEW op, NEW step, NEW seen \in {vault, None}, NEW file,
             Begin(c, op, step, seen, file), vault' = vault, uploaded \subseteq uploaded',
             op = "upload_file" => file \in Files \ uploaded /\ file \in uploaded',
             op = "assign_file" => file \in vault.files
      PROVE  FreshInv'
  <2> DEFINE k == [op |-> op, step |-> step, seen |-> seen, snap |-> None, file |-> file]
  <2>1. call' = [call EXCEPT ![c] = k] /\ vault # None
    BY <1>3 DEF Begin
  <2>2. k.op = op /\ k.seen = seen /\ k.snap = None /\ k.file = file
    OBVIOUS
  <2> HIDE DEF k
  <2>3. Own(k) \subseteq Files \ uploaded /\ Own(k) \subseteq uploaded'
    BY <1>3, <2>2 DEF Own
  <2>4. Named(k) \subseteq CopyFiles(vault)
    BY <1>3, <2>1, <2>2 DEF Named, CopyFiles
  <2>5. CopyFiles(vault') \subseteq CopyFiles(vault)
    BY <1>3
  <2> QED
    BY <1>3, <2>1, <2>3, <2>4, <2>5, FreshStep
<1>4. CASE \/ StartUpdateVault(c) \/ StartAddRecipient(c) \/ StartUpdatePermission(c)
           \/ StartDeleteRecipient(c) \/ StartRequestActivation(c) \/ StartWithdraw(c)
           \/ StartCheckIn(c) \/ StartUploadFile(c) \/ StartAssignFile(c)
           \/ StartDeleteFile(c) \/ StartDeleteVault(c) \/ StartDeleteAccount(c)
           \/ StartLeave(c)
  <2>1. /\ vault' = vault /\ uploaded \subseteq uploaded'
        /\ \E op, step, file : \E seen \in {vault, None} :
              /\ Begin(c, op, step, seen, file)
              /\ op = "upload_file" => file \in Files \ uploaded /\ file \in uploaded'
              /\ op = "assign_file" => file \in vault.files
    BY <1>4 DEF StartUpdateVault, StartAddRecipient, StartUpdatePermission,
         StartDeleteRecipient, StartRequestActivation, StartWithdraw, StartCheckIn,
         StartUploadFile, StartAssignFile, StartDeleteFile, StartDeleteVault,
         StartDeleteAccount, StartLeave
  <2> QED
    BY <1>3, <2>1
<1>5. ASSUME NEW k, call' = [call EXCEPT ![c] = k], uploaded' = uploaded,
             vault' = vault \/ vault' = None, k.op = call[c].op, k.file = call[c].file,
             k.seen = call[c].seen, k.snap \in {call[c].snap, vault, None}
      PROVE  FreshInv'
  <2>1. Own(k) = Own(call[c]) /\ Own(k) \subseteq uploaded
    BY <1>5 DEF Own, FreshInv
  <2>2. Named(k) \subseteq Named(call[c]) \cup CopyFiles(vault)
    BY <1>5 DEF Named, CopyFiles
  <2>3. CopyFiles(vault') \subseteq CopyFiles(vault)
    BY <1>5 DEF CopyFiles
  <2> QED
    BY <1>5, <2>1, <2>2, <2>3, FreshStep
<1>6. CASE StoreBytes(c) \/ DropBytes(c) \/ DeleteVaultAssets(c)
  <2> DEFINE k == [call[c] EXCEPT !.step = "load"]
  <2>1. call' = [call EXCEPT ![c] = k] /\ uploaded' = uploaded /\ vault' = vault
    BY <1>1, <1>6 DEF StoreBytes, DropBytes, DeleteVaultAssets, IInv, TypeOK
  <2>2. k.op = call[c].op /\ k.file = call[c].file /\ k.seen = call[c].seen /\ k.snap = call[c].snap
    BY <1>1 DEF Call
  <2> HIDE DEF k
  <2> QED
    BY <1>5, <2>1, <2>2
<1>7. CASE Load(c) /\ vault # None
  <2> DEFINE k == [call[c] EXCEPT !.step = "save", !.snap = vault]
  <2>1. call' = [call EXCEPT ![c] = k] /\ uploaded' = uploaded /\ vault' = vault
    BY <1>7 DEF Load
  <2>2. k.op = call[c].op /\ k.file = call[c].file /\ k.seen = call[c].seen /\ k.snap = vault
    BY <1>1 DEF Call
  <2> HIDE DEF k
  <2> QED
    BY <1>5, <2>1, <2>2
<1>8. CASE DeleteDocument(c) /\ vault # None
  <2> DEFINE k == [call[c] EXCEPT !.step = "purge", !.snap = None]
  <2>1. call' = [call EXCEPT ![c] = k] /\ uploaded' = uploaded /\ vault' = None
    BY <1>8 DEF DeleteDocument
  <2>2. k.op = call[c].op /\ k.file = call[c].file /\ k.seen = call[c].seen /\ k.snap = None
    BY <1>1 DEF Call
  <2> HIDE DEF k
  <2> QED
    BY <1>5, <2>1, <2>2
<1>9. CASE (Load(c) \/ DeleteDocument(c)) /\ vault = None
  BY <1>2, <1>9 DEF Load, DeleteDocument
<1>10. CASE \/ SaveUpdateVault(c) \/ SaveAddRecipient(c) \/ SaveUpdatePermission(c)
            \/ SaveDeleteRecipient(c) \/ SaveRequestActivation(c) \/ SaveWithdraw(c)
            \/ SaveCheckIn(c) \/ SaveUploadFile(c) \/ SaveAssignFile(c)
            \/ SaveDeleteFile(c) \/ BrokenOff(c) \/ PurgeDelivery(c)
  BY <1>2, <1>10 DEF SaveUpdateVault, SaveAddRecipient, SaveUpdatePermission,
       SaveDeleteRecipient, SaveRequestActivation, SaveWithdraw, SaveCheckIn,
       SaveUploadFile, SaveAssignFile, SaveFileList, SaveDeleteFile, BrokenOff, Crash,
       StoreFails, BlobsFail, PurgeDelivery, Replace, Return, Finish
<1> QED
  BY <1>4, <1>6, <1>7, <1>8, <1>9, <1>10
     DEF ApiStep, BrokenOff, RecipientSteps, ActivationSteps, FileSteps

\* FreshInv is inductive relative to IInv.
LEMMA FreshInvariant == Spec => []FreshInv
<1>1. Init => FreshInv
  <2> SUFFICES ASSUME Init PROVE FreshInv
    OBVIOUS
  <2>1. CopyFiles(vault) = {}
    BY DEF Init, NewVault, CopyFiles
  <2>2. \A c \in Clients : Named(call[c]) = {} /\ Own(call[c]) = {}
    BY IdleFresh DEF Init
  <2> QED
    BY <2>1, <2>2 DEF FreshInv
<1>2. IInv /\ FreshInv /\ [Next]_storeVars => FreshInv'
  <2> SUFFICES ASSUME IInv, FreshInv, [Next]_storeVars PROVE FreshInv'
    OBVIOUS
  <2>1. CASE Tick \/ UNCHANGED storeVars
    <3>1. UNCHANGED <<vault, uploaded, call>>
      BY <2>1 DEF Tick, storeVars
    <3> QED
      BY <3>1 DEF FreshInv, Named, Own, CopyFiles
  <2> QED
    BY <2>1, ApiFresh DEF Next
<1> QED
  BY <1>1, <1>2, InvariantLemma, PTL DEF Spec

Kept == blobs \cup discarded

CallKept(k, K) == /\ k.seen # None => k.seen.files \subseteq K
                  /\ k.snap # None => k.snap.files \subseteq K
                  /\ k.op = "upload_file" /\ k.step # "assets" => k.file \in K
                  /\ k.op = "assign_file" => k.file \in K

BytesInv == vault # None => /\ vault.files \subseteq Kept
                            /\ \A c \in Clients : CallKept(call[c], Kept)

\* While the document is there nothing but the rollback of a failed upload removes bytes
\* without an entry in `discarded`.
LEMMA KeptGrows ==
    ASSUME NEW c \in Clients, ApiStep(c), ~StoreFails(c), vault # None
    PROVE  Kept \subseteq Kept'
<1> USE DEF Kept, history
<1>1. CASE RecipientSteps(c)
  BY <1>1 DEF RecipientSteps, StartUpdateVault, SaveUpdateVault, StartAddRecipient,
              SaveAddRecipient, StartUpdatePermission, SaveUpdatePermission,
              StartDeleteRecipient, StartLeave, SaveDeleteRecipient, Return
<1>2. CASE ActivationSteps(c)
  BY <1>2 DEF ActivationSteps, StartRequestActivation, SaveRequestActivation,
              StartWithdraw, SaveWithdraw, StartCheckIn, SaveCheckIn, Return
<1>3. CASE FileSteps(c)
  BY <1>3 DEF FileSteps, StartUploadFile, StoreBytes, SaveUploadFile,
              StartAssignFile, SaveAssignFile, StartDeleteFile, DropBytes, SaveDeleteFile,
              StartDeleteVault, StartDeleteAccount, DeleteVaultAssets, DeleteDocument, PurgeDelivery
<1>4. CASE Load(c) \/ Crash(c) \/ BlobsFail(c)
  BY <1>4 DEF Load, Crash, BlobsFail
<1> QED
  BY <1>1, <1>2, <1>3, <1>4 DEF ApiStep

\* An idle client holds no file.
LEMMA IdleKept == ASSUME NEW K PROVE CallKept(Idle, K)
BY DEF Idle, CallKept

\* A rollback takes the upload's own bytes, which nothing else names.
LEMMA RollbackKept ==
    ASSUME IInv, FreshInv, BytesInv, NEW c \in Clients, StoreFails(c)
    PROVE  BytesInv'
<1>1. /\ vault' = vault /\ call' = [call EXCEPT ![c] = Idle]
      /\ Kept \ Own(call[c]) \subseteq Kept'
  BY DEF StoreFails, Finish, Kept, Own, history
<1>2. SUFFICES ASSUME vault # None
               PROVE  /\ vault.files \subseteq Kept'
                      /\ \A d \in Clients : CallKept(call'[d], Kept')
  BY <1>1 DEF BytesInv
<1>3. vault.files \subseteq Kept'
  BY <1>1, <1>2 DEF BytesInv, FreshInv, CopyFiles
<1>4. ASSUME NEW d \in Clients PROVE CallKept(call'[d], Kept')
  <2>1. CASE d = c
    BY <1>1, <2>1, IdleKept DEF IInv, TypeOK
  <2>2. CASE d # c
    <3>1. call'[d] = call[d] /\ CallKept(call[d], Kept)
      BY <1>1, <1>2, <2>2 DEF IInv, TypeOK, BytesInv
    <3>2. Own(call[c]) \cap Named(call[d]) = {} /\ Own(call[c]) \cap Own(call[d]) = {}
      BY <2>2 DEF FreshInv
    <3> DEFINE O == Own(call[c])
    <3>3. O \cap Named(call[d]) = {} /\ O \cap Own(call[d]) = {} /\ Kept \ O \subseteq Kept'
      BY <1>1, <3>2
    <3> HIDE DEF O
    <3>4. CallKept(call[d], Kept')
      BY <3>1, <3>3 DEF CallKept, Named, Own, CopyFiles
    <3> QED
      BY <3>1, <3>4
  <2> QED
    BY <2>1, <2>2
<1> QED
  BY <1>3, <1>4

\* The copies a call holds, and its file, name kept files only.
LEMMA CopiesKept ==
    ASSUME BytesInv, vault # None, NEW c \in Clients, call[c].step = "save",
           call[c].snap # None
    PROVE  /\ call[c].snap.files \subseteq Kept
           /\ call[c].op \in {"upload_file", "assign_file"} /\ call[c].seen # None =>
                  call[c].seen.files \cup {call[c].file} \subseteq Kept
BY DEF BytesInv, CallKept

\* Every write names kept files only.
LEMMA WritesKept ==
    ASSUME IInv, BytesInv, NEW c \in Clients, ApiStep(c), vault # None, vault' # None
    PROVE  vault'.files \subseteq Kept
<1>1. CASE vault' = vault
  BY <1>1 DEF BytesInv
<1>2. CASE vault' # vault
  <2>1. /\ call[c].step = "save" /\ call[c].snap \in VaultDoc
        /\ \/ vault'.files \subseteq call[c].snap.files
           \/ /\ call[c].op \in {"upload_file", "assign_file"}
              /\ vault'.files = call[c].seen.files \cup {call[c].file}
    BY <1>2, ApiWrites
  <2>2. call[c].snap # None /\ (call[c].op \in {"upload_file", "assign_file"} => call[c].seen # None)
    BY <2>1 DEF IInv, CallInv, SeeingOperations
  <2> QED
    BY <2>1, <2>2, CopiesKept
<1> QED
  BY <1>1, <1>2

\* A call picks up kept files only: its copies are those of the stored document, its
\* file is one the document lists or one it has just stored.
LEMMA CallKeepsLemma ==
    ASSUME IInv, BytesInv, NEW c \in Clients, ApiStep(c), ~StoreFails(c),
           vault # None, vault' # None
    PROVE  \E k : call' = [call EXCEPT ![c] = k] /\ CallKept(k, Kept')
<1>1. vault.files \subseteq Kept /\ CallKept(call[c], Kept) /\ Kept \subseteq Kept'
  BY KeptGrows DEF BytesInv
<1>2. CASE call' = [call EXCEPT ![c] = Idle]
  BY <1>2, IdleKept
<1>3. call[c] \in Call /\ CallInv(call[c])
  BY DEF IInv, TypeOK
<1>4. ASSUME NEW op, NEW seen \in {vault, None}, NEW step \in {"assets", "load"},
             NEW file, Begin(c, op, step, seen, file),
             op = "upload_file" => step = "assets",
             op = "assign_file" => file \in vault.files
      PROVE  \E k : call' = [call EXCEPT ![c] = k] /\ CallKept(k, Kept')
  <2> DEFINE k == [op |-> op, step |-> step, seen |-> seen, snap |-> None, file |-> file]
  <2>1. call' = [call EXCEPT ![c] = k]
    BY <1>4 DEF Begin
  <2>2. CallKept(k, Kept')
    BY <1>1, <1>4 DEF CallKept
  <2> QED
    BY <2>1, <2>2
<1>5. CASE \/ StartUpdateVault(c) \/ StartAddRecipient(c) \/ StartUpdatePermission(c)
           \/ StartDeleteRecipient(c) \/ StartRequestActivation(c) \/ StartWithdraw(c)
           \/ StartCheckIn(c) \/ StartUploadFile(c) \/ StartAssignFile(c)
           \/ StartDeleteFile(c) \/ StartDeleteVault(c) \/ StartDeleteAccount(c)
           \/ StartLeave(c)
  <2>1. \E op, file : \E seen \in {vault, None}, step \in {"assets", "load"} :
            /\ Begin(c, op, step, seen, file)
            /\ op = "upload_file" => step = "assets"
            /\ op = "assign_file" => file \in vault.files
    BY <1>5 DEF StartUpdateVault, StartAddRecipient, StartUpdatePermission,
         StartDeleteRecipient, StartRequestActivation, StartWithdraw, StartCheckIn,
         StartUploadFile, StartAssignFile, StartDeleteFile, StartDeleteVault,
       StartDeleteAccount, StartLeave
  <2> QED
    BY <1>4, <2>1
<1>6. CASE StoreBytes(c) \/ DropBytes(c) \/ DeleteVaultAssets(c)
  <2> DEFINE k == [call[c] EXCEPT !.step = "load"]
  <2>1. call' = [call EXCEPT ![c] = k]
    BY <1>3, <1>6 DEF StoreBytes, DropBytes, DeleteVaultAssets, IInv, TypeOK
  <2>2. /\ k.seen = call[c].seen /\ k.snap = call[c].snap /\ k.op = call[c].op
        /\ k.file = call[c].file /\ k.step = "load"
    BY <1>3 DEF Call
  <2>3. call[c].op \in {"upload_file", "assign_file"} => call[c].file \in Kept'
    BY <1>6 DEF StoreBytes, DropBytes, DeleteVaultAssets, DeletesVault, Kept
  <2>4. CallKept(k, Kept')
    BY <1>1, <2>2, <2>3 DEF CallKept
  <2> QED
    BY <2>1, <2>4
<1>7. CASE Load(c)
  <2> DEFINE k == [call[c] EXCEPT !.step = "save", !.snap = vault]
  <2>1. call' = [call EXCEPT ![c] = k] /\ call[c].step = "load"
    BY <1>7 DEF Load
  <2>2. /\ k.seen = call[c].seen /\ k.snap = vault /\ k.op = call[c].op
        /\ k.file = call[c].file /\ k.step = "save"
    BY <1>3 DEF Call
  <2>3. CallKept(k, Kept')
    BY <1>1, <2>1, <2>2 DEF CallKept
  <2> QED
    BY <2>1, <2>3
<1>8. CASE \/ SaveUpdateVault(c) \/ SaveAddRecipient(c) \/ SaveUpdatePermission(c)
           \/ SaveDeleteRecipient(c) \/ SaveRequestActivation(c) \/ SaveWithdraw(c)
           \/ SaveCheckIn(c) \/ SaveUploadFile(c) \/ SaveAssignFile(c)
           \/ SaveDeleteFile(c) \/ Crash(c) \/ BlobsFail(c)
  BY <1>2, <1>8 DEF SaveUpdateVault, SaveAddRecipient, SaveUpdatePermission,
       SaveDeleteRecipient, SaveRequestActivation, SaveWithdraw, SaveCheckIn,
       SaveUploadFile, SaveAssignFile, SaveFileList, SaveDeleteFile, Crash, BlobsFail,
       Replace, Return, Finish
<1>9. CASE PurgeDelivery(c) \/ DeleteDocument(c)
  BY <1>2, <1>9 DEF PurgeDelivery, DeleteDocument, Finish
<1> QED
  BY <1>5, <1>6, <1>7, <1>8, <1>9 DEF ApiStep, RecipientSteps, ActivationSteps, FileSteps

\* BytesInv is inductive relative to IInv and FreshInv.
LEMMA BytesInvariant == Spec => []BytesInv
<1>1. Init => BytesInv
  <2> SUFFICES ASSUME Init PROVE BytesInv
    OBVIOUS
  <2>1. vault.files = {}
    BY DEF Init, NewVault
  <2>2. \A c \in Clients : CallKept(call[c], Kept)
    BY IdleKept DEF Init
  <2> QED
    BY <2>1, <2>2 DEF BytesInv
<1>2. IInv /\ FreshInv /\ BytesInv /\ [Next]_storeVars => BytesInv'
  <2> SUFFICES ASSUME IInv, FreshInv, BytesInv, [Next]_storeVars PROVE BytesInv'
    OBVIOUS
  <2>1. CASE Tick \/ UNCHANGED storeVars
    <3>1. UNCHANGED <<vault, blobs, call, discarded>>
      BY <2>1 DEF Tick, storeVars, history
    <3> QED
      BY <3>1 DEF BytesInv, Kept
  <2>2. ASSUME NEW c \in Clients, ApiStep(c), ~StoreFails(c) PROVE BytesInv'
    <3> SUFFICES ASSUME vault' # None
                 PROVE  /\ vault'.files \subseteq Kept'
                        /\ \A d \in Clients : CallKept(call'[d], Kept')
      BY DEF BytesInv
    <3>1. vault # None
      BY <2>2, DeletedLemma
    <3>2. Kept \subseteq Kept'
      BY <2>2, <3>1, KeptGrows
    <3>3. vault'.files \subseteq Kept
      BY <2>2, <3>1, WritesKept
    <3>4. PICK k : call' = [call EXCEPT ![c] = k] /\ CallKept(k, Kept')
      BY <2>2, <3>1, CallKeepsLemma
    <3>5. ASSUME NEW d \in Clients PROVE CallKept(call'[d], Kept')
      <4>1. CASE d = c
        BY <3>4, <4>1 DEF IInv, TypeOK
      <4>2. CASE d # c
        <5>1. call'[d] = call[d]
          BY <3>4, <4>2 DEF IInv, TypeOK
        <5>2. CallKept(call[d], Kept)
          BY <3>1 DEF BytesInv
        <5> QED
          BY <3>2, <5>1, <5>2 DEF CallKept
      <4> QED
        BY <4>1, <4>2
    <3> QED
      BY <3>2, <3>3, <3>5
  <2> QED
    BY <2>1, <2>2, RollbackKept DEF Next
<1> QED
  BY <1>1, <1>2, InvariantLemma, FreshInvariant, PTL DEF Spec

\* A file the document lists has lost its bytes only if an owner asked for that, through
\* every overlap of uploads, rollbacks, deletions and crashes.
THEOREM NoBytesLost == Spec => []MissingBytesWereDiscarded
<1>1. BytesInv => MissingBytesWereDiscarded
  BY DEF BytesInv, MissingBytesWereDiscarded, Kept
<1> QED
  BY <1>1, BytesInvariant, PTL

=============================================================================
