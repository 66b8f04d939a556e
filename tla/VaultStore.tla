------------------------------ MODULE VaultStore ------------------------------
(***************************************************************************)
(* The API's calls on one vault document (backend/main.py over             *)
(* backend/services/cosmos_service.py).  A call is served by a thread of   *)
(* its own and touches the document three times:                           *)
(*   - the handler reads it and checks ownership and status   (Start...)   *)
(*   - the store operation reads it again                     (Load)       *)
(*   - the store operation replaces the whole document        (Save...)    *)
(* replace_item carries no etag condition, so the last writer wins; it     *)
(* fails when the document is gone, and never recreates it.  Uploads and   *)
(* deletions also change the blob container between the first two steps.   *)
(*                                                                         *)
(* The caller's payload is chosen in the step that first uses it.          *)
(***************************************************************************)
EXTENDS VaultDocument

CONSTANTS
    Clients,        \* calls that may be in progress together
    Operations,     \* the endpoints the callers use
    MaxThreshold,   \* the thresholds an owner tries: 1..MaxThreshold
    Hours,          \* the grace periods an owner tries
    MaxTime,        \* bound of the clock
    Crashes,        \* BOOLEAN: the backend may die during a call
    StoreErrors     \* BOOLEAN: a request to one of the stores may fail

ASSUME BoundsOK == /\ MaxThreshold \in Nat \ {0}
                   /\ Hours \subseteq Nat \ {0}
                   /\ MaxTime \in Nat
                   /\ Crashes \in BOOLEAN
                   /\ StoreErrors \in BOOLEAN

VARIABLES
    vault,      \* the stored document, None once deleted
    delivery,   \* status of its twin in the deliveries container, None if absent
    blobs,      \* files whose bytes are in the vault's blob container
    uploaded,   \* file identities already taken (blob names are never reused)
    call,       \* what each client's call in progress has read
    now,        \* hours
    consent,    \* history: recipients whose request was recorded and not cleared since
    discarded   \* history: files whose bytes an owner asked to delete

storeVars == <<vault, delivery, blobs, uploaded, call, now, consent, discarded>>
history == <<consent, discarded>>

OwnerOperations == {"update_vault", "add_recipient", "update_permission",
                    "delete_recipient", "check_in", "upload_file",
                    "assign_file", "delete_file", "delete_vault", "delete_account"}
RecipientOperations == {"request_activation", "withdraw", "leave"}

ASSUME OperationsKnown == Operations \subseteq OwnerOperations \cup RecipientOperations

Thresholds == 1..MaxThreshold
RecipientList == {l \in [recipients: SUBSET Recipients, can_activate: SUBSET Recipients] :
                     l.can_activate \subseteq l.recipients}

Idle == [op |-> "idle", step |-> "none", seen |-> None, snap |-> None, file |-> None]

Call == [op   : OwnerOperations \cup RecipientOperations \cup {"idle"},
         step : {"none", "assets", "load", "save", "purge"},
         seen : VaultDoc \cup {None},      \* the handler's copy
         snap : VaultDoc \cup {None},      \* the store operation's copy
         file : Files \cup {None}]         \* the file being uploaded or deleted

TypeOK == /\ vault \in VaultDoc \cup {None}
          /\ delivery \in Statuses \cup {None}
          /\ blobs \subseteq Files
          /\ uploaded \subseteq Files
          /\ call \in [Clients -> Call]
          /\ now \in Nat
          /\ consent \subseteq Recipients
          /\ discarded \subseteq Files

Init == /\ \E l \in RecipientList, t \in Thresholds, h \in Hours :
              /\ ValidThreshold(t, l.can_activate)
              /\ vault = NewVault(l.recipients, l.can_activate, t, h)
        /\ delivery = None
        /\ blobs = {}
        /\ uploaded = {}
        /\ call = [c \in Clients |-> Idle]
        /\ now = 0
        /\ consent = {}
        /\ discarded = {}

-----------------------------------------------------------------------------
(* The frame of a call.                                                     *)

\* ensure_vault_is_mutable
Mutable(v) == v.status \notin FINAL_IMMUTABLE_VAULT_STATUSES

\* The handler has read the vault and passed its checks; `seen` is the copy it
\* keeps for later, if any.
Begin(c, op, step, seen, file) ==
    /\ op \in Operations
    /\ call[c].op = "idle"
    /\ vault # None
    /\ call' = [call EXCEPT ![c] = [op |-> op, step |-> step, seen |-> seen,
                                    snap |-> None, file |-> file]]

Finish(c) == call' = [call EXCEPT ![c] = Idle]

\* The store operation reads the document; without one the call ends in a 404,
\* and the bytes an upload has already stored stay where they are.
Load(c) ==
    /\ call[c].step = "load"
    /\ call' = [call EXCEPT ![c] = IF vault = None THEN Idle
                                   ELSE [@ EXCEPT !.step = "save", !.snap = vault]]
    /\ UNCHANGED <<vault, delivery, blobs, uploaded, now, history>>

Saving(c, op) == call[c].op = op /\ call[c].step = "save"

\* container.replace_item(item=existing_item, body=doc)
ReplaceAsUpsert(c, doc) ==
    /\ vault' = doc
    /\ Finish(c)
    /\ UNCHANGED <<delivery, uploaded, now>>
Replace(c, doc) ==
    /\ vault' = IF vault = None THEN None ELSE doc
    /\ Finish(c)
    /\ UNCHANGED <<delivery, uploaded, now>>

\* The store operation refuses, or finds nothing to change, and writes nothing.
Return(c) ==
    /\ Finish(c)
    /\ UNCHANGED <<vault, delivery, blobs, uploaded, now, history>>

-----------------------------------------------------------------------------
(* PATCH /vaults/{id}: threshold, grace period and recipient list.          *)
StartUpdateVault(c) ==
    /\ Begin(c, "update_vault", "load", vault, None)
    /\ Mutable(vault)
    /\ UNCHANGED <<vault, delivery, blobs, uploaded, now, history>>

SaveUpdateVault(c) ==
    /\ Saving(c, "update_vault")
    /\ \E l \in RecipientList \cup {None}, t \in Thresholds \cup {None},
          h \in Hours \cup {None} :
          LET snap   == call[c].snap
              judged == IF l = None THEN call[c].seen ELSE l  \* recipients_for_validation
              recips == IF l = None THEN snap ELSE l
          IN /\ t # None => ValidThreshold(t, judged.can_activate)
             /\ Replace(c, UpdateVault([snap EXCEPT
                    !.recipients = recips.recipients,
                    !.can_activate = recips.can_activate,
                    !.threshold = IF t = None THEN @ ELSE t,
                    !.hours = IF h = None THEN @ ELSE h], now))
             /\ consent' = consent \cap recips.can_activate
    /\ UNCHANGED <<blobs, discarded>>

(* POST /vaults/{id}/recipients                                             *)
StartAddRecipient(c) ==
    /\ Begin(c, "add_recipient", "load", None, None)
    /\ Mutable(vault)
    /\ UNCHANGED <<vault, delivery, blobs, uploaded, now, history>>

SaveAddRecipient(c) ==
    /\ Saving(c, "add_recipient")
    /\ \E r \in Recipients, can \in BOOLEAN :
          Replace(c, AddRecipientToVault(call[c].snap, r, can, now))
    /\ UNCHANGED <<blobs, history>>

(* PATCH /vaults/{id}/recipients/{email}                                    *)
StartUpdatePermission(c) ==
    /\ Begin(c, "update_permission", "load", None, None)
    /\ Mutable(vault)
    /\ UNCHANGED <<vault, delivery, blobs, uploaded, now, history>>

SaveUpdatePermission(c) ==
    /\ Saving(c, "update_permission")
    /\ \E r \in Recipients, can \in BOOLEAN :
          IF r \in call[c].snap.recipients
          THEN /\ Replace(c, UpdateRecipientActivationPermission(call[c].snap, r, can, now))
               /\ consent' = IF can THEN consent ELSE consent \ {r}
               /\ UNCHANGED <<blobs, discarded>>
          ELSE Return(c)

(* DELETE /vaults/{id}/recipients/{email}                                   *)
StartDeleteRecipient(c) ==
    /\ Begin(c, "delete_recipient", "load", None, None)
    /\ Mutable(vault)
    /\ UNCHANGED <<vault, delivery, blobs, uploaded, now, history>>

(* DELETE /auth/me of a recipient leaves every vault that names it, whatever *)
(* the vault's status.                                                      *)
StartLeave(c) ==
    /\ Begin(c, "leave", "load", vault, None)
    /\ vault.recipients # {}
    /\ UNCHANGED <<vault, delivery, blobs, uploaded, now, history>>

SaveDeleteRecipient(c) ==
    /\ Saving(c, "delete_recipient") \/ Saving(c, "leave")
    /\ \E r \in Recipients :
          /\ call[c].op = "leave" => r \in call[c].seen.recipients
          /\ Replace(c, RemoveRecipientFromVault(call[c].snap, r, now))
          /\ consent' = consent \ {r}
    /\ UNCHANGED <<blobs, discarded>>

-----------------------------------------------------------------------------
(* POST /vaults/{id}/activation-requests: the handler's own read decides    *)
(* nothing but the vault's existence.                                       *)
StartRequestActivation(c) ==
    /\ Begin(c, "request_activation", "load", None, None)
    /\ UNCHANGED <<vault, delivery, blobs, uploaded, now, history>>

SaveRequestActivation(c) ==
    /\ Saving(c, "request_activation")
    /\ \E r \in Recipients :
          IF MayRequestActivation(call[c].snap, r)
          THEN /\ Replace(c, AddActivationRequest(call[c].snap, r, now))
               /\ consent' = consent \cup {r}
               /\ UNCHANGED <<blobs, discarded>>
          ELSE Return(c)

(* DELETE /vaults/{id}/activation-requests: any recipient of the vault the  *)
(* handler read may withdraw, whatever the status.                          *)
StartWithdraw(c) ==
    /\ Begin(c, "withdraw", "load", vault, None)
    /\ UNCHANGED <<vault, delivery, blobs, uploaded, now, history>>

SaveWithdraw(c) ==
    /\ Saving(c, "withdraw")
    /\ \E r \in call[c].seen.recipients :
          IF r \in call[c].snap.requests
          THEN /\ Replace(c, RemoveActivationRequest(call[c].snap, r, now))
               /\ consent' = consent \ {r}
               /\ UNCHANGED <<blobs, discarded>>
          ELSE Return(c)

(* POST /vaults/{id}/check-in                                               *)
StartCheckIn(c) ==
    /\ Begin(c, "check_in", "load", None, None)
    /\ Mutable(vault)
    /\ UNCHANGED <<vault, delivery, blobs, uploaded, now, history>>

SaveCheckIn(c) ==
    /\ Saving(c, "check_in")
    /\ IF call[c].snap.status \in VAULT_ACTIVATION_TERMINAL_STATUSES
       THEN Return(c)
       ELSE /\ Replace(c, CheckInVault(call[c].snap))
            /\ consent' = {}
            /\ UNCHANGED <<blobs, discarded>>

-----------------------------------------------------------------------------
(* POST /vaults/{id}/files: the bytes are stored before the document names  *)
(* them, and the list of files written is the handler's copy plus the file. *)
StartUploadFile(c) ==
    /\ \E f \in Files \ uploaded :
          /\ Begin(c, "upload_file", "assets", vault, f)
          /\ uploaded' = uploaded \cup {f}
    /\ Mutable(vault)
    /\ UNCHANGED <<vault, delivery, blobs, now, history>>

StoreBytes(c) ==
    /\ call[c].op = "upload_file" /\ call[c].step = "assets"
    /\ blobs' = blobs \cup {call[c].file}
    /\ call' = [call EXCEPT ![c].step = "load"]
    /\ UNCHANGED <<vault, delivery, uploaded, now, history>>

\* The file list both handlers write is the one the handler read, not the one
\* the store operation reads: files recorded in between are forgotten.
SaveFileList(c, to) ==
    LET seen == call[c].seen
        f    == call[c].file
    IN Replace(c, UpdateVault([call[c].snap EXCEPT
           !.files = seen.files \cup {f},
           !.assigned = {a \in seen.assigned : a[1] # f} \cup ({f} \X to)], now))

\* The replace fails when the document is gone, and the bytes are deleted again.
SaveUploadFileAlwaysRollingBack(c) ==
    /\ Saving(c, "upload_file")
    /\ \E to \in SUBSET call[c].seen.recipients : SaveFileList(c, to)
    /\ blobs' = blobs \ {call[c].file}
    /\ UNCHANGED history
SaveUploadFile(c) ==
    /\ Saving(c, "upload_file")
    /\ \E to \in SUBSET call[c].seen.recipients : SaveFileList(c, to)
    /\ blobs' = IF vault = None THEN blobs \ {call[c].file} ELSE blobs
    /\ UNCHANGED history

(* PATCH /vaults/{id}/files/{file}: again the handler's copy of the files.  *)
StartAssignFile(c) ==
    /\ vault # None
    /\ \E f \in vault.files : Begin(c, "assign_file", "load", vault, f)
    /\ Mutable(vault)
    /\ UNCHANGED <<vault, delivery, blobs, uploaded, now, history>>

SaveAssignFile(c) ==
    /\ Saving(c, "assign_file")
    /\ \E to \in SUBSET call[c].seen.recipients : SaveFileList(c, to)
    /\ UNCHANGED <<blobs, history>>

(* DELETE /vaults/{id}/files/{file}: the bytes go first.                    *)
StartDeleteFile(c) ==
    /\ vault # None
    /\ \E f \in vault.files : Begin(c, "delete_file", "assets", None, f)
    /\ Mutable(vault)
    /\ UNCHANGED <<vault, delivery, blobs, uploaded, now, history>>

DropBytes(c) ==
    /\ call[c].op = "delete_file" /\ call[c].step = "assets"
    /\ blobs' = blobs \ {call[c].file}
    /\ discarded' = discarded \cup {call[c].file}
    /\ call' = [call EXCEPT ![c].step = "load"]
    /\ UNCHANGED <<vault, delivery, uploaded, now, consent>>

SaveDeleteFile(c) ==
    /\ Saving(c, "delete_file")
    /\ Replace(c, RemoveFileFromVault(call[c].snap, call[c].file))
    /\ UNCHANGED <<blobs, history>>

(* DELETE /vaults/{id}: bytes, document, twin in the deliveries container.  *)
StartDeleteVault(c) ==
    /\ Begin(c, "delete_vault", "assets", vault, None)
    /\ Mutable(vault)
    /\ UNCHANGED <<vault, delivery, blobs, uploaded, now, history>>

(* DELETE /auth/me of the owner deletes the vault the same way, an archived *)
(* one too.                                                                 *)
StartDeleteAccount(c) ==
    /\ Begin(c, "delete_account", "assets", vault, None)
    /\ UNCHANGED <<vault, delivery, blobs, uploaded, now, history>>

DeletesVault(c) == call[c].op \in {"delete_vault", "delete_account"}

DeleteVaultAssets(c) ==
    /\ DeletesVault(c) /\ call[c].step = "assets"
    /\ blobs' = blobs \ call[c].seen.files
    /\ discarded' = discarded \cup call[c].seen.files
    /\ call' = [call EXCEPT ![c].step = "load"]
    /\ UNCHANGED <<vault, delivery, uploaded, now, consent>>

DeleteDocument(c) ==
    /\ DeletesVault(c) /\ call[c].step = "save"
    /\ vault' = None
    /\ call' = [call EXCEPT ![c] = IF vault = None THEN Idle
                                   ELSE [@ EXCEPT !.step = "purge", !.snap = None]]
    /\ UNCHANGED <<delivery, blobs, uploaded, now, history>>

PurgeDelivery(c) ==
    /\ call[c].step = "purge"
    /\ delivery' = None
    /\ Finish(c)
    /\ UNCHANGED <<vault, blobs, uploaded, now, history>>

-----------------------------------------------------------------------------
(* The process serving the call dies: whatever it has done stays done.      *)
Crash(c) ==
    /\ Crashes
    /\ call[c].op # "idle"
    /\ Finish(c)
    /\ UNCHANGED <<vault, delivery, blobs, uploaded, now, history>>

\* A request to the document store raises and changes nothing there: the call ends
\* in a 500, and an upload deletes the bytes it stored.
StoreFailsKeepingBytes(c) ==
    /\ StoreErrors
    /\ call[c].step \in {"load", "save", "purge"}
    /\ Finish(c)
    /\ UNCHANGED <<vault, delivery, blobs, uploaded, now, history>>
StoreFails(c) ==
    /\ StoreErrors
    /\ call[c].step \in {"load", "save", "purge"}
    /\ blobs' = IF call[c].op = "upload_file" THEN blobs \ {call[c].file} ELSE blobs
    /\ Finish(c)
    /\ UNCHANGED <<vault, delivery, uploaded, now, history>>

\* A request to the blob store raises: an upload has stored nothing, a file's deletion
\* dropped nothing, a vault's deletion may have dropped some of its files.
BlobsFail(c) ==
    /\ StoreErrors
    /\ call[c].step = "assets"
    /\ \E dropped \in SUBSET (IF DeletesVault(c) THEN call[c].seen.files ELSE {}) :
          /\ blobs' = blobs \ dropped
          /\ discarded' = discarded \cup dropped
    /\ Finish(c)
    /\ UNCHANGED <<vault, delivery, uploaded, now, consent>>

Tick == /\ now < MaxTime
        /\ now' = now + 1
        /\ UNCHANGED <<vault, delivery, blobs, uploaded, call, history>>

RecipientSteps(c) ==
    \/ StartUpdateVault(c)      \/ SaveUpdateVault(c)
    \/ StartAddRecipient(c)     \/ SaveAddRecipient(c)
    \/ StartUpdatePermission(c) \/ SaveUpdatePermission(c)
    \/ StartDeleteRecipient(c)  \/ StartLeave(c) \/ SaveDeleteRecipient(c)

ActivationSteps(c) ==
    \/ StartRequestActivation(c) \/ SaveRequestActivation(c)
    \/ StartWithdraw(c)          \/ SaveWithdraw(c)
    \/ StartCheckIn(c)           \/ SaveCheckIn(c)

FileSteps(c) ==
    \/ StartUploadFile(c) \/ StoreBytes(c) \/ SaveUploadFile(c)
    \/ StartAssignFile(c) \/ SaveAssignFile(c)
    \/ StartDeleteFile(c) \/ DropBytes(c)  \/ SaveDeleteFile(c)
    \/ StartDeleteVault(c) \/ StartDeleteAccount(c) \/ DeleteVaultAssets(c)
    \/ DeleteDocument(c)  \/ PurgeDelivery(c)

ApiStep(c) == RecipientSteps(c) \/ ActivationSteps(c) \/ FileSteps(c)
              \/ Load(c) \/ Crash(c) \/ StoreFails(c) \/ BlobsFail(c)

Next == Tick \/ \E c \in Clients : ApiStep(c)

Spec == Init /\ [][Next]_storeVars

-----------------------------------------------------------------------------
(* Properties that survive every race of the calls.                         *)

\* Whatever the interleaving of reads and whole-document writes, the stored
\* document agrees with itself: status, requests, threshold, clock and file
\* assignments (the tail of every store operation).
DocumentConsistent == vault # None => Consistent(vault)

\* A file the document lists has lost its bytes only if an owner asked for that:
\* no crash and no overlap of uploads, rollbacks and deletions loses the bytes of
\* any other file (the order of blob and document writes in upload_vault_file,
\* delete_vault_file and delete_vault).
MissingBytesWereDiscarded ==
    vault # None => vault.files \ blobs \subseteq discarded

\* A call still in progress when the vault is deleted never brings the vault
\* back (replace_item fails on a missing item; nothing upserts a vault).
DeletedStaysDeleted == [][vault = None => vault' = None]_storeVars

\* "Owner explicitly signals they are still alive. Clears requests and grace
\* period." (check_in_vault): a request the check-in cleared, or its recipient
\* withdrew, does not come back.  Only calls that overlap can refute this.
ClearedRequestsStayCleared == vault # None => vault.requests \subseteq consent

(* Properties of calls that do not overlap.                                 *)

\* The recorded requests are exactly those made since the last check-in and not
\* withdrawn or revoked: a check-in is never undone, no request is lost.
RequestsAreConsents == vault # None => vault.requests = consent

\* While a grace period lasts nothing moves its deadline: not a further
\* request, not a changed grace_period_hours, not an edited recipient list.
DeadlineIsFixed ==
    [][vault # None /\ vault' # None /\ vault.status = "grace_period"
         /\ vault'.status = "grace_period"
       => vault'.expires = vault.expires]_storeVars

\* Between calls the stored bytes are those of the files the document lists, whatever
\* request to a store failed on the way: a failed upload leaves no bytes behind, and only
\* where requests may fail is a file listed whose bytes a deletion, broken off, dropped
\* (upload_vault_file's rollback; delete_vault_file and delete_vault drop bytes first).
HalfDeleted == IF StoreErrors THEN discarded ELSE {}
FilesMatchBlobs ==
    (\A c \in Clients : call[c].op = "idle") =>
        blobs = (IF vault = None THEN {} ELSE vault.files) \ HalfDeleted

=============================================================================
