------------------------------ MODULE LocalStore ------------------------------
(***************************************************************************)
(* The store of LOCAL_DEV_MODE (backend/services/local_cosmos_service.py): *)
(* four JSON files, read whole and rewritten whole by every operation, by  *)
(* the threads of the backend and by a worker process (the local half of   *)
(* worker_container/app.py), without any lock.  write_text opens the file,  *)
(* which empties it, and then writes the text in one go; a file read in     *)
(* between is an empty list.                                                *)
(*                                                                         *)
(* A process of the system calls one store operation at a time; what an     *)
(* endpoint carries from one operation to the next is in VaultStore.  Every *)
(* backend operation first runs initialize, which moves what older versions *)
(* kept in vaults.json to the file it belongs to.                           *)
(***************************************************************************)
EXTENDS VaultDocument

CONSTANTS
    Ids,        \* identities of vaults, accounts and audit entries
    Clients,    \* backend threads
    Worker,     \* the worker process
    Mixes       \* what a behaviour may do, and its bounds: its operations, how many
                \* documents an older version left in vaults.json, how many operations
                \* write, how often a process dies

VaultEdits == {"create_vault", "add_recipient", "remove_recipient", "update_permission",
               "update_vault", "remove_file", "add_request", "remove_request", "check_in"}
LocalOperations == VaultEdits \cup {"delete_vault", "create_user", "update_user",
                                    "delete_user", "log_audit_event", "worker"}

ASSUME LocalBounds ==
    /\ Worker \notin Clients /\ None \notin Ids
    /\ \A m \in Mixes : /\ m.ops \subseteq LocalOperations
                        /\ {m.legacy, m.writes, m.deaths} \subseteq Nat

Processes == Clients \cup {Worker}

\* The document types that have a file of their own besides vaults.json.
Moved == {"user", "delivery", "audit_log"}

\* A file as a table.  Of accounts, deliveries and audit entries all that matters
\* is which write they are from; a delivery has the identity of its vault.
Documents == [Ids -> Nat \cup {None}]
VaultsText == [vaults : [Ids -> VaultDoc \cup {None}], legacy : [Moved -> Documents]]

ASSUME NoneIsNoText == None \notin VaultsText \cup Documents

NoDocuments == [i \in Ids |-> None]
NoVaults == [vaults |-> [i \in Ids |-> None], legacy |-> [t \in Moved |-> NoDocuments]]

VARIABLES
    vaultsFile, \* vaults.json
    files,      \* users.json, deliveries.json, audit_logs.json
    call,       \* the operation each process is in
    serving,    \* the backend has finished its start-up
    written,    \* operations begun that may write
    deaths,     \* processes that have died
    mix,        \* what this behaviour may do
    intended,   \* history: the tables as the completed operations alone leave them
    disturbed,  \* history: files written from a stale copy, cut off in a write, or
                \* deleted from while vaults.json was emptied by a writer
    stranded    \* history: vaults whose deletion died halfway, met the worker, or
                \* read the deliveries in the middle of a write

disk == <<vaultsFile, files>>
localHistory == <<intended, disturbed, stranded>>
localVars == <<disk, call, serving, written, deaths, mix, localHistory>>

Idle == [op |-> "idle", step |-> "none", name |-> "none", key |-> None,
         text |-> None, vtext |-> None, seen |-> None, todo |-> {}, after |-> "none"]

\* The passes of backfill_document_shapes over the files, each with its file.
PassOver == [shape_vault |-> "vault", shape_delivery |-> "delivery", shape_audit |-> "audit_log"]

\* The steps of the backend that read a file, and first run initialize.
ReadingSteps == DOMAIN PassOver \cup {"list", "backfill", "purge"}
InitializeComesFrom == {"idle"} \cup ReadingSteps

LocalCall ==
    [op    : LocalOperations \cup {"idle", "initialize", "backfill"},
     step  : {"none", "merge", "truncate", "fill", "update", "mirror", "audit"} \cup ReadingSteps,
     name  : Moved \cup {"vault", "none"},      \* the file to be written
     key   : Ids \cup {None},                   \* the document the call is about, if one
     text  : Documents \cup {None},             \* what will be written to it
     vtext : VaultsText \cup {None},            \* the same for vaults.json
     seen  : VaultDoc \cup {None},              \* the vault the worker packs
     todo  : SUBSET Ids,                        \* vaults still to be backfilled
     after : {"none"} \cup InitializeComesFrom]  \* in initialize: the step it returns to

LocalTypeOK ==
    /\ vaultsFile \in VaultsText
    /\ files \in [Moved -> Documents]
    /\ call \in [Processes -> LocalCall]
    /\ serving \in BOOLEAN
    /\ written \in 0..mix.writes
    /\ mix \in Mixes
    /\ deaths \in 0..mix.deaths
    /\ intended \in [vaults : [Ids -> VaultDoc \cup {None}], docs : [Moved -> Documents]]
    /\ disturbed \subseteq Moved \cup {"vault"}
    /\ stranded \subseteq Ids

-----------------------------------------------------------------------------
\* A vaults.json of an older version may hold accounts, audit entries and the
\* deliveries of vaults, each from write number 0.
Init ==
    /\ mix \in Mixes
    /\ \E recips \in SUBSET Recipients, V \in SUBSET Ids, L \in [Moved -> SUBSET Ids] :
          /\ Cardinality({x \in Moved \X Ids : x[2] \in L[x[1]]}) <= mix.legacy
          /\ L["delivery"] \subseteq V
          /\ vaultsFile = [vaults |-> [i \in Ids |-> IF i \in V
                                        THEN NewVault(recips, recips, 1, 1) ELSE None],
                           legacy |-> [t \in Moved |-> [i \in Ids |->
                                        IF i \in L[t] THEN 0 ELSE None]]]
    /\ files = [t \in Moved |-> NoDocuments]
    /\ call = [p \in Processes |-> Idle]
    /\ serving = FALSE
    /\ written = 0 /\ deaths = 0
    /\ intended = [vaults |-> vaultsFile.vaults, docs |-> vaultsFile.legacy]
    /\ disturbed = {} /\ stranded = {}

-----------------------------------------------------------------------------
(* Reading and rewriting a file.                                            *)

Known(i) == vaultsFile.vaults[i] # None
Doc(i) == vaultsFile.vaults[i]
Legacy == {t \in Moved : vaultsFile.legacy[t] # NoDocuments}

\* p has read what it needs of `name` and will write the whole file.
Rewrite(p, name, key, text, vtext) ==
    call' = [call EXCEPT ![p] = [@ EXCEPT !.step = "truncate", !.name = name, !.key = key,
                                          !.text = text, !.vtext = vtext]]

OnDiskUnchanged == UNCHANGED <<disk, serving, deaths, mix, localHistory>>

\* open(path, "w")
Truncate(p) ==
    /\ call[p].step = "truncate"
    /\ call' = [call EXCEPT ![p].step = "fill"]
    /\ IF call[p].name = "vault"
       THEN vaultsFile' = NoVaults /\ UNCHANGED files
       ELSE files' = [files EXCEPT ![call[p].name] = NoDocuments] /\ UNCHANGED vaultsFile
    /\ UNCHANGED <<serving, written, deaths, mix, localHistory>>

BeingWritten(name) == \E p \in Processes : call[p].step = "fill" /\ call[p].name = name

HoldsCopy(q, name) == IF name = "vault" THEN call[q].vtext # None
                      ELSE call[q].text # None /\ call[q].name = name

\* In the middle of initialize, which moves documents and intends nothing.
Moving(k) == k.after # "none"

\* The write changes one document; those of initialize and of the passes change none.
ChangesOne(k) == ~Moving(k) /\ k.key # None

NextPass == [vault |-> "shape_delivery", delivery |-> "shape_audit", audit_log |-> "list"]

\* What a call goes on with once the file it was writing is written.
Resumed(k) ==
    CASE Moving(k) /\ k.name # "vault" ->
            [k EXCEPT !.step = "truncate", !.name = "vault", !.text = None,
                      !.vtext.legacy[k.name] = NoDocuments]
      [] Moving(k) /\ k.name = "vault" /\ k.after # "idle" ->
            [Idle EXCEPT !.op = k.op, !.step = k.after, !.key = k.key, !.todo = k.todo]
      [] ~Moving(k) /\ k.op = "delete_vault" /\ k.name = "vault" -> [Idle EXCEPT !.op = k.op,
                                                        !.step = "purge", !.key = k.key]
      [] ~Moving(k) /\ k.op = "backfill" -> [Idle EXCEPT !.op = k.op, !.todo = k.todo,
                             !.step = IF k.key = None THEN NextPass[k.name] ELSE "backfill"]
      [] ~Moving(k) /\ k.op = "worker" /\ k.name = "vault" -> [Idle EXCEPT !.op = k.op,
                                                        !.step = "mirror", !.key = k.key]
      [] ~Moving(k) /\ k.op = "worker" /\ k.name = "delivery" -> [Idle EXCEPT !.op = k.op,
                                                        !.step = "audit", !.key = k.key]
      [] OTHER -> Idle

\* The worker has still to write the vault i or its delivery document.
WorkerIsOn(i) == /\ call[Worker].op = "worker" /\ call[Worker].key = i
                 /\ call[Worker].step \notin {"update", "audit"}
                 /\ call[Worker].name # "audit_log"

\* write(text)
Fill(p) ==
    LET k == call[p]
    IN /\ k.step = "fill"
       /\ IF k.name = "vault"
          THEN vaultsFile' = k.vtext /\ UNCHANGED files
          ELSE files' = [files EXCEPT ![k.name] = k.text] /\ UNCHANGED vaultsFile
       /\ intended' = IF ~ChangesOne(k) THEN intended
                       ELSE IF k.name = "vault"
                       THEN [intended EXCEPT !.vaults[k.key] = k.vtext.vaults[k.key]]
                       ELSE [intended EXCEPT !.docs[k.name][k.key] = k.text[k.key]]
       /\ disturbed' = IF \E q \in Processes \ {p} : HoldsCopy(q, k.name)
                       THEN disturbed \cup {k.name} ELSE disturbed
       /\ stranded' = IF k.op = "delete_vault" /\ WorkerIsOn(k.key)
                      THEN stranded \cup {k.key} ELSE stranded
       /\ call' = [call EXCEPT ![p] = Resumed(k)]
       /\ UNCHANGED <<serving, written, deaths, mix>>

-----------------------------------------------------------------------------
(* initialize, run before every read of the backend: the legacy documents of  *)
(* one type are added to their file, unless it has them already, and then     *)
(* taken out of vaults.json; types in the order users, deliveries, audit.     *)
(* Start-up is one thread's; the requests that come later run it as well.     *)
StartingAlone == \A c \in Clients : call[c] = Idle

FirstLegacy == CASE "user" \in Legacy -> "user"
                 [] "user" \notin Legacy /\ "delivery" \in Legacy -> "delivery"
                 [] OTHER -> "audit_log"

ReadLegacy(p) ==
    LET k == call[p]
    IN /\ p \in Clients /\ Legacy # {}
       /\ \/ k = Idle /\ (serving \/ StartingAlone)
          \/ k.step \in ReadingSteps
       /\ call' = [call EXCEPT ![p] =
             [k EXCEPT !.op = IF k = Idle THEN "initialize" ELSE k.op, !.step = "merge",
                       !.name = FirstLegacy, !.vtext = vaultsFile,
                       !.after = IF k = Idle THEN "idle" ELSE k.step]]
       /\ OnDiskUnchanged /\ UNCHANGED written

\* The legacy document takes the place of one moved before.
MergedOverwriting(docs, legacy) ==
    [i \in Ids |-> IF legacy[i] # None THEN legacy[i] ELSE docs[i]]
Merged(docs, legacy) ==
    [i \in Ids |-> IF docs[i] # None THEN docs[i] ELSE legacy[i]]

MergeLegacy(p) ==
    LET k == call[p]
    IN /\ k.step = "merge"
       /\ Rewrite(p, k.name, k.key, Merged(files[k.name], k.vtext.legacy[k.name]), k.vtext)
       /\ OnDiskUnchanged /\ UNCHANGED written

-----------------------------------------------------------------------------
(* Start-up: initialize, then backfill_document_shapes, which rewrites a file *)
(* with documents of an older version in it, to add their types, and then      *)
(* gives every vault that shows a delivery its delivery document.              *)
HasDeliveryShape(v) == \/ v.status \in VAULT_ACTIVATION_TERMINAL_STATUSES
                       \/ v.packages # {} \/ v.error

StartBackfill(p) ==
    /\ ~serving /\ Legacy = {}
    /\ p \in Clients /\ StartingAlone
    /\ call' = [call EXCEPT ![p] = [Idle EXCEPT !.op = "backfill", !.step = "shape_vault"]]
    /\ OnDiskUnchanged /\ UNCHANGED written

\* The documents keep their contents: what is written is what has been read.
ShapeFile(p) ==
    LET name == PassOver[call[p].step]
    IN /\ call[p].step \in DOMAIN PassOver /\ Legacy = {}
       /\ \/ call' = [call EXCEPT ![p].step = NextPass[name]]
          \/ /\ mix.legacy > 0
             /\ Rewrite(p, name, None, IF name = "vault" THEN None ELSE files[name],
                                       IF name = "vault" THEN vaultsFile ELSE None)
       /\ OnDiskUnchanged /\ UNCHANGED written

\* A delivery_error that is stored as null counts as one; a document does not tell
\* it from an absent one, so any other vault may be taken for delivered as well.
ListVaults(p) ==
    /\ call[p].step = "list" /\ Legacy = {}
    /\ \E T \in SUBSET {i \in Ids : Known(i)} :
          /\ \A i \in Ids : Known(i) /\ HasDeliveryShape(Doc(i)) => i \in T
          /\ call' = [call EXCEPT ![p].step = "backfill", ![p].todo = T]
    /\ OnDiskUnchanged /\ UNCHANGED written

BackfillNext(p) ==
    /\ call[p].step = "backfill" /\ Legacy = {}
    /\ IF call[p].todo = {}
       THEN call' = [call EXCEPT ![p] = Idle] /\ serving' = TRUE /\ UNCHANGED written
       ELSE \E i \in call[p].todo :
               /\ written < mix.writes /\ written' = written + 1
               /\ call' = [call EXCEPT ![p] = [call[p] EXCEPT
                              !.step = "truncate", !.name = "delivery",
                              !.key = i, !.todo = call[p].todo \ {i},
                              !.text = [files["delivery"] EXCEPT ![i] = written + 1]]]
               /\ UNCHANGED serving
    /\ UNCHANGED <<disk, deaths, mix, localHistory>>

-----------------------------------------------------------------------------
(* The operations on vaults.json.  Each looks its vault up in the list it    *)
(* has read; one that does not find it, or refuses, writes nothing.          *)
Operate(p, op, name, key, text, vtext) ==
    /\ op \in mix.ops /\ serving /\ Legacy = {}
    /\ p \in Clients /\ call[p] = Idle
    /\ written < mix.writes /\ written' = written + 1
    /\ call' = [call EXCEPT ![p] = [Idle EXCEPT !.op = op, !.step = "truncate", !.name = name,
                                        !.key = key, !.text = text, !.vtext = vtext]]
    /\ disturbed' = IF op = "delete_user" /\ BeingWritten("vault")
                    THEN disturbed \cup {name} ELSE disturbed
    /\ UNCHANGED <<disk, serving, deaths, mix, intended, stranded>>

EditVault(p, op, i, doc) ==
    Operate(p, op, "vault", i, None, [vaultsFile EXCEPT !.vaults[i] = doc])

CreateVault(p) ==
    \E i \in Ids, recips \in SUBSET Recipients :
        /\ intended.vaults[i] = None /\ ~Known(i) /\ i \notin stranded
        /\ EditVault(p, "create_vault", i, NewVault(recips, recips, 1, 1))

LocalAddRecipient(p) ==
    \E i \in Ids, r \in Recipients, can \in BOOLEAN :
        Known(i) /\ EditVault(p, "add_recipient", i, AddRecipientToVault(Doc(i), r, can, 0))

LocalRemoveRecipient(p) ==
    \E i \in Ids, r \in Recipients :
        Known(i) /\ EditVault(p, "remove_recipient", i, RemoveRecipientFromVault(Doc(i), r, 0))

LocalUpdatePermission(p) ==
    \E i \in Ids : Known(i) /\ \E r \in Doc(i).recipients, can \in BOOLEAN :
        EditVault(p, "update_permission", i,
                  UpdateRecipientActivationPermission(Doc(i), r, can, 0))

\* The caller's fields over the vault: the list of recipients, the threshold and the
\* hours of an edit, or the files and the assignments an upload or an edit of a file
\* leaves.
LocalUpdateVault(p) ==
    \E i \in Ids :
        /\ Known(i)
        /\ \/ \E R \in SUBSET Recipients, t, h \in 1..2 : \E A \in SUBSET R :
                  EditVault(p, "update_vault", i,
                      UpdateVault([Doc(i) EXCEPT !.recipients = R, !.can_activate = A,
                                                 !.threshold = t, !.hours = h], 0))
           \/ \E F \in SUBSET Files : \E a \in SUBSET (F \X Doc(i).recipients) :
                  EditVault(p, "update_vault", i,
                      UpdateVault([Doc(i) EXCEPT !.files = F, !.assigned = a], 0))

LocalRemoveFile(p) ==
    \E i \in Ids, f \in Files :
        Known(i) /\ EditVault(p, "remove_file", i, RemoveFileFromVault(Doc(i), f))

LocalAddRequest(p) ==
    \E i \in Ids, r \in Recipients :
        /\ Known(i) /\ MayRequestActivation(Doc(i), r)
        /\ EditVault(p, "add_request", i, AddActivationRequest(Doc(i), r, 0))

LocalRemoveRequest(p) ==
    \E i \in Ids : Known(i) /\ \E r \in Doc(i).requests :
        EditVault(p, "remove_request", i, RemoveActivationRequest(Doc(i), r, 0))

LocalCheckIn(p) ==
    \E i \in Ids : /\ Known(i) /\ Doc(i).status \notin VAULT_ACTIVATION_TERMINAL_STATUSES
                   /\ EditVault(p, "check_in", i, CheckInVault(Doc(i)))

(* delete_vault: vaults.json first, then the delivery of the vault, if any.  *)
LocalDeleteVault(p) ==
    \E i \in Ids : Known(i) /\ EditVault(p, "delete_vault", i, None)

\* The deliveries are compared by the wrong identity, and none is left out.
PurgeNoDelivery(p) ==
    /\ call[p].step = "purge" /\ Legacy = {}
    /\ call' = [call EXCEPT ![p] = Idle]
    /\ OnDiskUnchanged /\ UNCHANGED written
PurgeDeliveries(p) ==
    LET i == call[p].key
    IN /\ call[p].step = "purge" /\ Legacy = {}
       /\ IF files["delivery"][i] # None
          THEN Rewrite(p, "delivery", i, [files["delivery"] EXCEPT ![i] = None], None)
          ELSE call' = [call EXCEPT ![p] = Idle]
       /\ stranded' = IF BeingWritten("delivery") THEN stranded \cup {i} ELSE stranded
       /\ UNCHANGED <<disk, serving, written, deaths, mix, intended, disturbed>>

-----------------------------------------------------------------------------
(* users.json and audit_logs.json.                                           *)
Docs(t) == files[t]
PutDocument(p, op, t, i, doc) == Operate(p, op, t, i, [Docs(t) EXCEPT ![i] = doc], None)

LocalCreateUser(p) ==
    \E i \in Ids : /\ Docs("user")[i] = None /\ intended.docs["user"][i] = None
                   /\ PutDocument(p, "create_user", "user", i, written + 1)

LocalUpdateUser(p) ==
    \E i \in Ids : Docs("user")[i] # None /\ PutDocument(p, "update_user", "user", i, written + 1)

LocalDeleteUser(p) ==
    \E i \in Ids : Docs("user")[i] # None /\ PutDocument(p, "delete_user", "user", i, None)

LocalLogAuditEvent(p) ==
    \E i \in Ids : /\ Docs("audit_log")[i] = None /\ intended.docs["audit_log"][i] = None
                   /\ PutDocument(p, "log_audit_event", "audit_log", i, written + 1)

-----------------------------------------------------------------------------
(* The worker, which reads the files without initialize: it packs the vault    *)
(* it has read, reads vaults.json again to archive the vault or to record its   *)
(* error, then writes the delivery document and an audit entry.                 *)
LocalPackages(v) == {[to |-> r, files |-> {f \in v.files : <<f, r>> \in v.assigned}] :
                        r \in v.recipients}
LocalArchived(v, packages) ==
    [v EXCEPT !.status = "delivered_archived", !.error = FALSE, !.packages = packages]

ReadLocalVault ==
    /\ "worker" \in mix.ops /\ call[Worker] = Idle
    /\ written < mix.writes /\ written' = written + 1
    /\ \E i \in Ids :
          /\ Known(i) /\ (Doc(i).status = "delivered_archived" => Doc(i).packages = {})
          /\ call' = [call EXCEPT ![Worker] = [Idle EXCEPT !.op = "worker", !.step = "update",
                                                            !.key = i, !.seen = Doc(i)]]
    /\ OnDiskUnchanged

\* A vault that is gone from vaults.json when it is to be archived is a failure as well;
\* one that is gone when the error is to be recorded ends the worker.
UpdateLocalVault ==
    LET i == call[Worker].key
        seen == call[Worker].seen
        Write(doc) == call' = [call EXCEPT ![Worker] = [Idle EXCEPT !.op = "worker",
                        !.step = "truncate", !.name = "vault", !.key = i,
                        !.vtext = [vaultsFile EXCEPT !.vaults[i] = doc]]]
    IN /\ call[Worker].step = "update"
       /\ \/ /\ seen # None /\ seen.recipients # {}
             /\ IF Known(i) THEN Write(LocalArchived(Doc(i), LocalPackages(seen)))
                ELSE call' = [call EXCEPT ![Worker].seen = None]
          \/ IF Known(i) THEN Write([Doc(i) EXCEPT !.error = TRUE])
             ELSE call' = [call EXCEPT ![Worker] = Idle]
       /\ OnDiskUnchanged /\ UNCHANGED written

UpsertLocalDelivery ==
    /\ call[Worker].step = "mirror"
    /\ Rewrite(Worker, "delivery", call[Worker].key,
               [Docs("delivery") EXCEPT ![call[Worker].key] = written], None)
    /\ OnDiskUnchanged /\ UNCHANGED written

\* The audit entry of a delivery; a failed delivery records none.
RecordLocalAuditEvent ==
    /\ call[Worker].step = "audit"
    /\ \/ \E i \in Ids : /\ Docs("audit_log")[i] = None /\ intended.docs["audit_log"][i] = None
                         /\ Rewrite(Worker, "audit_log", i,
                                    [Docs("audit_log") EXCEPT ![i] = written], None)
       \/ call' = [call EXCEPT ![Worker] = Idle]
    /\ OnDiskUnchanged /\ UNCHANGED written

-----------------------------------------------------------------------------
(* A process dies; the file it was writing stays empty.                      *)
Die(P) ==
    /\ deaths < mix.deaths /\ deaths' = deaths + 1
    /\ \E p \in P : call[p] # Idle
    /\ call' = [p \in Processes |-> IF p \in P THEN Idle ELSE call[p]]
    /\ disturbed' = disturbed \cup {call[p].name : p \in {q \in P : call[q].step = "fill"}}
    /\ stranded' = stranded \cup {call[p].key : p \in {q \in P : call[q].op = "delete_vault"}}
    /\ UNCHANGED <<disk, written, mix, intended>>

BackendDies == Die(Clients) /\ serving' = FALSE
WorkerDies == Die({Worker}) /\ UNCHANGED serving

VaultOperation(p) ==
    \/ CreateVault(p) \/ LocalAddRecipient(p) \/ LocalRemoveRecipient(p)
    \/ LocalUpdatePermission(p) \/ LocalUpdateVault(p) \/ LocalRemoveFile(p)
    \/ LocalAddRequest(p) \/ LocalRemoveRequest(p) \/ LocalCheckIn(p)
    \/ LocalDeleteVault(p) \/ PurgeDeliveries(p)

ProcessStep(p) ==
    \/ ReadLegacy(p) \/ MergeLegacy(p) \/ Truncate(p) \/ Fill(p)
    \/ StartBackfill(p) \/ ShapeFile(p) \/ ListVaults(p) \/ BackfillNext(p)
    \/ VaultOperation(p)
    \/ LocalCreateUser(p) \/ LocalUpdateUser(p) \/ LocalDeleteUser(p)
    \/ LocalLogAuditEvent(p)

Next == \/ \E p \in Processes : ProcessStep(p)
        \/ ReadLocalVault \/ UpdateLocalVault \/ UpsertLocalDelivery \/ RecordLocalAuditEvent
        \/ BackendDies \/ WorkerDies

LocalSpec == Init /\ [][Next]_localVars

-----------------------------------------------------------------------------
(* Properties.                                                              *)

\* The documents of a type wherever they are: in their file or, not moved yet,
\* in vaults.json.
Logical(t) == Merged(files[t], vaultsFile.legacy[t])
Sound(name) == name \notin disturbed /\ ~BeingWritten(name)

\* The tables are what the completed operations made them, except for a file that
\* two overlapping operations wrote or a process left in the middle of a write:
\* above all, no death of the backend while initialize moves documents loses one,
\* doubles it or brings an older version back (_migrate_legacy_user_items and its
\* two siblings, run again before every operation).
CompletedWritesAreOnDisk ==
    /\ Sound("vault") => vaultsFile.vaults = intended.vaults
    /\ \A t \in Moved : Sound("vault") /\ Sound(t) => Logical(t) = intended.docs[t]

\* Whatever the overlaps, every vault in vaults.json agrees with itself, those the
\* worker writes without the store's normalisations too (_update_local_vault).
LocalDocumentsConsistent == \A i \in Ids : Known(i) => Consistent(Doc(i))

\* A delivery document outlives its vault only when the deletion died or met the
\* worker halfway, when it read deliveries.json emptied by another writer, or when
\* a file was written from a stale copy (delete_vault).
TwinsFollowVaults ==
    \A i \in Ids : intended.docs["delivery"][i] # None /\ intended.vaults[i] = None =>
        \/ i \in stranded \/ {"vault", "delivery"} \cap disturbed # {}
        \/ \E p \in Clients : call[p].op = "delete_vault" /\ call[p].key = i
=============================================================================
