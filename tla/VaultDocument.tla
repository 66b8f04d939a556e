---------------------------- MODULE VaultDocument ----------------------------
(***************************************************************************)
(* The vault document of "Last Writes" and what the store operations of    *)
(* backend/services/cosmos_service.py do to one copy of it.  Everything    *)
(* here is a function from a document to a document: the interleavings of  *)
(* the processes that read and replace documents are in VaultStore and     *)
(* DeliveryPipeline.                                                       *)
(*                                                                         *)
(* Data abstraction.  Recipients, files and requests are sets: the code    *)
(* keeps lists without duplicates and never depends on their order.  A     *)
(* timestamp is kept only where the code compares it (the expiry of the    *)
(* grace period); elsewhere what matters is whether it is set.             *)
(***************************************************************************)
EXTENDS Integers, FiniteSets

CONSTANTS
    Recipients,     \* e-mail addresses that may be named in a vault
    Files,          \* identities of uploaded files (one blob each)
    None            \* the JSON null of an optional timestamp

ASSUME RecipientsFinite == IsFiniteSet(Recipients)
ASSUME NoneIsNoTime == None \notin Int

Statuses == {"active", "pending_activation", "grace_period",
             "delivery_initiated", "delivered_archived"}

\* Statuses the activation rules leave alone; "delivered" and "disabled" are
\* in the code's set too, but no code path writes them any more.
VAULT_ACTIVATION_TERMINAL_STATUSES == {"delivery_initiated", "delivered_archived"}

\* Statuses in which the API refuses every owner mutation.
FINAL_IMMUTABLE_VAULT_STATUSES == {"delivered_archived"}

Package == [to: Recipients, files: SUBSET Files]

VaultDoc == [status       : Statuses,
             recipients   : SUBSET Recipients,
             can_activate : SUBSET Recipients,      \* recipients with the flag set
             threshold    : Nat \ {0},
             requests     : SUBSET Recipients,      \* activation_requests
             hours        : Nat \ {0},              \* grace_period_hours
             expires      : Nat \cup {None},        \* grace_period_expires_at
             published    : BOOLEAN,                \* grace_period_event_published_at is set
             files        : SUBSET Files,
             assigned     : SUBSET (Files \X Recipients),  \* recipient_emails of each file
             job_started  : BOOLEAN,                \* delivery_job_started_at is set
             packages     : SUBSET Package,         \* delivery_packages
             error        : BOOLEAN]                \* delivery_error is set

ASSUME NoneIsNoDocument == None \notin VaultDoc

-----------------------------------------------------------------------------
(* The document a call of POST /vaults stores: the threshold was validated  *)
(* against the activating recipients, and clamped again by the store.       *)
NewVault(recips, can, t, h) ==
    [status |-> "active", recipients |-> recips, can_activate |-> can,
     threshold |-> t, requests |-> {}, hours |-> h, expires |-> None,
     published |-> FALSE, files |-> {}, assigned |-> {},
     job_started |-> FALSE, packages |-> {}, error |-> FALSE]

\* validate_activation_threshold_for_recipients: what the API accepts.
ValidThreshold(t, can) == can = {} \/ t <= Cardinality(can)

-----------------------------------------------------------------------------
(* The four normalisations every recipient-related write ends with.         *)

NormalizeFilesForAnybody(v) == v
NormalizeFilesForRecipients(v) ==
    [v EXCEPT !.assigned = {a \in @ : a[2] \in v.recipients}]

ClampToEmptyList(v) ==
    IF Cardinality(v.can_activate) < v.threshold
    THEN [v EXCEPT !.threshold = Cardinality(v.can_activate)]
    ELSE v
ClampActivationThreshold(v) ==
    IF v.can_activate # {} /\ Cardinality(v.can_activate) < v.threshold
    THEN [v EXCEPT !.threshold = Cardinality(v.can_activate)]
    ELSE v

PruneActivationRequests(v) == [v EXCEPT !.requests = @ \cap v.can_activate]

SettleForgettingRequests(v) ==
    ClampActivationThreshold(NormalizeFilesForRecipients(v))
Settle(v) ==
    PruneActivationRequests(ClampActivationThreshold(NormalizeFilesForRecipients(v)))

\* The status the counted requests call for; the clock starts only on entry.
Lowered(v, status) ==
    [v EXCEPT !.status = status, !.expires = None, !.published = FALSE]

EnterGracePeriod(v, now) ==
    [v EXCEPT !.status = "grace_period", !.expires = now + v.hours,
              !.published = FALSE]

Rated(v, now) ==
    IF v.requests = {} THEN Lowered(v, "active")
    ELSE IF Cardinality(v.requests) < v.threshold THEN Lowered(v, "pending_activation")
    ELSE IF v.status # "grace_period" THEN EnterGracePeriod(v, now)
    ELSE v

RatedRestartingClock(v, now) ==
    IF v.requests = {} THEN Lowered(v, "active")
    ELSE IF Cardinality(v.requests) < v.threshold THEN Lowered(v, "pending_activation")
    ELSE EnterGracePeriod(v, now)
RecomputeRestartingClock(v, now) ==
    IF v.status \in VAULT_ACTIVATION_TERMINAL_STATUSES
    THEN v ELSE RatedRestartingClock(Settle(v), now)

RecomputeActivationState(v, now) ==
    IF v.status \in VAULT_ACTIVATION_TERMINAL_STATUSES
    THEN v ELSE Rated(Settle(v), now)

-----------------------------------------------------------------------------
(* The store operations, each as a function of the document it read.        *)

\* update_vault: `merged` is the document read with the caller's fields over it.
\* Also the tail of every recipient operation.
UpdateVault(merged, now) == RecomputeActivationState(Settle(merged), now)

AddRecipientToVault(v, r, can, now) ==
    IF r \in v.recipients
    THEN UpdateVault(v, now)
    ELSE UpdateVault([v EXCEPT !.recipients = @ \cup {r},
                               !.can_activate = IF can THEN @ \cup {r} ELSE @], now)

RemoveRecipientFromVault(v, r, now) ==
    UpdateVault([v EXCEPT !.recipients = @ \ {r}, !.can_activate = @ \ {r}], now)

UpdateRecipientActivationPermission(v, r, can, now) ==
    UpdateVault([v EXCEPT !.can_activate = IF can THEN @ \cup {r} ELSE @ \ {r}], now)

RemoveFileFromVault(v, f) ==
    [v EXCEPT !.files = @ \ {f}, !.assigned = {a \in @ : a[1] # f}]

\* add_activation_request refuses a recipient without the flag, a vault in a
\* terminal status and a request already recorded.
MayRequestActivation(v, r) ==
    /\ r \in v.can_activate
    /\ v.status \notin VAULT_ACTIVATION_TERMINAL_STATUSES
    /\ r \notin v.requests

AddActivationRequest(v, r, now) ==
    RecomputeActivationState([v EXCEPT !.requests = @ \cup {r}], now)

RemoveActivationRequest(v, r, now) ==
    RecomputeActivationState([v EXCEPT !.requests = @ \ {r}], now)

CheckInKeepingRequests(v) ==
    [v EXCEPT !.status = "active", !.expires = None, !.published = FALSE,
              !.error = FALSE]
CheckInVault(v) ==
    [v EXCEPT !.status = "active", !.expires = None, !.published = FALSE,
              !.error = FALSE, !.requests = {}]

-----------------------------------------------------------------------------
(* What must hold of every copy of the document that is ever stored: its    *)
(* fields agree with each other.  No reader could make sense of a document  *)
(* that breaks one of these.                                                *)

\* A recorded request belongs to a recipient who may activate.
ConsentOK(v) == v.can_activate \subseteq v.recipients /\ v.requests \subseteq v.can_activate

\* The threshold can be reached as long as somebody may activate at all.
ThresholdOK(v) == v.can_activate # {} => v.threshold <= Cardinality(v.can_activate)

\* The status is the one the recorded requests call for.
StatusOK(v) ==
    /\ v.status = "active" => v.requests = {}
    /\ v.status = "pending_activation" =>
          v.requests # {} /\ Cardinality(v.requests) < v.threshold
    /\ v.status = "grace_period" =>
          v.requests # {} /\ v.threshold <= Cardinality(v.requests)

\* The grace-period clock runs in the grace period and in no earlier status.
ClockOK(v) ==
    /\ v.status \in {"active", "pending_activation"} => v.expires = None /\ ~v.published
    /\ v.status = "grace_period" => v.expires # None

\* Files are assigned to recipients of the vault only.
FilesOK(v) == v.assigned \subseteq v.files \X v.recipients

\* An archived vault names at least one package.
ArchiveOK(v) == v.status = "delivered_archived" => v.packages # {}

Consistent(v) == /\ ConsentOK(v)
                 /\ ThresholdOK(v)
                 /\ StatusOK(v)
                 /\ ClockOK(v)
                 /\ FilesOK(v)
                 /\ ArchiveOK(v)

=============================================================================
