------------------------- MODULE VaultDocumentProofs -------------------------
(***************************************************************************)
(* What the store operations preserve of one document: its type, and the   *)
(* agreement of its fields (Consistent).  The argument has three layers:   *)
(* the four normalisations (Settle), the status computed from the counted  *)
(* requests (Rated), and the operations, which all end with both.          *)
(***************************************************************************)
EXTENDS VaultDocument, FiniteSetTheorems, TLAPS

\* Sets of recipients are finite, so that thresholds can be compared with their sizes.
LEMMA RecipientSets ==
    ASSUME NEW S \in SUBSET Recipients
    PROVE  /\ IsFiniteSet(S)
           /\ Cardinality(S) \in Nat
           /\ S # {} => Cardinality(S) \in Nat \ {0}
<1>1. IsFiniteSet(S)
  BY FS_Subset, RecipientsFinite
<1>2. Cardinality(S) \in Nat
  BY <1>1, FS_CardinalityType
<1>3. S # {} => Cardinality(S) # 0
  BY <1>1, FS_EmptySet
<1> QED
  BY <1>1, <1>2, <1>3

\* What a document must satisfy for the normalisations to make it consistent:
\* the part of Consistent that no normalisation repairs.
Mergeable(v) == /\ v \in VaultDoc
                /\ v.can_activate \subseteq v.recipients
                /\ v.assigned \subseteq v.files \X Recipients
                /\ ClockOK(v)
                /\ ArchiveOK(v)

\* What every write carries over from the document it was made from: the files, the
\* packages, and the fact that delivery had not begun.
Carries(w, v) == /\ w.files = v.files
                 /\ w.packages = v.packages
                 /\ w.status \in VAULT_ACTIVATION_TERMINAL_STATUSES =>
                       v.status \in VAULT_ACTIVATION_TERMINAL_STATUSES

\* normalize_files_for_recipients establishes FilesOK and keeps what held.
LEMMA NormalizeLemma ==
    ASSUME NEW v, Mergeable(v)
    PROVE  LET w == NormalizeFilesForRecipients(v)
           IN Mergeable(w) /\ FilesOK(w) /\ w.status = v.status /\ Carries(w, v)
<1> DEFINE w == NormalizeFilesForRecipients(v)
<1>1. v \in VaultDoc
  BY DEF Mergeable
<1>2. w = [v EXCEPT !.assigned = {a \in v.assigned : a[2] \in v.recipients}]
  BY <1>1 DEF NormalizeFilesForRecipients, VaultDoc
<1>3. w \in VaultDoc
  BY <1>1, <1>2 DEF VaultDoc
<1>4. /\ w.status = v.status /\ w.recipients = v.recipients
      /\ w.can_activate = v.can_activate /\ w.expires = v.expires
      /\ w.published = v.published /\ w.files = v.files
      /\ w.packages = v.packages
      /\ w.assigned = {a \in v.assigned : a[2] \in v.recipients}
  BY <1>1, <1>2 DEF VaultDoc
<1>5. w.assigned \subseteq w.files \X w.recipients
  BY <1>4 DEF Mergeable
<1> QED
  BY <1>3, <1>4, <1>5 DEF Mergeable, ClockOK, ArchiveOK, FilesOK, Carries

\* clamp_activation_threshold establishes ThresholdOK and never yields zero.
LEMMA ClampLemma ==
    ASSUME NEW v, Mergeable(v), FilesOK(v)
    PROVE  LET w == ClampActivationThreshold(v)
           IN Mergeable(w) /\ FilesOK(w) /\ ThresholdOK(w) /\ w.status = v.status
              /\ Carries(w, v)
<1> DEFINE n == Cardinality(v.can_activate)
           w == ClampActivationThreshold(v)
<1>1. v \in VaultDoc /\ v.can_activate \in SUBSET Recipients
  BY DEF Mergeable, VaultDoc
<1>2. n \in Nat /\ (v.can_activate # {} => n \in Nat \ {0})
  BY <1>1, RecipientSets
<1>3. CASE v.can_activate # {} /\ n < v.threshold
  <2>1. w = [v EXCEPT !.threshold = n]
    BY <1>3 DEF ClampActivationThreshold
  <2>2. w \in VaultDoc
    BY <1>1, <1>2, <1>3, <2>1 DEF VaultDoc
  <2>3. /\ w.status = v.status /\ w.recipients = v.recipients
        /\ w.can_activate = v.can_activate /\ w.expires = v.expires
        /\ w.published = v.published /\ w.files = v.files
        /\ w.assigned = v.assigned /\ w.packages = v.packages
        /\ w.threshold = n
    BY <1>1, <2>1 DEF VaultDoc
  <2> QED
    BY <1>2, <2>2, <2>3 DEF Mergeable, FilesOK, ThresholdOK, ClockOK, ArchiveOK, Carries
<1>4. CASE ~(v.can_activate # {} /\ n < v.threshold)
  <2>1. w = v
    BY <1>4 DEF ClampActivationThreshold
  <2>2. v.threshold \in Nat
    BY <1>1 DEF VaultDoc
  <2>3. ThresholdOK(v)
    BY <1>2, <1>4, <2>2 DEF ThresholdOK
  <2> QED
    BY <2>1, <2>3 DEF Carries
<1> QED
  BY <1>3, <1>4

\* prune_activation_requests establishes ConsentOK without undoing the others.
LEMMA PruneLemma ==
    ASSUME NEW v, Mergeable(v), FilesOK(v), ThresholdOK(v)
    PROVE  LET w == PruneActivationRequests(v)
           IN Mergeable(w) /\ FilesOK(w) /\ ThresholdOK(w) /\ ConsentOK(w)
              /\ w.status = v.status /\ Carries(w, v)
<1> DEFINE w == PruneActivationRequests(v)
<1>1. v \in VaultDoc
  BY DEF Mergeable
<1>2. w = [v EXCEPT !.requests = v.requests \cap v.can_activate]
  BY <1>1 DEF PruneActivationRequests, VaultDoc
<1>3. w \in VaultDoc
  BY <1>1, <1>2 DEF VaultDoc
<1>4. /\ w.status = v.status /\ w.recipients = v.recipients
      /\ w.can_activate = v.can_activate /\ w.expires = v.expires
      /\ w.published = v.published /\ w.files = v.files
      /\ w.assigned = v.assigned /\ w.packages = v.packages
      /\ w.threshold = v.threshold
      /\ w.requests = v.requests \cap v.can_activate
  BY <1>1, <1>2 DEF VaultDoc
<1> QED
  BY <1>3, <1>4 DEF Mergeable, FilesOK, ThresholdOK, ConsentOK, ClockOK, ArchiveOK,
                    Carries

\* The normalisations establish everything but the agreement of status and requests.
Settled(v) == Mergeable(v) /\ FilesOK(v) /\ ThresholdOK(v) /\ ConsentOK(v)

\* The three normalisations together settle any merged document.
LEMMA SettleLemma ==
    ASSUME NEW v, Mergeable(v)
    PROVE  Settled(Settle(v)) /\ Settle(v).status = v.status /\ Carries(Settle(v), v)
<1> DEFINE a == NormalizeFilesForRecipients(v)
           b == ClampActivationThreshold(a)
<1>1. Mergeable(a) /\ FilesOK(a) /\ a.status = v.status /\ Carries(a, v)
  BY NormalizeLemma
<1>2. Mergeable(b) /\ FilesOK(b) /\ ThresholdOK(b) /\ b.status = a.status
      /\ Carries(b, a)
  BY <1>1, ClampLemma
<1>3. /\ Settled(PruneActivationRequests(b))
      /\ PruneActivationRequests(b).status = b.status
      /\ Carries(PruneActivationRequests(b), b)
  BY <1>2, PruneLemma DEF Settled
<1> QED
  BY <1>1, <1>2, <1>3 DEF Settle, Carries

\* A settled document whose requests do not suffice is consistent once lowered.
LEMMA LoweredLemma ==
    ASSUME NEW v, Settled(v), NEW s \in {"active", "pending_activation"},
           s = "active" => v.requests = {},
           s = "pending_activation" =>
               v.requests # {} /\ Cardinality(v.requests) < v.threshold
    PROVE  /\ Lowered(v, s) \in VaultDoc /\ Consistent(Lowered(v, s))
           /\ Carries(Lowered(v, s), v)
<1> DEFINE w == Lowered(v, s)
<1>1. v \in VaultDoc
  BY DEF Settled, Mergeable
<1>2. w \in VaultDoc
  BY <1>1 DEF Lowered, VaultDoc, Statuses
<1>3. /\ w.status = s /\ w.recipients = v.recipients
      /\ w.can_activate = v.can_activate /\ w.expires = None
      /\ w.published = FALSE /\ w.files = v.files
      /\ w.assigned = v.assigned /\ w.packages = v.packages
      /\ w.threshold = v.threshold /\ w.requests = v.requests
  BY <1>1 DEF Lowered, VaultDoc
<1> QED
  BY <1>2, <1>3 DEF Settled, Consistent, ConsentOK, ThresholdOK, StatusOK, ClockOK,
                    FilesOK, ArchiveOK, Carries, VAULT_ACTIVATION_TERMINAL_STATUSES

\* A settled document with enough requests is consistent once its grace period starts.
LEMMA GraceLemma ==
    ASSUME NEW v, Settled(v), NEW t \in Nat, v.requests # {},
           v.threshold <= Cardinality(v.requests)
    PROVE  /\ EnterGracePeriod(v, t) \in VaultDoc /\ Consistent(EnterGracePeriod(v, t))
           /\ Carries(EnterGracePeriod(v, t), v)
<1> DEFINE w == EnterGracePeriod(v, t)
<1>1. v \in VaultDoc
  BY DEF Settled, Mergeable
<1>2. v.hours \in Nat /\ t + v.hours \in Nat
  BY <1>1 DEF VaultDoc
<1>3. w \in VaultDoc
  BY <1>1, <1>2 DEF EnterGracePeriod, VaultDoc, Statuses
<1>4. /\ w.status = "grace_period" /\ w.recipients = v.recipients
      /\ w.can_activate = v.can_activate /\ w.expires = t + v.hours
      /\ w.published = FALSE /\ w.files = v.files
      /\ w.assigned = v.assigned /\ w.packages = v.packages
      /\ w.threshold = v.threshold /\ w.requests = v.requests
  BY <1>1 DEF EnterGracePeriod, VaultDoc
<1>5. w.expires # None
  BY <1>2, <1>4, NoneIsNoTime
<1> QED
  BY <1>3, <1>4, <1>5 DEF Settled, Consistent, ConsentOK, ThresholdOK, StatusOK, ClockOK,
                          FilesOK, ArchiveOK, Carries, VAULT_ACTIVATION_TERMINAL_STATUSES

\* Whatever status the requests call for, the settled document becomes consistent.
LEMMA RatedLemma ==
    ASSUME NEW v, Settled(v), NEW t \in Nat
    PROVE  Rated(v, t) \in VaultDoc /\ Consistent(Rated(v, t)) /\ Carries(Rated(v, t), v)
<1> DEFINE n == Cardinality(v.requests)
<1>1. v \in VaultDoc /\ v.requests \in SUBSET Recipients /\ v.threshold \in Nat
  BY DEF Settled, Mergeable, VaultDoc
<1>2. n \in Nat
  BY <1>1, RecipientSets
<1>3. CASE v.requests = {}
  BY <1>3, LoweredLemma DEF Rated
<1>4. CASE v.requests # {} /\ n < v.threshold
  BY <1>4, LoweredLemma DEF Rated
<1>5. CASE v.requests # {} /\ ~(n < v.threshold) /\ v.status # "grace_period"
  <2>1. v.threshold <= n
    BY <1>1, <1>2, <1>5
  <2>2. Rated(v, t) = EnterGracePeriod(v, t)
    BY <1>5 DEF Rated
  <2> QED
    BY <1>5, <2>1, <2>2, GraceLemma
<1>6. CASE v.requests # {} /\ ~(n < v.threshold) /\ v.status = "grace_period"
  <2>1. v.threshold <= n
    BY <1>1, <1>2, <1>6
  <2>2. Rated(v, t) = v
    BY <1>6 DEF Rated
  <2>3. Consistent(v)
    BY <1>6, <2>1 DEF Settled, Mergeable, Consistent, StatusOK
  <2> QED
    BY <1>1, <2>2, <2>3 DEF Carries
<1> QED
  BY <1>3, <1>4, <1>5, <1>6

\* recompute_activation_state leaves a consistent document, whatever it is given, unless
\* the vault is past the activation rules; then it leaves the document alone.
LEMMA RecomputeLemma ==
    ASSUME NEW v, Mergeable(v), NEW t \in Nat,
           v.status \in VAULT_ACTIVATION_TERMINAL_STATUSES => Settled(v)
    PROVE  /\ RecomputeActivationState(v, t) \in VaultDoc
           /\ Consistent(RecomputeActivationState(v, t))
           /\ Carries(RecomputeActivationState(v, t), v)
<1>1. CASE v.status \in VAULT_ACTIVATION_TERMINAL_STATUSES
  <2>1. RecomputeActivationState(v, t) = v
    BY <1>1 DEF RecomputeActivationState
  <2>2. StatusOK(v)
    BY <1>1 DEF StatusOK, VAULT_ACTIVATION_TERMINAL_STATUSES
  <2> QED
    BY <1>1, <2>1, <2>2 DEF Settled, Mergeable, Consistent, Carries
<1>2. CASE v.status \notin VAULT_ACTIVATION_TERMINAL_STATUSES
  <2>1. RecomputeActivationState(v, t) = Rated(Settle(v), t)
    BY <1>2 DEF RecomputeActivationState
  <2> QED
    BY <2>1, SettleLemma, RatedLemma DEF Carries
<1> QED
  BY <1>1, <1>2

\* Every write of update_vault and of the recipient operations is consistent.
LEMMA UpdateVaultLemma ==
    ASSUME NEW v, Mergeable(v), NEW t \in Nat
    PROVE  /\ UpdateVault(v, t) \in VaultDoc /\ Consistent(UpdateVault(v, t))
           /\ Carries(UpdateVault(v, t), v)
<1>1. Settled(Settle(v)) /\ Mergeable(Settle(v)) /\ Carries(Settle(v), v)
  BY SettleLemma DEF Settled
<1> QED
  BY <1>1, RecomputeLemma DEF UpdateVault, Carries

-----------------------------------------------------------------------------
(* The operations.                                                          *)

\* A stored document may be merged with a caller's fields.
LEMMA ConsistentIsSettled ==
    ASSUME NEW v \in VaultDoc, Consistent(v)
    PROVE  Settled(v) /\ Mergeable(v)
<1>1. v.assigned \subseteq v.files \X Recipients
  BY DEF Consistent, FilesOK, VaultDoc
<1> QED
  BY <1>1 DEF Consistent, Settled, Mergeable, ConsentOK

\* The document POST /vaults stores is consistent.
LEMMA NewVaultLemma ==
    ASSUME NEW R \in SUBSET Recipients, NEW A \in SUBSET R, NEW t \in Nat \ {0},
           NEW h \in Nat \ {0}, ValidThreshold(t, A)
    PROVE  NewVault(R, A, t, h) \in VaultDoc /\ Consistent(NewVault(R, A, t, h))
<1> DEFINE v == NewVault(R, A, t, h)
<1>1. v \in VaultDoc
  BY DEF NewVault, VaultDoc, Statuses
<1>2. ThresholdOK(v) /\ StatusOK(v) /\ ConsentOK(v) /\ ClockOK(v)
  BY DEF NewVault, ThresholdOK, StatusOK, ConsentOK, ClockOK, ValidThreshold
<1>3. FilesOK(v) /\ ArchiveOK(v)
  BY DEF NewVault, FilesOK, ArchiveOK
<1> QED
  BY <1>1, <1>2, <1>3 DEF Consistent

\* Fields written over a consistent document before update_vault: the recipient list,
\* the threshold and the period (PATCH), or the file list (upload, assignment).
LEMMA MergeRecipientsLemma ==
    ASSUME NEW v \in VaultDoc, Consistent(v), NEW R \in SUBSET Recipients,
           NEW A \in SUBSET R, NEW t \in Nat \ {0}, NEW h \in Nat \ {0}
    PROVE  LET w == [v EXCEPT !.recipients = R, !.can_activate = A,
                              !.threshold = t, !.hours = h]
           IN Mergeable(w) /\ Carries(w, v)
<1> DEFINE w == [v EXCEPT !.recipients = R, !.can_activate = A,
                          !.threshold = t, !.hours = h]
<1>1. w \in VaultDoc
  BY DEF VaultDoc
<1>2. /\ w.recipients = R /\ w.can_activate = A /\ w.assigned = v.assigned
      /\ w.files = v.files /\ w.status = v.status /\ w.expires = v.expires
      /\ w.published = v.published /\ w.packages = v.packages
  BY DEF VaultDoc
<1>3. Mergeable(v)
  BY ConsistentIsSettled
<1> QED
  BY <1>1, <1>2, <1>3 DEF Mergeable, ClockOK, ArchiveOK, Carries

WithFiles(v, F, A) == [v EXCEPT !.files = F, !.assigned = A]

\* A consistent document with another file list over it may be merged.
LEMMA MergeFilesLemma ==
    ASSUME NEW v \in VaultDoc, Consistent(v), NEW F, F \subseteq Files,
           NEW A, A \subseteq F \X Recipients
    PROVE  /\ Mergeable(WithFiles(v, F, A))
           /\ WithFiles(v, F, A).files = F
           /\ WithFiles(v, F, A).packages = v.packages
           /\ WithFiles(v, F, A).status = v.status
<1> DEFINE w == [v EXCEPT !.files = F, !.assigned = A]
<1>1. A \in SUBSET (Files \X Recipients)
  OBVIOUS
<1>2. w \in VaultDoc
  BY <1>1 DEF VaultDoc
<1>3. /\ w.recipients = v.recipients /\ w.can_activate = v.can_activate
      /\ w.assigned = A /\ w.files = F /\ w.status = v.status
      /\ w.expires = v.expires /\ w.published = v.published /\ w.packages = v.packages
  BY DEF VaultDoc
<1>4. Mergeable(v)
  BY ConsistentIsSettled
<1> QED
  BY <1>2, <1>3, <1>4 DEF Mergeable, ClockOK, ArchiveOK, WithFiles

\* The recipient list of one recipient more, fewer, or with another flag.
LEMMA RecipientListLemma ==
    ASSUME NEW v \in VaultDoc, Consistent(v), NEW R \in SUBSET Recipients,
           NEW A \in SUBSET R
    PROVE  LET w == [v EXCEPT !.recipients = R, !.can_activate = A]
           IN Mergeable(w) /\ Carries(w, v)
<1>1. v.threshold \in Nat \ {0} /\ v.hours \in Nat \ {0}
  BY DEF VaultDoc
<1>2. LET w == [v EXCEPT !.recipients = R, !.can_activate = A,
                         !.threshold = v.threshold, !.hours = v.hours]
      IN Mergeable(w) /\ Carries(w, v)
  BY <1>1, MergeRecipientsLemma
<1>3. [v EXCEPT !.recipients = R, !.can_activate = A, !.threshold = v.threshold,
                !.hours = v.hours]
      = [v EXCEPT !.recipients = R, !.can_activate = A]
  BY DEF VaultDoc
<1> QED
  BY <1>2, <1>3, Zenon

\* add_recipient_to_vault writes a consistent document.
LEMMA AddRecipientLemma ==
    ASSUME NEW v \in VaultDoc, Consistent(v), NEW r \in Recipients, NEW can \in BOOLEAN,
           NEW t \in Nat
    PROVE  /\ AddRecipientToVault(v, r, can, t) \in VaultDoc
           /\ Consistent(AddRecipientToVault(v, r, can, t))
           /\ Carries(AddRecipientToVault(v, r, can, t), v)
<1>1. v.recipients \in SUBSET Recipients /\ v.can_activate \subseteq v.recipients
  BY DEF VaultDoc, Consistent, ConsentOK
<1>2. CASE r \in v.recipients
  BY <1>2, ConsistentIsSettled, UpdateVaultLemma DEF AddRecipientToVault, Carries
<1>3. CASE r \notin v.recipients
  <2> DEFINE R == v.recipients \cup {r}
             A == IF can THEN v.can_activate \cup {r} ELSE v.can_activate
             w == [v EXCEPT !.recipients = R, !.can_activate = A]
  <2>1. R \in SUBSET Recipients /\ A \in SUBSET R
    BY <1>1
  <2>2. Mergeable(w) /\ Carries(w, v)
    BY <2>1, RecipientListLemma
  <2>3. AddRecipientToVault(v, r, can, t) = UpdateVault(w, t)
    BY <1>3 DEF AddRecipientToVault, VaultDoc
  <2> QED
    BY <2>2, <2>3, UpdateVaultLemma, ZenonT(30) DEF Carries
<1> QED
  BY <1>2, <1>3

\* remove_recipient_from_vault writes a consistent document, even when the threshold falls.
LEMMA RemoveRecipientLemma ==
    ASSUME NEW v \in VaultDoc, Consistent(v), NEW r \in Recipients, NEW t \in Nat
    PROVE  /\ RemoveRecipientFromVault(v, r, t) \in VaultDoc
           /\ Consistent(RemoveRecipientFromVault(v, r, t))
           /\ Carries(RemoveRecipientFromVault(v, r, t), v)
<1> DEFINE R == v.recipients \ {r}
           A == v.can_activate \ {r}
           w == [v EXCEPT !.recipients = R, !.can_activate = A]
<1>1. R \in SUBSET Recipients /\ A \in SUBSET R
  BY DEF VaultDoc, Consistent, ConsentOK
<1>2. Mergeable(w) /\ Carries(w, v)
  BY <1>1, RecipientListLemma
<1>3. RemoveRecipientFromVault(v, r, t) = UpdateVault(w, t)
  BY DEF RemoveRecipientFromVault, VaultDoc
<1> QED
  BY <1>2, <1>3, UpdateVaultLemma DEF Carries

\* update_recipient_activation_permission writes a consistent document.
LEMMA UpdatePermissionLemma ==
    ASSUME NEW v \in VaultDoc, Consistent(v), NEW r \in v.recipients,
           NEW can \in BOOLEAN, NEW t \in Nat
    PROVE  /\ UpdateRecipientActivationPermission(v, r, can, t) \in VaultDoc
           /\ Consistent(UpdateRecipientActivationPermission(v, r, can, t))
           /\ Carries(UpdateRecipientActivationPermission(v, r, can, t), v)
<1> DEFINE A == IF can THEN v.can_activate \cup {r} ELSE v.can_activate \ {r}
           w == [v EXCEPT !.recipients = v.recipients, !.can_activate = A]
<1>1. v.recipients \in SUBSET Recipients /\ A \in SUBSET v.recipients
  BY DEF VaultDoc, Consistent, ConsentOK
<1>2. Mergeable(w) /\ Carries(w, v)
  BY <1>1, RecipientListLemma
<1>3. [v EXCEPT !.can_activate = A] = w
  BY DEF VaultDoc
<1>4. UpdateRecipientActivationPermission(v, r, can, t) = UpdateVault(w, t)
  BY <1>3 DEF UpdateRecipientActivationPermission, VaultDoc
<1> HIDE DEF w
<1>5. /\ UpdateVault(w, t) \in VaultDoc /\ Consistent(UpdateVault(w, t))
      /\ Carries(UpdateVault(w, t), w)
  BY <1>2, UpdateVaultLemma
<1>6. Carries(UpdateVault(w, t), v)
  BY <1>2, <1>5 DEF Carries
<1> QED
  BY <1>4, <1>5, <1>6

\* remove_file_from_vault writes a consistent document without the file.
LEMMA RemoveFileLemma ==
    ASSUME NEW v \in VaultDoc, Consistent(v), NEW f \in Files
    PROVE  /\ RemoveFileFromVault(v, f) \in VaultDoc /\ Consistent(RemoveFileFromVault(v, f))
           /\ RemoveFileFromVault(v, f).files = v.files \ {f}
           /\ RemoveFileFromVault(v, f).packages = v.packages
           /\ RemoveFileFromVault(v, f).status = v.status
<1> DEFINE F == v.files \ {f}
           A == {a \in v.assigned : a[1] # f}
           w == [v EXCEPT !.files = F, !.assigned = A]
<1>1. A \subseteq F \X v.recipients
  BY DEF Consistent, FilesOK
<1>2. w \in VaultDoc
  BY DEF VaultDoc
<1>3. /\ w.recipients = v.recipients /\ w.can_activate = v.can_activate
      /\ w.assigned = A /\ w.files = F /\ w.status = v.status
      /\ w.expires = v.expires /\ w.published = v.published /\ w.packages = v.packages
      /\ w.threshold = v.threshold /\ w.requests = v.requests
  BY DEF VaultDoc
<1>4. RemoveFileFromVault(v, f) = w
  BY DEF RemoveFileFromVault, VaultDoc
<1> QED
  BY <1>1, <1>2, <1>3, <1>4 DEF Consistent, ConsentOK, ThresholdOK, StatusOK, ClockOK,
                                FilesOK, ArchiveOK

\* The requests of a settled document may change in any way that keeps to the
\* activating recipients.
LEMMA RequestsLemma ==
    ASSUME NEW v \in VaultDoc, Consistent(v), NEW S \in SUBSET v.can_activate
    PROVE  LET w == [v EXCEPT !.requests = S]
           IN Mergeable(w) /\ Settled(w) /\ Carries(w, v)
<1> DEFINE w == [v EXCEPT !.requests = S]
<1>1. S \in SUBSET Recipients
  BY DEF VaultDoc
<1>2. w \in VaultDoc
  BY <1>1 DEF VaultDoc
<1>3. /\ w.recipients = v.recipients /\ w.can_activate = v.can_activate
      /\ w.assigned = v.assigned /\ w.files = v.files /\ w.status = v.status
      /\ w.expires = v.expires /\ w.published = v.published /\ w.packages = v.packages
      /\ w.threshold = v.threshold /\ w.requests = S
  BY DEF VaultDoc
<1>4. Settled(v) /\ Mergeable(v)
  BY ConsistentIsSettled
<1> QED
  BY <1>2, <1>3, <1>4 DEF Settled, Mergeable, FilesOK, ThresholdOK, ConsentOK, ClockOK,
                          ArchiveOK, Carries

\* add_activation_request writes a consistent document.
LEMMA AddRequestLemma ==
    ASSUME NEW v \in VaultDoc, Consistent(v), NEW r, MayRequestActivation(v, r),
           NEW t \in Nat
    PROVE  /\ AddActivationRequest(v, r, t) \in VaultDoc
           /\ Consistent(AddActivationRequest(v, r, t))
           /\ Carries(AddActivationRequest(v, r, t), v)
<1> DEFINE w == [v EXCEPT !.requests = v.requests \cup {r}]
<1>1. v.requests \cup {r} \in SUBSET v.can_activate
  BY DEF MayRequestActivation, Consistent, ConsentOK
<1>2. Mergeable(w) /\ Settled(w) /\ Carries(w, v)
  BY <1>1, RequestsLemma
<1>3. AddActivationRequest(v, r, t) = RecomputeActivationState(w, t)
  BY DEF AddActivationRequest, VaultDoc
<1> QED
  BY <1>2, <1>3, RecomputeLemma DEF Carries

\* remove_activation_request writes a consistent document in every status.
LEMMA RemoveRequestLemma ==
    ASSUME NEW v \in VaultDoc, Consistent(v), NEW r, NEW t \in Nat
    PROVE  /\ RemoveActivationRequest(v, r, t) \in VaultDoc
           /\ Consistent(RemoveActivationRequest(v, r, t))
           /\ Carries(RemoveActivationRequest(v, r, t), v)
<1> DEFINE w == [v EXCEPT !.requests = v.requests \ {r}]
<1>1. v.requests \ {r} \in SUBSET v.can_activate
  BY DEF Consistent, ConsentOK
<1>2. Mergeable(w) /\ Settled(w) /\ Carries(w, v)
  BY <1>1, RequestsLemma
<1>3. RemoveActivationRequest(v, r, t) = RecomputeActivationState(w, t)
  BY DEF RemoveActivationRequest, VaultDoc
<1> QED
  BY <1>2, <1>3, RecomputeLemma DEF Carries

\* check_in_vault writes a consistent document.
LEMMA CheckInLemma ==
    ASSUME NEW v \in VaultDoc, Consistent(v)
    PROVE  /\ CheckInVault(v) \in VaultDoc /\ Consistent(CheckInVault(v))
           /\ Carries(CheckInVault(v), v)
<1> DEFINE w == CheckInVault(v)
<1>1. w \in VaultDoc
  BY DEF CheckInVault, VaultDoc, Statuses
<1>2. /\ w.recipients = v.recipients /\ w.can_activate = v.can_activate
      /\ w.assigned = v.assigned /\ w.files = v.files /\ w.status = "active"
      /\ w.expires = None /\ w.published = FALSE /\ w.packages = v.packages
      /\ w.threshold = v.threshold /\ w.requests = {}
  BY DEF CheckInVault, VaultDoc
<1> QED
  BY <1>1, <1>2 DEF Consistent, ConsentOK, ThresholdOK, StatusOK, ClockOK, FilesOK,
                    ArchiveOK, Carries, VAULT_ACTIVATION_TERMINAL_STATUSES

-----------------------------------------------------------------------------
(* What the operations do to the requests and to the deadline.              *)

\* A grace period that lasts keeps its deadline.
HoldsDeadline(w, v) ==
    v.status = "grace_period" /\ w.status = "grace_period" => w.expires = v.expires

\* A vault whose delivery has begun keeps its status.
HoldsDelivery(w, v) == v.status \in VAULT_ACTIVATION_TERMINAL_STATUSES => w.status = v.status

Holds(w, v) == HoldsDeadline(w, v) /\ HoldsDelivery(w, v)

\* The normalisations drop the requests of recipients who may no longer activate, and
\* touch neither the status nor the clock.
LEMMA SettleRequests ==
    ASSUME NEW v, Mergeable(v)
    PROVE  /\ Settle(v).requests = v.requests \cap v.can_activate
           /\ Settle(v).can_activate = v.can_activate
           /\ Settle(v).status = v.status /\ Settle(v).expires = v.expires
           /\ Settle(v).recipients = v.recipients
           /\ Settle(v).assigned = {x \in v.assigned : x[2] \in v.recipients}
<1> DEFINE a == NormalizeFilesForRecipients(v)
           b == ClampActivationThreshold(a)
           w == PruneActivationRequests(b)
<1>1. Mergeable(a) /\ FilesOK(a)
  BY NormalizeLemma
<1>2. Mergeable(b)
  BY <1>1, ClampLemma
<1>3. v \in VaultDoc /\ a \in VaultDoc /\ b \in VaultDoc
  BY <1>1, <1>2 DEF Mergeable
<1>4. /\ a.requests = v.requests /\ a.can_activate = v.can_activate
      /\ a.status = v.status /\ a.expires = v.expires /\ a.recipients = v.recipients
      /\ a.assigned = {x \in v.assigned : x[2] \in v.recipients}
  BY <1>3 DEF NormalizeFilesForRecipients, VaultDoc
<1> HIDE DEF a
<1>5. /\ b.requests = a.requests /\ b.can_activate = a.can_activate
      /\ b.status = a.status /\ b.expires = a.expires
      /\ b.recipients = a.recipients /\ b.assigned = a.assigned
  BY <1>3 DEF ClampActivationThreshold, VaultDoc
<1> HIDE DEF b
<1>6. /\ w.requests = b.requests \cap b.can_activate /\ w.can_activate = b.can_activate
      /\ w.status = b.status /\ w.expires = b.expires
      /\ w.recipients = b.recipients /\ w.assigned = b.assigned
  BY <1>3 DEF PruneActivationRequests, VaultDoc
<1>7. w = Settle(v)
  BY DEF Settle, a, b
<1> QED
  BY <1>4, <1>5, <1>6, <1>7

\* The status computed from the requests leaves them alone, and the clock too while the
\* grace period goes on.
LEMMA RatedRequests ==
    ASSUME NEW v \in VaultDoc, NEW t
    PROVE  Rated(v, t).requests = v.requests /\ HoldsDeadline(Rated(v, t), v)
BY DEF Rated, Lowered, EnterGracePeriod, HoldsDeadline, VaultDoc

\* update_vault keeps the requests of those who may still activate, and the deadline.
LEMMA UpdateVaultRequests ==
    ASSUME NEW v, Mergeable(v), NEW t
    PROVE  /\ UpdateVault(v, t).requests = v.requests \cap v.can_activate
           /\ Holds(UpdateVault(v, t), v)
<1> DEFINE a == Settle(v)
           b == Settle(a)
<1>1. Mergeable(a) /\ Mergeable(b)
  BY SettleLemma DEF Settled
<1>2. /\ a.requests = v.requests \cap v.can_activate /\ a.can_activate = v.can_activate
      /\ a.status = v.status /\ a.expires = v.expires
  BY SettleRequests
<1>3. /\ b.requests = a.requests \cap a.can_activate
      /\ b.status = a.status /\ b.expires = a.expires
  BY <1>1, SettleRequests
<1>4. Rated(b, t).requests = b.requests /\ HoldsDeadline(Rated(b, t), b)
  BY <1>1, RatedRequests DEF Mergeable
<1>5. UpdateVault(v, t) = IF a.status \in VAULT_ACTIVATION_TERMINAL_STATUSES THEN a
                          ELSE Rated(b, t)
  BY DEF UpdateVault, RecomputeActivationState
<1> HIDE DEF a, b
<1> QED
  BY <1>2, <1>3, <1>4, <1>5 DEF Holds, HoldsDeadline, HoldsDelivery

\* Another recipient list, threshold and period: the requests of those who lost the flag
\* are dropped, no others.
LEMMA MergedRequests ==
    ASSUME NEW v \in VaultDoc, NEW R, NEW A, NEW h, NEW th, NEW t,
           Mergeable([v EXCEPT !.recipients = R, !.can_activate = A,
                               !.threshold = th, !.hours = h])
    PROVE  LET w == UpdateVault([v EXCEPT !.recipients = R, !.can_activate = A,
                                          !.threshold = th, !.hours = h], t)
           IN w.requests = v.requests \cap A /\ Holds(w, v)
<1> DEFINE m == [v EXCEPT !.recipients = R, !.can_activate = A, !.threshold = th,
                          !.hours = h]
<1>1. /\ m.requests = v.requests /\ m.can_activate = A
      /\ m.status = v.status /\ m.expires = v.expires
  BY DEF VaultDoc
<1> HIDE DEF m
<1>2. /\ UpdateVault(m, t).requests = m.requests \cap m.can_activate
      /\ Holds(UpdateVault(m, t), m)
  BY UpdateVaultRequests DEF m
<1>3. UpdateVault(m, t).requests = v.requests \cap A /\ Holds(UpdateVault(m, t), v)
  BY <1>1, <1>2 DEF Holds, HoldsDeadline, HoldsDelivery
<1> QED
  BY <1>3 DEF m

\* The same for the recipient operations, which change the recipient list only.
LEMMA ListedRequests ==
    ASSUME NEW v \in VaultDoc, Consistent(v), NEW R \in SUBSET Recipients,
           NEW A \in SUBSET R, NEW t
    PROVE  LET w == UpdateVault([v EXCEPT !.recipients = R, !.can_activate = A], t)
           IN w.requests = v.requests \cap A /\ Holds(w, v)
<1> DEFINE m == [v EXCEPT !.recipients = R, !.can_activate = A]
<1>1. /\ m.requests = v.requests /\ m.can_activate = A
      /\ m.status = v.status /\ m.expires = v.expires
  BY DEF VaultDoc
<1>2. Mergeable(m)
  BY RecipientListLemma
<1> HIDE DEF m
<1>3. /\ UpdateVault(m, t).requests = m.requests \cap m.can_activate
      /\ Holds(UpdateVault(m, t), m)
  BY <1>2, UpdateVaultRequests
<1>4. UpdateVault(m, t).requests = v.requests \cap A /\ Holds(UpdateVault(m, t), v)
  BY <1>1, <1>3 DEF Holds, HoldsDeadline, HoldsDelivery
<1> QED
  BY <1>4 DEF m

\* add_recipient_to_vault drops no request.
LEMMA AddRecipientRequests ==
    ASSUME NEW v \in VaultDoc, Consistent(v), NEW r \in Recipients, NEW can \in BOOLEAN,
           NEW t
    PROVE  LET w == AddRecipientToVault(v, r, can, t)
           IN w.requests = v.requests /\ Holds(w, v)
<1> DEFINE R == v.recipients \cup {r}
           A == IF can THEN v.can_activate \cup {r} ELSE v.can_activate
           m == [v EXCEPT !.recipients = R, !.can_activate = A]
<1>1. /\ v.recipients \in SUBSET Recipients /\ v.can_activate \subseteq v.recipients
      /\ v.requests \subseteq v.can_activate
  BY DEF VaultDoc, Consistent, ConsentOK
<1>2. CASE r \in v.recipients
  <2>1. Mergeable(v) /\ AddRecipientToVault(v, r, can, t) = UpdateVault(v, t)
    BY <1>2, ConsistentIsSettled DEF AddRecipientToVault
  <2> QED
    BY <1>1, <2>1, UpdateVaultRequests
<1>3. CASE r \notin v.recipients
  <2>1. R \in SUBSET Recipients /\ A \in SUBSET R
    BY <1>1
  <2>2. AddRecipientToVault(v, r, can, t) = UpdateVault(m, t)
    BY <1>3 DEF AddRecipientToVault, VaultDoc
  <2>3. v.requests \cap A = v.requests
    BY <1>1
  <2> HIDE DEF R, A
  <2>4. UpdateVault(m, t).requests = v.requests \cap A /\ Holds(UpdateVault(m, t), v)
    BY <2>1, ListedRequests
  <2> HIDE DEF m
  <2> QED
    BY <2>2, <2>3, <2>4
<1> QED
  BY <1>2, <1>3

\* remove_recipient_from_vault drops that recipient's request.
LEMMA RemoveRecipientRequests ==
    ASSUME NEW v \in VaultDoc, Consistent(v), NEW r, NEW t
    PROVE  LET w == RemoveRecipientFromVault(v, r, t)
           IN w.requests = v.requests \ {r} /\ Holds(w, v)
<1> DEFINE R == v.recipients \ {r}
           A == v.can_activate \ {r}
           m == [v EXCEPT !.recipients = R, !.can_activate = A]
<1>1. R \in SUBSET Recipients /\ A \in SUBSET R /\ v.requests \subseteq v.can_activate
  BY DEF VaultDoc, Consistent, ConsentOK
<1>2. UpdateVault(m, t).requests = v.requests \cap A /\ Holds(UpdateVault(m, t), v)
  BY <1>1, ListedRequests
<1>3. RemoveRecipientFromVault(v, r, t) = UpdateVault(m, t)
  BY DEF RemoveRecipientFromVault, VaultDoc
<1> QED
  BY <1>1, <1>2, <1>3

\* update_recipient_activation_permission drops the request of a recipient who loses the
\* flag, and no other.
LEMMA UpdatePermissionRequests ==
    ASSUME NEW v \in VaultDoc, Consistent(v), NEW r \in v.recipients,
           NEW can \in BOOLEAN, NEW t
    PROVE  LET w == UpdateRecipientActivationPermission(v, r, can, t)
           IN /\ can => w.requests = v.requests
              /\ ~can => w.requests = v.requests \ {r}
              /\ Holds(w, v)
<1> DEFINE A == IF can THEN v.can_activate \cup {r} ELSE v.can_activate \ {r}
           m == [v EXCEPT !.recipients = v.recipients, !.can_activate = A]
<1>1. /\ v.recipients \in SUBSET Recipients /\ A \in SUBSET v.recipients
      /\ v.requests \subseteq v.can_activate
  BY DEF VaultDoc, Consistent, ConsentOK
<1>2. [v EXCEPT !.can_activate = A] = m
  BY DEF VaultDoc
<1>3. UpdateRecipientActivationPermission(v, r, can, t) = UpdateVault(m, t)
  BY <1>2 DEF UpdateRecipientActivationPermission, VaultDoc
<1>4. /\ can => v.requests \cap A = v.requests
      /\ ~can => v.requests \cap A = v.requests \ {r}
  BY <1>1
<1> HIDE DEF A
<1>5. UpdateVault(m, t).requests = v.requests \cap A /\ Holds(UpdateVault(m, t), v)
  BY <1>1, ListedRequests
<1> HIDE DEF m
<1> QED
  BY <1>3, <1>4, <1>5

\* A new file list leaves requests and deadline alone.
LEMMA FileListRequests ==
    ASSUME NEW v \in VaultDoc, Consistent(v), NEW F, F \subseteq Files,
           NEW A, A \subseteq F \X Recipients, NEW t
    PROVE  LET w == UpdateVault(WithFiles(v, F, A), t)
           IN w.requests = v.requests /\ Holds(w, v)
<1> DEFINE m == WithFiles(v, F, A)
<1>1. /\ m.requests = v.requests /\ m.can_activate = v.can_activate
      /\ m.status = v.status /\ m.expires = v.expires
  BY DEF VaultDoc, WithFiles
<1>2. Mergeable(m)
  BY MergeFilesLemma
<1> HIDE DEF m
<1>3. /\ UpdateVault(m, t).requests = m.requests \cap m.can_activate
      /\ Holds(UpdateVault(m, t), m)
  BY <1>2, UpdateVaultRequests
<1>4. v.requests \subseteq v.can_activate
  BY DEF Consistent, ConsentOK
<1>5. UpdateVault(m, t).requests = v.requests /\ Holds(UpdateVault(m, t), v)
  BY <1>1, <1>3, <1>4 DEF Holds, HoldsDeadline, HoldsDelivery
<1> QED
  BY <1>5 DEF m

\* remove_file_from_vault does not touch them either.
LEMMA RemoveFileRequests ==
    ASSUME NEW v \in VaultDoc, NEW f
    PROVE  LET w == RemoveFileFromVault(v, f)
           IN w.requests = v.requests /\ Holds(w, v)
BY DEF RemoveFileFromVault, VaultDoc, Holds, HoldsDeadline, HoldsDelivery

\* What recompute_activation_state makes of a new set of requests.
LEMMA RecomputeRequests ==
    ASSUME NEW v \in VaultDoc, Consistent(v), NEW S \in SUBSET v.can_activate, NEW t
    PROVE  LET w == RecomputeActivationState([v EXCEPT !.requests = S], t)
           IN w.requests = S /\ Holds(w, v)
<1> DEFINE m == [v EXCEPT !.requests = S]
           a == Settle(m)
<1>1. /\ m.requests = S /\ m.can_activate = v.can_activate
      /\ m.status = v.status /\ m.expires = v.expires
  BY DEF VaultDoc
<1>2. Mergeable(m)
  BY RequestsLemma
<1> HIDE DEF m
<1>3. /\ a.requests = m.requests \cap m.can_activate
      /\ a.status = m.status /\ a.expires = m.expires
  BY <1>2, SettleRequests
<1>4. a \in VaultDoc
  BY <1>2, SettleLemma DEF Settled, Mergeable
<1>5. RecomputeActivationState(m, t) =
          IF m.status \in VAULT_ACTIVATION_TERMINAL_STATUSES THEN m ELSE Rated(a, t)
  BY DEF RecomputeActivationState
<1> HIDE DEF a
<1>6. Rated(a, t).requests = a.requests /\ HoldsDeadline(Rated(a, t), a)
  BY <1>4, RatedRequests
<1>7. /\ RecomputeActivationState(m, t).requests = S
      /\ Holds(RecomputeActivationState(m, t), v)
  BY <1>1, <1>3, <1>5, <1>6 DEF Holds, HoldsDeadline, HoldsDelivery
<1> QED
  BY <1>7 DEF m

\* add_activation_request records one request and loses none; remove_activation_request
\* takes back one.
LEMMA RequestOperations ==
    ASSUME NEW v \in VaultDoc, Consistent(v), NEW r, NEW t
    PROVE  /\ MayRequestActivation(v, r) =>
                /\ AddActivationRequest(v, r, t).requests = v.requests \cup {r}
                /\ Holds(AddActivationRequest(v, r, t), v)
           /\ RemoveActivationRequest(v, r, t).requests = v.requests \ {r}
           /\ Holds(RemoveActivationRequest(v, r, t), v)
<1> DEFINE more == v.requests \cup {r}
           fewer == v.requests \ {r}
<1>1. v.requests \subseteq v.can_activate
  BY DEF Consistent, ConsentOK
<1>2. /\ MayRequestActivation(v, r) => more \in SUBSET v.can_activate
      /\ fewer \in SUBSET v.can_activate
  BY <1>1 DEF MayRequestActivation
<1>3. /\ AddActivationRequest(v, r, t)
           = RecomputeActivationState([v EXCEPT !.requests = more], t)
      /\ RemoveActivationRequest(v, r, t)
           = RecomputeActivationState([v EXCEPT !.requests = fewer], t)
  BY DEF AddActivationRequest, RemoveActivationRequest, VaultDoc
<1> HIDE DEF more, fewer
<1>4. ASSUME MayRequestActivation(v, r)
      PROVE  /\ AddActivationRequest(v, r, t).requests = more
             /\ Holds(AddActivationRequest(v, r, t), v)
  <2>1. more \in SUBSET v.can_activate
    BY <1>2, <1>4
  <2>2. LET w == RecomputeActivationState([v EXCEPT !.requests = more], t)
        IN  w.requests = more /\ Holds(w, v)
    BY <2>1, RecomputeRequests
  <2> QED
    BY <1>3, <2>2
<1>5. /\ RemoveActivationRequest(v, r, t).requests = fewer
      /\ Holds(RemoveActivationRequest(v, r, t), v)
  <2>1. LET w == RecomputeActivationState([v EXCEPT !.requests = fewer], t)
        IN  w.requests = fewer /\ Holds(w, v)
    BY <1>2, RecomputeRequests
  <2> QED
    BY <1>3, <2>1
<1> QED
  BY <1>4, <1>5 DEF more, fewer

\* check_in_vault clears every request; no grace period survives it.
LEMMA CheckInRequests ==
    ASSUME NEW v \in VaultDoc
    PROVE  CheckInVault(v).requests = {} /\ HoldsDeadline(CheckInVault(v), v)
BY DEF CheckInVault, VaultDoc, HoldsDeadline

=============================================================================
