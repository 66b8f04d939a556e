--------------------------- MODULE DeliveryPipeline ---------------------------
(***************************************************************************)
(* From the end of a grace period to the archived vault: the timer that    *)
(* announces an expired grace period (functions/check_grace_periods), the  *)
(* Event Grid topic, the function that claims the vault and starts a job   *)
(* (functions/start_delivery_job) and the job that builds and stores the   *)
(* packages (worker_container/app.py).  They share nothing but the vault   *)
(* document and its twin in the deliveries container, and they share those *)
(* with the API calls of VaultStore.                                       *)
(*                                                                         *)
(* Every one of them replaces the whole document, and all but the worker   *)
(* write a copy read one or more remote calls earlier.                     *)
(***************************************************************************)
EXTENDS VaultStore

CONSTANTS
    Functions,    \* invocations of start_delivery_job that may run together
    Jobs,         \* job executions that may run together
    MaxEvents,    \* bound of the events in flight
    MaxAttempts,  \* a replica and its retries
    MaxFaults,    \* bound of the failures in one behaviour
    Schedules,    \* which overlaps of the parties may happen
    Faults        \* which failures may happen

AllSchedules == {"owner_overlap",    \* API calls during a delivery
                 "slow_timer",       \* the event arrives before the timer marks the vault
                 "slow_starter"}     \* the job runs before its start is recorded
AllFaults == {"redelivery", "publish_error", "store_error", "start_error",
              "lost_reply", "job_error", "timer_crash", "function_crash", "job_crash"}

ASSUME PipelineBounds == /\ MaxEvents \in Nat \ {0}
                         /\ MaxAttempts \in Nat \ {0}
                         /\ MaxFaults \in Nat
                         /\ Schedules \subseteq AllSchedules
                         /\ Faults \subseteq AllFaults
ASSUME FunctionsFinite == IsFiniteSet(Functions)

VARIABLES
    timer,      \* the run of check_grace_periods and the document its query returned
    inbox,      \* GracePeriodExpired events not yet handed to a function
    starter,    \* the invocations of start_delivery_job
    job,        \* the job executions
    faults,     \* failures so far
    released,   \* history: packages whose bytes were ever uploaded
    elapsed     \* history: a stored grace period has reached its deadline

pipeVars == <<timer, inbox, starter, job, faults, released>>
pipelineVars == <<storeVars, pipeVars, elapsed>>

TimerIdle == [step |-> "idle", snap |-> None]
StarterIdle == [step |-> "idle", doc |-> None, failed |-> FALSE, mirror |-> None]
JobIdle == [step |-> "idle", attempt |-> 1, snap |-> None, fresh |-> None, uploads |-> {}]

TimerRun == [step : {"idle", "publish", "mark"}, snap : VaultDoc \cup {None}]
Invocation == [step   : {"idle", "claim", "mirror_claim", "post", "record",
                         "refresh", "mirror", "error"},
               doc    : VaultDoc \cup {None},     \* vault_document, then claimed_vault
               failed : BOOLEAN,                  \* in the except block
               mirror : Statuses \cup {None}]     \* refreshed_vault's status
Execution == [step    : {"idle", "load", "payloads", "upload", "reread", "archive",
                         "mirror", "reread_error", "save_error", "mirror_error"},
              attempt : 1..MaxAttempts,
              snap    : VaultDoc \cup {None},     \* the document the packages are built from
              fresh   : VaultDoc \cup {None},     \* the document _update_vault reads
              uploads : SUBSET Package]           \* delivery_packages

PipelineTypeOK == /\ TypeOK
                  /\ timer \in TimerRun
                  /\ inbox \in Nat
                  /\ starter \in [Functions -> Invocation]
                  /\ job \in [Jobs -> Execution]
                  /\ faults \in 0..MaxFaults
                  /\ released \subseteq Package
                  /\ elapsed \in BOOLEAN

PipelineInit == /\ Init
                /\ timer = TimerIdle
                /\ inbox = 0
                /\ starter = [f \in Functions |-> StarterIdle]
                /\ job = [j \in Jobs |-> JobIdle]
                /\ faults = 0
                /\ released = {}
                /\ elapsed = FALSE

-----------------------------------------------------------------------------
InFlight == inbox + Cardinality({f \in Functions : starter[f].step # "idle"})

PipelineQuiet == /\ timer = TimerIdle
                 /\ InFlight = 0
                 /\ \A j \in Jobs : job[j].step = "idle"

GraceOver(v, t) == v # None /\ v.status = "grace_period" /\ v.expires # None /\ v.expires <= t

\* Part of every step: notices a stored grace period at its deadline, whether
\* the clock or a write brought it there.
Observe == elapsed' = (elapsed \/ GraceOver(vault', now'))

\* A step without failure, and a step that fails as `kind`.
NoFault == UNCHANGED faults
Fault(kind) == kind \in Faults /\ faults < MaxFaults /\ faults' = faults + 1

\* replace_item of the stored vault; a deleted vault stays deleted.
OverwriteOrCreate(doc) == vault' = doc
Overwrite(doc) == vault' = IF vault = None THEN None ELSE doc
StoreUnchanged == UNCHANGED storeVars
OnlyVault == UNCHANGED <<delivery, blobs, uploaded, call, now, history>>
OnlyDelivery == UNCHANGED <<vault, blobs, uploaded, call, now, history>>

-----------------------------------------------------------------------------
(* The API and the clock.                                                   *)
ApiCall(c) ==
    /\ ApiStep(c)
    /\ "owner_overlap" \in Schedules \/ PipelineQuiet
    /\ UNCHANGED pipeVars
    /\ Observe

ClockTick == Tick /\ UNCHANGED pipeVars /\ Observe

-----------------------------------------------------------------------------
(* check_grace_periods.  The query selects unannounced grace periods, the   *)
(* loop skips those still running.                                          *)
TimerOnly == StoreUnchanged /\ UNCHANGED <<starter, job, released>> /\ Observe

TimerFireEarly ==
    /\ timer = TimerIdle
    /\ vault # None /\ vault.status = "grace_period" /\ ~vault.published
    /\ "owner_overlap" \in Schedules \/ \A c \in Clients : call[c].op = "idle"
    /\ timer' = [step |-> "publish", snap |-> vault]
    /\ UNCHANGED inbox /\ NoFault /\ TimerOnly
TimerFire ==
    /\ timer = TimerIdle
    /\ GraceOver(vault, now) /\ ~vault.published
    /\ "owner_overlap" \in Schedules \/ \A c \in Clients : call[c].op = "idle"
    /\ timer' = [step |-> "publish", snap |-> vault]
    /\ UNCHANGED inbox /\ NoFault /\ TimerOnly

PublishExpirationEvent ==
    /\ timer.step = "publish"
    /\ InFlight < MaxEvents
    /\ inbox' = inbox + 1
    /\ timer' = [timer EXCEPT !.step = "mark"]
    /\ NoFault /\ TimerOnly

\* The mark is set on the copy the query returned.
MarkEventPublished ==
    /\ timer.step = "mark"
    /\ Overwrite([timer.snap EXCEPT !.published = TRUE])
    /\ timer' = TimerIdle
    /\ OnlyVault /\ UNCHANGED <<inbox, starter, job, released>> /\ NoFault /\ Observe

\* An exception is logged and the vault waits for the next run; a crash between
\* the event and the mark has the same effect.
TimerFails ==
    /\ \/ timer.step = "publish" /\ Fault("publish_error")
       \/ timer.step = "mark" /\ Fault("store_error")
       \/ timer.step # "idle" /\ Fault("timer_crash")
    /\ timer' = TimerIdle
    /\ UNCHANGED inbox /\ TimerOnly

-----------------------------------------------------------------------------
(* start_delivery_job.                                                      *)
StarterOnly == StoreUnchanged /\ UNCHANGED <<timer, job, released>> /\ Observe
StarterTo(f, step) == starter' = [starter EXCEPT ![f].step = step]
StarterEnds(f) == starter' = [starter EXCEPT ![f] = StarterIdle]

\* The function asks for "delivered" before it claims, never for the
\* "delivered_archived" the worker writes.
Claimable(v) == v # None /\ ~(v.status = "delivery_initiated" /\ v.job_started)

LoadVault(f) ==
    starter' = IF Claimable(vault)
               THEN [starter EXCEPT ![f] = [StarterIdle EXCEPT !.step = "claim",
                                                               !.doc = vault]]
               ELSE starter

EventArrives(f) == /\ starter[f].step = "idle" /\ inbox > 0
                   /\ "slow_timer" \in Schedules \/ timer.step # "mark"

ReceiveEvent(f) ==
    /\ EventArrives(f)
    /\ inbox' = inbox - 1
    /\ LoadVault(f)
    /\ NoFault /\ StarterOnly

\* The event is handed out and will be again, or it is spent on a failed query.
EventMishandled(f) ==
    /\ EventArrives(f)
    /\ \/ inbox' = inbox /\ InFlight < MaxEvents /\ Fault("redelivery") /\ LoadVault(f)
       \/ inbox' = inbox - 1 /\ Fault("store_error") /\ UNCHANGED starter
    /\ StarterOnly

Claimed(v) == [v EXCEPT !.status = "delivery_initiated", !.error = FALSE]

ClaimVault(f) ==
    /\ starter[f].step = "claim"
    /\ Overwrite(Claimed(starter[f].doc))
    /\ starter' = [starter EXCEPT ![f] =
           IF vault = None THEN StarterIdle
           ELSE [@ EXCEPT !.step = "mirror_claim", !.doc = Claimed(starter[f].doc)]]
    /\ OnlyVault /\ UNCHANGED <<timer, inbox, job, released>> /\ NoFault /\ Observe

\* _upsert_delivery(claimed_vault)
MirrorClaim(f) ==
    /\ starter[f].step = "mirror_claim"
    /\ delivery' = starter[f].doc.status
    /\ StarterTo(f, "post")
    /\ OnlyDelivery /\ UNCHANGED <<timer, inbox, job, released>> /\ NoFault /\ Observe

\* The request that starts the job is answered.
JobStarts == \E j \in Jobs :
    job[j].step = "idle" /\ job' = [job EXCEPT ![j] = [JobIdle EXCEPT !.step = "load"]]

StartDeliveryJob(f) ==
    /\ starter[f].step = "post"
    /\ JobStarts
    /\ StarterTo(f, "record")
    /\ StoreUnchanged /\ UNCHANGED <<timer, inbox, released>> /\ NoFault /\ Observe

\* It is refused, or carried out although the answer never arrives.
StartFails(f) ==
    /\ starter[f].step = "post"
    /\ \/ Fault("start_error") /\ UNCHANGED job
       \/ Fault("lost_reply") /\ JobStarts
    /\ StarterTo(f, "error")
    /\ StoreUnchanged /\ UNCHANGED <<timer, inbox, released>> /\ Observe

\* Both outcomes are recorded on claimed_vault, whatever happened since.
RecordJob(f) ==
    /\ starter[f].step = "record"
    /\ Overwrite([starter[f].doc EXCEPT !.job_started = TRUE])
    /\ StarterTo(f, IF vault = None THEN "error" ELSE "refresh")
    /\ OnlyVault /\ UNCHANGED <<timer, inbox, job, released>> /\ NoFault /\ Observe

RecordError(f) ==
    /\ starter[f].step = "error"
    /\ Overwrite([starter[f].doc EXCEPT !.error = TRUE])
    /\ starter' = [starter EXCEPT ![f] = IF vault = None THEN StarterIdle
                                         ELSE [@ EXCEPT !.step = "refresh", !.failed = TRUE]]
    /\ OnlyVault /\ UNCHANGED <<timer, inbox, job, released>> /\ NoFault /\ Observe

Refresh(f) ==
    /\ starter[f].step = "refresh"
    /\ starter' = [starter EXCEPT ![f] = IF vault = None THEN StarterIdle
                       ELSE [@ EXCEPT !.step = "mirror", !.mirror = vault.status]]
    /\ UNCHANGED inbox /\ NoFault /\ StarterOnly

Mirror(f) ==
    /\ starter[f].step = "mirror"
    /\ delivery' = starter[f].mirror
    /\ StarterEnds(f)
    /\ OnlyDelivery /\ UNCHANGED <<timer, inbox, job, released>> /\ NoFault /\ Observe

\* A store call fails: before the start the invocation gives up and the event is
\* spent; after it the error is recorded on claimed_vault, at most once.
StarterStoreFails(f) ==
    /\ starter[f].step \notin {"idle", "post"}
    /\ Fault("store_error")
    /\ IF starter[f].step \in {"record", "refresh", "mirror"} /\ ~starter[f].failed
       THEN StarterTo(f, "error") ELSE StarterEnds(f)
    /\ UNCHANGED inbox /\ StarterOnly

\* The host dies: Event Grid hands the event out again.
StarterCrash(f) ==
    /\ starter[f].step # "idle"
    /\ Fault("function_crash")
    /\ inbox' = inbox + 1
    /\ StarterEnds(f) /\ StarterOnly

-----------------------------------------------------------------------------
(* The delivery job.                                                        *)
JobOnly == StoreUnchanged /\ UNCHANGED <<timer, inbox, starter, released>> /\ Observe
JobTo(j, step) == job' = [job EXCEPT ![j].step = step]
JobEnds(j) == job' = [job EXCEPT ![j] = JobIdle]

\* A non-zero exit: the platform starts the replica again, a limited number of times.
JobExitsForGood(j) == job' = [job EXCEPT ![j] = JobIdle]
JobRetriesForever(j) ==
    job' = [job EXCEPT ![j] = [JobIdle EXCEPT !.step = "load", !.attempt = job[j].attempt + 1]]
JobExits(j) ==
    job' = [job EXCEPT ![j] =
        IF @.attempt < MaxAttempts
        THEN [JobIdle EXCEPT !.step = "load", !.attempt = job[j].attempt + 1]
        ELSE JobIdle]

\* The package of one recipient: the files assigned to it.
PackageWithEveryFile(v, r) == [to |-> r, files |-> v.files]
PackageFor(v, r) == [to |-> r, files |-> {f \in v.files : <<f, r>> \in v.assigned}]

Delivered(v) == v.status \in FINAL_IMMUTABLE_VAULT_STATUSES /\ v.packages # {}

\* The worker delivers whatever status it finds, except an archived vault.
RunJob(j) ==
    /\ job[j].step = "load"
    /\ "slow_starter" \in Schedules
       \/ \A f \in Functions : starter[f].step \notin {"record", "error"}
    /\ IF vault = None THEN JobExits(j)
       ELSE IF Delivered(vault) THEN JobEnds(j)
       ELSE job' = [job EXCEPT ![j].step = "payloads", ![j].snap = vault]
    /\ NoFault /\ JobOnly

\* Every file is fetched before anything is uploaded.
LoadPayloads(j) ==
    /\ job[j].step = "payloads"
    /\ IF job[j].snap.recipients # {} /\ job[j].snap.files \subseteq blobs
       THEN JobTo(j, "upload") ELSE JobTo(j, "reread_error")
    /\ NoFault /\ JobOnly

Packed(j, package) ==
    LET done == job[j].uploads \cup {package}
    IN job' = [job EXCEPT ![j].uploads = done,
                          ![j].step = IF {p.to : p \in done} = job[j].snap.recipients
                                      THEN "reread" ELSE "upload"]

UploadIgnoringErrors(j) ==
    /\ job[j].step = "upload"
    /\ \E r \in job[j].snap.recipients \ {p.to : p \in job[j].uploads} :
          Packed(j, PackageFor(job[j].snap, r))
    /\ NoFault /\ JobOnly
UploadPackage(j) ==
    /\ job[j].step = "upload"
    /\ \E r \in job[j].snap.recipients \ {p.to : p \in job[j].uploads} :
          /\ released' = released \cup {PackageFor(job[j].snap, r)}
          /\ Packed(j, PackageFor(job[j].snap, r))
    /\ StoreUnchanged /\ UNCHANGED <<timer, inbox, starter>> /\ NoFault /\ Observe

\* _update_vault: a read of its own, then the replace.
RereadVault(j) ==
    /\ job[j].step \in {"reread", "reread_error"}
    /\ IF vault # None
       THEN job' = [job EXCEPT ![j].fresh = vault,
                               ![j].step = IF @ = "reread" THEN "archive" ELSE "save_error"]
       ELSE IF job[j].step = "reread" THEN JobTo(j, "reread_error") ELSE JobExits(j)
    /\ NoFault /\ JobOnly

ArchivedWithoutPackages(v, packages) ==
    [v EXCEPT !.status = "delivered_archived", !.error = FALSE]
Archived(v, packages) ==
    [v EXCEPT !.status = "delivered_archived", !.packages = packages, !.error = FALSE]

ArchiveVault(j) ==
    /\ job[j].step = "archive"
    /\ Overwrite(Archived(job[j].fresh, job[j].uploads))
    /\ JobTo(j, IF vault = None THEN "reread_error" ELSE "mirror")
    /\ OnlyVault /\ UNCHANGED <<timer, inbox, starter, released>> /\ NoFault /\ Observe

MirrorArchive(j) ==
    /\ job[j].step = "mirror"
    /\ delivery' = "delivered_archived"
    /\ JobEnds(j)
    /\ OnlyDelivery /\ UNCHANGED <<timer, inbox, starter, released>> /\ NoFault /\ Observe

SaveJobError(j) ==
    /\ job[j].step = "save_error"
    /\ Overwrite([job[j].fresh EXCEPT !.error = TRUE])
    /\ IF vault = None THEN JobExits(j) ELSE JobTo(j, "mirror_error")
    /\ OnlyVault /\ UNCHANGED <<timer, inbox, starter, released>> /\ NoFault /\ Observe

MirrorJobError(j) ==
    /\ job[j].step = "mirror_error"
    /\ delivery' = job[j].fresh.status
    /\ JobExits(j)
    /\ OnlyDelivery /\ UNCHANGED <<timer, inbox, starter, released>> /\ NoFault /\ Observe

\* An exception on the way to the archive is recorded on the vault; one in the
\* first read or while recording, like a crash, just ends the replica.
JobFails(j) ==
    /\ \/ /\ job[j].step \in {"payloads", "upload", "reread", "archive", "mirror"}
          /\ Fault("job_error")
          /\ JobTo(j, "reread_error")
       \/ /\ job[j].step \in {"load", "reread_error", "save_error", "mirror_error"}
          /\ Fault("job_error")
          /\ JobExits(j)
       \/ /\ job[j].step # "idle"
          /\ Fault("job_crash")
          /\ JobExits(j)
    /\ JobOnly

-----------------------------------------------------------------------------
TimerWork == TimerFire \/ PublishExpirationEvent \/ MarkEventPublished

StarterWork(f) == \/ ReceiveEvent(f) \/ ClaimVault(f) \/ MirrorClaim(f)
                  \/ StartDeliveryJob(f) \/ RecordJob(f) \/ RecordError(f)
                  \/ Refresh(f) \/ Mirror(f)
StarterFailure(f) == \/ EventMishandled(f) \/ StartFails(f)
                     \/ StarterStoreFails(f) \/ StarterCrash(f)

JobWork(j) == \/ RunJob(j) \/ LoadPayloads(j) \/ UploadPackage(j)
              \/ RereadVault(j) \/ ArchiveVault(j) \/ MirrorArchive(j)
              \/ SaveJobError(j) \/ MirrorJobError(j)

PipelineNext == \/ \E c \in Clients : ApiCall(c)
                \/ ClockTick
                \/ TimerWork \/ TimerFails
                \/ \E f \in Functions : StarterWork(f) \/ StarterFailure(f)
                \/ \E j \in Jobs : JobWork(j) \/ JobFails(j)

PipelineSpec == PipelineInit /\ [][PipelineNext]_pipelineVars

\* Fairness.  The timer fires every night for ever, so it eventually finds a vault
\* that is due often enough between calls (strong, TimerFire).  A run,
\* invocation, job or call that can go on does (weak); nothing forces a failure,
\* a new call or the clock.
Fairness ==
    /\ SF_pipelineVars(TimerFire)
    /\ WF_pipelineVars(PublishExpirationEvent \/ MarkEventPublished)
    /\ \A f \in Functions : WF_pipelineVars(StarterWork(f))
    /\ \A j \in Jobs : WF_pipelineVars(JobWork(j))
    /\ \A c \in Clients : WF_pipelineVars(call[c].op # "idle" /\ ApiCall(c))

FairPipelineSpec == PipelineSpec /\ Fairness

-----------------------------------------------------------------------------
(* Properties that hold under every schedule and failure.                   *)

\* Nothing is announced, claimed, packaged or archived unless a stored grace period
\* reached its deadline first: the query and the deadline test of
\* check_grace_periods are the only way into the pipeline, and no stale write of
\* an API call, a retry or a duplicate opens another.
DeliveryNeedsExpiredGrace ==
    \/ elapsed
    \/ /\ timer = TimerIdle /\ InFlight = 0
       /\ \A j \in Jobs : job[j].step = "idle"
       /\ released = {}
       /\ vault # None => vault.status \notin VAULT_ACTIVATION_TERMINAL_STATUSES

\* The vault never names a package whose bytes were not uploaded before, however
\* often executions crash, are retried or run side by side (run() of the worker).
PackagesAreUploaded == vault # None => vault.packages \subseteq released

(* Properties of deliveries that no call overlaps and whose parties keep to  *)
(* the usual order (Schedules = {}).                                         *)

\* Each recipient of an archived vault has one package, with exactly the files
\* assigned to that recipient: what download_delivery_package will offer.
PackagesMatchVault ==
    vault # None /\ vault.status = "delivered_archived" =>
        \A r \in vault.recipients :
            {p \in vault.packages : p.to = r} =
                {[to |-> r, files |-> {f \in vault.files : <<f, r>> \in vault.assigned}]}

\* A grace period left to run out ends in an archived vault: the owner who does not
\* come back is delivered, although runs, executions and calls may fail and be retried.
DeliveryHappens ==
    GraceOver(vault, now) ~>
        (vault = None \/ vault.status \in {"active", "pending_activation", "delivered_archived"})

\* Seen from outside the pipeline is the life cycle of DeliveryLifecycle: only a vault
\* in its grace period is claimed, only a claimed one delivered, and nothing leaves
\* "delivered" (all writers of status and delivery_packages together).
StageOf(v) ==
    IF v = None THEN "deleted"
    ELSE CASE v.status \in {"active", "pending_activation"} -> "open"
           [] v.status = "grace_period" -> "grace"
           [] v.status = "delivery_initiated" -> "claimed"
           [] v.status = "delivered_archived" -> "delivered"

Public == INSTANCE DeliveryLifecycle WITH
              stage <- StageOf(vault),
              packages <- IF vault = None THEN {} ELSE vault.packages

ImplementsLifecycle == Public!Lifecycle

\* "Grace period ends at ... Check in before it expires to cancel delivery."
\* (frontend/src/app/vaults/[vault_id]/page.tsx): while the deadline the owner sees
\* lies ahead, the vault is not claimed.
ClaimWaitsForDeadline ==
    [][vault # None /\ vault' # None /\ vault.status = "grace_period"
         /\ vault'.status = "delivery_initiated"
       => vault.expires <= now]_pipelineVars

(* What the application tells its users and some schedules refute.           *)

\* "This vault has already been delivered and archived. It can no longer be
\* modified." (backend/main.py, FINAL_IMMUTABLE_VAULT_ERROR)
ArchivedIsFinal ==
    [][vault # None /\ vault.status = "delivered_archived"
       => vault' # None /\ vault'.status = "delivered_archived"
          /\ vault'.packages = vault.packages]_pipelineVars

=============================================================================
