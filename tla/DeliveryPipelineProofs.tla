------------------------ MODULE DeliveryPipelineProofs ------------------------
(***************************************************************************)
(* Proofs about DeliveryPipeline, for any number of calls, invocations and *)
(* jobs, under every schedule and every failure.                           *)
(*                                                                         *)
(* Timer, starters and jobs write copies they read before, as the calls    *)
(* do, so the invariant of VaultStoreProofs is extended to the copies they *)
(* hold (PipeInv).  Two more invariants relate the copies to what has      *)
(* happened: nobody holds a copy that is being delivered before a grace    *)
(* period has ended (UntouchedInv), and nobody holds a package that was not *)
(* uploaded (PackagesInv).                                                  *)
(***************************************************************************)
EXTENDS DeliveryPipeline, VaultStoreProofs

\* The query returns vaults in their grace period only.
TimerInv(t) == t.step # "idle" => /\ t.snap # None /\ Consistent(t.snap)
                                  /\ t.snap.status = "grace_period"

StarterInv(s) == s.step # "idle" => s.doc \in VaultDoc /\ Consistent(s.doc)

\* A job that is about to archive has a package to show for it.
JobInv(k) == /\ Sound(k.snap) /\ Sound(k.fresh)
             /\ k.step \in {"payloads", "upload"} => k.snap # None
             /\ k.step \in {"reread", "archive"} => k.uploads # {}
             /\ k.step \in {"archive", "save_error", "mirror_error"} => k.fresh # None

PipeInv == /\ IInv
           /\ PipelineTypeOK
           /\ TimerInv(timer)
           /\ \A f \in Functions : StarterInv(starter[f])
           /\ \A j \in Jobs : JobInv(job[j])

-----------------------------------------------------------------------------
(* The documents the parties write.                                         *)

\* The timer's mark, the claim, the record of a start and the record of an error leave
\* a consistent document consistent.
LEMMA MarkedLemma ==
    ASSUME NEW v \in VaultDoc, Consistent(v), v.status = "grace_period"
    PROVE  /\ [v EXCEPT !.published = TRUE] \in VaultDoc
           /\ Consistent([v EXCEPT !.published = TRUE])
<1> DEFINE w == [v EXCEPT !.published = TRUE]
<1>1. w \in VaultDoc
  BY DEF VaultDoc
<1>2. /\ w.recipients = v.recipients /\ w.can_activate = v.can_activate
      /\ w.assigned = v.assigned /\ w.files = v.files /\ w.status = v.status
      /\ w.expires = v.expires /\ w.packages = v.packages
      /\ w.threshold = v.threshold /\ w.requests = v.requests
  BY DEF VaultDoc
<1> QED
  BY <1>1, <1>2 DEF Consistent, ConsentOK, ThresholdOK, StatusOK, ClockOK, FilesOK, ArchiveOK

LEMMA ClaimedLemma ==
    ASSUME NEW v \in VaultDoc, Consistent(v)
    PROVE  Claimed(v) \in VaultDoc /\ Consistent(Claimed(v)) /\ Claimed(v).packages = v.packages
<1> DEFINE w == Claimed(v)
<1>1. w \in VaultDoc
  BY DEF VaultDoc, Claimed, Statuses
<1>2. /\ w.recipients = v.recipients /\ w.can_activate = v.can_activate
      /\ w.assigned = v.assigned /\ w.files = v.files /\ w.status = "delivery_initiated"
      /\ w.packages = v.packages
      /\ w.threshold = v.threshold /\ w.requests = v.requests
  BY DEF VaultDoc, Claimed
<1> QED
  BY <1>1, <1>2 DEF Consistent, ConsentOK, ThresholdOK, StatusOK, ClockOK, FilesOK, ArchiveOK

LEMMA RecordedLemma ==
    ASSUME NEW v \in VaultDoc, Consistent(v),
           NEW w \in {[v EXCEPT !.job_started = TRUE], [v EXCEPT !.error = TRUE]}
    PROVE  w \in VaultDoc /\ Consistent(w) /\ w.packages = v.packages
<1>1. w \in VaultDoc
  BY DEF VaultDoc
<1>2. /\ w.recipients = v.recipients /\ w.can_activate = v.can_activate
      /\ w.assigned = v.assigned /\ w.files = v.files /\ w.status = v.status
      /\ w.expires = v.expires /\ w.packages = v.packages /\ w.published = v.published
      /\ w.threshold = v.threshold /\ w.requests = v.requests
  BY DEF VaultDoc
<1> QED
  BY <1>1, <1>2 DEF Consistent, ConsentOK, ThresholdOK, StatusOK, ClockOK, FilesOK, ArchiveOK

\* The archive is consistent because it names a package.
LEMMA ArchivedLemma ==
    ASSUME NEW v \in VaultDoc, Consistent(v), NEW P \in SUBSET Package, P # {}
    PROVE  Archived(v, P) \in VaultDoc /\ Consistent(Archived(v, P)) /\ Archived(v, P).packages = P
<1> DEFINE w == Archived(v, P)
<1>1. w \in VaultDoc
  BY DEF VaultDoc, Archived, Statuses
<1>2. /\ w.recipients = v.recipients /\ w.can_activate = v.can_activate
      /\ w.assigned = v.assigned /\ w.files = v.files /\ w.status = "delivered_archived"
      /\ w.packages = P
      /\ w.threshold = v.threshold /\ w.requests = v.requests
  BY DEF VaultDoc, Archived
<1> QED
  BY <1>1, <1>2 DEF Consistent, ConsentOK, ThresholdOK, StatusOK, ClockOK, FilesOK, ArchiveOK

LEMMA PackageLemma ==
    ASSUME NEW v \in VaultDoc, NEW r \in v.recipients
    PROVE  PackageFor(v, r) \in Package
BY DEF PackageFor, Package, VaultDoc

-----------------------------------------------------------------------------
(* The store's part of a pipeline step.                                     *)

LEMMA StoreKept ==
    ASSUME IInv, StoreUnchanged
    PROVE  IInv'
BY DEF StoreUnchanged, storeVars, history, IInv, TypeOK, Sound

LEMMA StoreOverwritten ==
    ASSUME IInv, NEW doc \in VaultDoc, Consistent(doc), Overwrite(doc), OnlyVault
    PROVE  IInv'
<1>1. vault' \in VaultDoc \cup {None} /\ Sound(vault')
  BY DEF Overwrite, Sound, IInv
<1>2. UNCHANGED <<delivery, blobs, uploaded, call, now, consent, discarded>>
  BY DEF OnlyVault, history
<1>3. TypeOK'
  BY <1>1, <1>2 DEF IInv, TypeOK
<1>4. (\A c \in Clients : CallInv(call[c]))'
  BY <1>2 DEF IInv
<1>5. Sound(vault)'
  BY <1>1 DEF Sound
<1> QED
  BY <1>3, <1>4, <1>5 DEF IInv

LEMMA StoreMirrored ==
    ASSUME IInv, delivery' \in Statuses \cup {None}, OnlyDelivery
    PROVE  IInv'
BY DEF OnlyDelivery, history, IInv, TypeOK, Sound

LEMMA FaultsCounted ==
    ASSUME PipeInv, NoFault \/ (\E kind : Fault(kind))
    PROVE  faults' \in 0..MaxFaults
BY PipelineBounds DEF PipeInv, PipelineTypeOK, NoFault, Fault

LEMMA ObservedLemma ==
    ASSUME Observe
    PROVE  elapsed' \in BOOLEAN
BY DEF Observe

-----------------------------------------------------------------------------
(* The common shapes of a step: one party moves on, the others stay.        *)

LEMMA TimerStep ==
    ASSUME PipeInv, IInv', timer' \in TimerRun, TimerInv(timer'), inbox' \in Nat,
           UNCHANGED <<starter, job, released>>, NoFault \/ (\E kind : Fault(kind)), Observe
    PROVE  PipeInv'
<1>1. faults' \in 0..MaxFaults /\ elapsed' \in BOOLEAN
  BY FaultsCounted, ObservedLemma
<1>2. PipelineTypeOK'
  BY <1>1 DEF PipeInv, PipelineTypeOK, IInv
<1> QED
  BY <1>2 DEF PipeInv

LEMMA StarterStep ==
    ASSUME PipeInv, IInv', NEW f \in Functions, NEW s \in Invocation, StarterInv(s),
           starter' = [starter EXCEPT ![f] = s], inbox' \in Nat,
           job' \in [Jobs -> Execution], \A j \in Jobs : JobInv(job'[j]),
           UNCHANGED <<timer, released>>, NoFault \/ (\E kind : Fault(kind)), Observe
    PROVE  PipeInv'
<1>1. faults' \in 0..MaxFaults /\ elapsed' \in BOOLEAN
  BY FaultsCounted, ObservedLemma
<1>2. starter' \in [Functions -> Invocation]
  BY DEF PipeInv, PipelineTypeOK
<1>3. \A g \in Functions : StarterInv(starter'[g])
  BY DEF PipeInv, PipelineTypeOK
<1>4. PipelineTypeOK'
  BY <1>1, <1>2 DEF PipeInv, PipelineTypeOK, IInv
<1> QED
  BY <1>3, <1>4 DEF PipeInv

LEMMA JobStep ==
    ASSUME PipeInv, IInv', NEW j \in Jobs, NEW k \in Execution, JobInv(k),
           job' = [job EXCEPT ![j] = k], released' \subseteq Package,
           UNCHANGED <<timer, inbox, starter>>, NoFault \/ (\E kind : Fault(kind)), Observe
    PROVE  PipeInv'
<1>1. faults' \in 0..MaxFaults /\ elapsed' \in BOOLEAN
  BY FaultsCounted, ObservedLemma
<1>2. job' \in [Jobs -> Execution]
  BY DEF PipeInv, PipelineTypeOK
<1>3. \A i \in Jobs : JobInv(job'[i])
  BY DEF PipeInv, PipelineTypeOK
<1>4. PipelineTypeOK'
  BY <1>1, <1>2 DEF PipeInv, PipelineTypeOK, IInv
<1> QED
  BY <1>3, <1>4 DEF PipeInv

-----------------------------------------------------------------------------
(* The steps of the timer.                                                  *)

\* A party at rest holds no copy.
LEMMA IdleParties ==
    /\ TimerIdle \in TimerRun /\ TimerInv(TimerIdle)
    /\ StarterIdle \in Invocation /\ StarterInv(StarterIdle)
    /\ JobIdle \in Execution /\ JobInv(JobIdle)
<1>1. 1 \in 1..MaxAttempts
  BY PipelineBounds
<1> QED
  BY <1>1 DEF TimerIdle, TimerRun, TimerInv, StarterIdle, Invocation, StarterInv,
              JobIdle, Execution, JobInv, Sound

LEMMA TimerLemma ==
    ASSUME PipeInv, TimerWork \/ TimerFails
    PROVE  PipeInv'
<1>1. /\ IInv /\ timer \in TimerRun /\ TimerInv(timer) /\ inbox \in Nat
      /\ vault \in VaultDoc \cup {None} /\ Sound(vault)
  BY DEF PipeInv, PipelineTypeOK, IInv, TypeOK
<1>2. CASE TimerFire
  <2> DEFINE t == [step |-> "publish", snap |-> vault]
  <2>1. t \in TimerRun /\ TimerInv(t)
    BY <1>1, <1>2 DEF TimerFire, GraceOver, TimerRun, TimerInv, Sound
  <2>2. timer' = t /\ inbox' \in Nat /\ NoFault /\ Observe /\ StoreUnchanged
        /\ UNCHANGED <<starter, job, released>>
    BY <1>1, <1>2 DEF TimerFire, TimerOnly
  <2> QED
    BY <1>1, <2>1, <2>2, StoreKept, TimerStep
<1>3. CASE PublishExpirationEvent
  <2> DEFINE t == [timer EXCEPT !.step = "mark"]
  <2>1. t \in TimerRun /\ t.snap = timer.snap
    BY <1>1 DEF TimerRun
  <2>2. TimerInv(t)
    BY <1>1, <1>3, <2>1 DEF PublishExpirationEvent, TimerInv
  <2>3. timer' = t /\ inbox' \in Nat /\ NoFault /\ Observe /\ StoreUnchanged
        /\ UNCHANGED <<starter, job, released>>
    BY <1>1, <1>3 DEF PublishExpirationEvent, TimerOnly
  <2> QED
    BY <1>1, <2>1, <2>2, <2>3, StoreKept, TimerStep
<1>4. CASE MarkEventPublished
  <2>1. timer.snap \in VaultDoc /\ Consistent(timer.snap) /\ timer.snap.status = "grace_period"
    BY <1>1, <1>4 DEF MarkEventPublished, TimerInv, TimerRun
  <2>2. IInv'
    BY <1>1, <1>4, <2>1, MarkedLemma, StoreOverwritten DEF MarkEventPublished
  <2>3. timer' = TimerIdle /\ inbox' \in Nat /\ NoFault /\ Observe
        /\ UNCHANGED <<starter, job, released>>
    BY <1>1, <1>4 DEF MarkEventPublished
  <2> QED
    BY <2>2, <2>3, IdleParties, TimerStep
<1>5. CASE TimerFails
  <2>1. timer' = TimerIdle /\ inbox' \in Nat /\ (\E kind : Fault(kind)) /\ Observe
        /\ StoreUnchanged /\ UNCHANGED <<starter, job, released>>
    BY <1>1, <1>5 DEF TimerFails, TimerOnly
  <2> QED
    BY <1>1, <2>1, IdleParties, StoreKept, TimerStep
<1> QED
  BY <1>2, <1>3, <1>4, <1>5 DEF TimerWork

-----------------------------------------------------------------------------
(* The steps of an invocation.                                              *)

\* An invocation that keeps its copy may go on with any step.
LEMMA StarterMoves ==
    ASSUME PipeInv, NEW f \in Functions, starter[f].step # "idle",
           NEW step \in {"post", "record", "refresh", "error"}
    PROVE  LET s == [starter[f] EXCEPT !.step = step]
           IN s \in Invocation /\ StarterInv(s)
<1>1. starter[f] \in Invocation /\ StarterInv(starter[f])
  BY DEF PipeInv, PipelineTypeOK
<1> QED
  BY <1>1 DEF Invocation, StarterInv

LEMMA JobsStart ==
    ASSUME PipeInv, JobStarts \/ UNCHANGED job
    PROVE  job' \in [Jobs -> Execution] /\ \A j \in Jobs : JobInv(job'[j])
<1>1. job \in [Jobs -> Execution] /\ \A j \in Jobs : JobInv(job[j])
  BY DEF PipeInv, PipelineTypeOK
<1>2. CASE UNCHANGED job
  BY <1>1, <1>2
<1>3. CASE JobStarts
  <2> DEFINE k == [JobIdle EXCEPT !.step = "load"]
  <2>1. PICK j \in Jobs : job' = [job EXCEPT ![j] = k]
    BY <1>3 DEF JobStarts
  <2>2. k \in Execution /\ JobInv(k)
    BY IdleParties DEF Execution, JobInv, JobIdle
  <2> HIDE DEF k
  <2> QED
    BY <1>1, <2>1, <2>2
<1> QED
  BY <1>2, <1>3

\* The event is received, by a function that may claim the vault it reads.
LEMMA ReceiveLemma ==
    ASSUME PipeInv, NEW f \in Functions, ReceiveEvent(f) \/ EventMishandled(f)
    PROVE  PipeInv'
<1>1. /\ IInv /\ starter \in [Functions -> Invocation] /\ inbox \in Nat
      /\ starter[f] \in Invocation /\ StarterInv(starter[f])
      /\ vault \in VaultDoc \cup {None} /\ Sound(vault)
  BY DEF PipeInv, PipelineTypeOK, IInv, TypeOK
<1>2. inbox' \in Nat
  BY <1>1 DEF ReceiveEvent, EventMishandled, EventArrives
<1>3. PICK s \in Invocation : StarterInv(s) /\ starter' = [starter EXCEPT ![f] = s]
  <2>1. CASE UNCHANGED starter
    <3>1. starter' = [starter EXCEPT ![f] = starter[f]]
      BY <1>1, <2>1
    <3> QED
      BY <1>1, <3>1
  <2>2. CASE LoadVault(f) /\ Claimable(vault)
    <3> DEFINE s == [StarterIdle EXCEPT !.step = "claim", !.doc = vault]
    <3>1. s \in Invocation /\ StarterInv(s)
      BY <1>1, <2>2 DEF StarterIdle, Invocation, StarterInv, Claimable, Sound
    <3>2. starter' = [starter EXCEPT ![f] = s]
      BY <2>2 DEF LoadVault
    <3> HIDE DEF s
    <3> QED
      BY <3>1, <3>2
  <2> QED
    BY <2>1, <2>2 DEF ReceiveEvent, EventMishandled, LoadVault
<1>4. (NoFault \/ (\E kind : Fault(kind))) /\ Observe /\ StoreUnchanged
      /\ UNCHANGED <<timer, job, released>>
  BY DEF ReceiveEvent, EventMishandled, StarterOnly
<1>5. job' \in [Jobs -> Execution] /\ \A j \in Jobs : JobInv(job'[j])
  BY <1>4, JobsStart
<1> QED
  BY <1>1, <1>2, <1>3, <1>4, <1>5, StoreKept, StarterStep

\* The claim and its mirror.
LEMMA ClaimLemma ==
    ASSUME PipeInv, NEW f \in Functions, ClaimVault(f) \/ MirrorClaim(f)
    PROVE  PipeInv'
<1>1. /\ IInv /\ starter[f] \in Invocation /\ StarterInv(starter[f])
      /\ starter[f].doc \in VaultDoc /\ Consistent(starter[f].doc)
      /\ starter[f].step # "idle" /\ inbox' \in Nat
  BY DEF PipeInv, PipelineTypeOK, StarterInv, Invocation, ClaimVault, MirrorClaim
<1>2. NoFault /\ Observe /\ UNCHANGED <<timer, job, released>>
  BY DEF ClaimVault, MirrorClaim
<1>3. job' \in [Jobs -> Execution] /\ \A j \in Jobs : JobInv(job'[j])
  BY <1>2, JobsStart
<1>4. CASE ClaimVault(f)
  <2> DEFINE doc == Claimed(starter[f].doc)
             s == IF vault = None THEN StarterIdle
                  ELSE [starter[f] EXCEPT !.step = "mirror_claim", !.doc = doc]
  <2>1. doc \in VaultDoc /\ Consistent(doc)
    BY <1>1, ClaimedLemma
  <2>2. IInv'
    BY <1>1, <1>4, <2>1, StoreOverwritten DEF ClaimVault
  <2>3. starter' = [starter EXCEPT ![f] = s]
    BY <1>4 DEF ClaimVault, PipeInv, PipelineTypeOK
  <2> HIDE DEF doc
  <2>4. s \in Invocation /\ StarterInv(s)
    BY <1>1, <2>1, IdleParties DEF Invocation, StarterInv
  <2> QED
    BY <1>1, <1>2, <1>3, <2>2, <2>3, <2>4, StarterStep
<1>5. CASE MirrorClaim(f)
  <2> DEFINE s == [starter[f] EXCEPT !.step = "post"]
  <2>1. s \in Invocation /\ StarterInv(s)
    BY <1>1, StarterMoves
  <2>2. starter' = [starter EXCEPT ![f] = s]
    BY <1>5 DEF MirrorClaim, StarterTo, PipeInv, PipelineTypeOK
  <2>3. IInv'
    BY <1>1, <1>5, StoreMirrored DEF MirrorClaim, VaultDoc
  <2> QED
    BY <1>1, <1>2, <1>3, <2>1, <2>2, <2>3, StarterStep
<1> QED
  BY <1>4, <1>5

\* The start of the job, answered or not.
LEMMA StartJobLemma ==
    ASSUME PipeInv, NEW f \in Functions, StartDeliveryJob(f) \/ StartFails(f)
    PROVE  PipeInv'
<1>1. PICK step \in {"record", "error"} : starter' = [starter EXCEPT ![f].step = step]
  BY DEF StartDeliveryJob, StartFails, StarterTo
<1> DEFINE s == [starter[f] EXCEPT !.step = step]
<1>2. starter' = [starter EXCEPT ![f] = s]
  BY <1>1 DEF PipeInv, PipelineTypeOK
<1>3. s \in Invocation /\ StarterInv(s)
  BY StarterMoves DEF StartDeliveryJob, StartFails
<1>4. IInv /\ inbox' \in Nat
  BY DEF PipeInv, PipelineTypeOK, StartDeliveryJob, StartFails
<1>5. /\ NoFault \/ (\E kind : Fault(kind))
      /\ Observe /\ StoreUnchanged /\ UNCHANGED <<timer, released>>
      /\ JobStarts \/ UNCHANGED job
  BY DEF StartDeliveryJob, StartFails
<1>6. job' \in [Jobs -> Execution] /\ \A j \in Jobs : JobInv(job'[j])
  BY <1>5, JobsStart
<1> QED
  BY <1>2, <1>3, <1>4, <1>5, <1>6, StoreKept, StarterStep

\* Both outcomes are recorded on the copy the function holds.
LEMMA RecordLemma ==
    ASSUME PipeInv, NEW f \in Functions, RecordJob(f) \/ RecordError(f)
    PROVE  PipeInv'
<1>1. /\ IInv /\ starter[f] \in Invocation /\ inbox' \in Nat
      /\ starter[f].doc \in VaultDoc /\ Consistent(starter[f].doc)
  BY DEF PipeInv, PipelineTypeOK, StarterInv, RecordJob, RecordError
<1>2. NoFault /\ Observe /\ OnlyVault /\ UNCHANGED <<timer, job, released>>
  BY DEF RecordJob, RecordError
<1>3. job' \in [Jobs -> Execution] /\ \A j \in Jobs : JobInv(job'[j])
  BY <1>2, JobsStart
<1>4. IInv'
  BY <1>1, <1>2, RecordedLemma, StoreOverwritten DEF RecordJob, RecordError
<1>5. PICK s \in Invocation : StarterInv(s) /\ starter' = [starter EXCEPT ![f] = s]
  <2>1. CASE RecordJob(f)
    <3>1. PICK step \in {"error", "refresh"} : starter' = [starter EXCEPT ![f].step = step]
      BY <2>1 DEF RecordJob, StarterTo
    <3> DEFINE s == [starter[f] EXCEPT !.step = step]
    <3>2. starter' = [starter EXCEPT ![f] = s]
      BY <3>1 DEF PipeInv, PipelineTypeOK
    <3>3. s \in Invocation /\ StarterInv(s)
      BY <2>1, StarterMoves DEF RecordJob
    <3> HIDE DEF s
    <3> QED
      BY <3>2, <3>3
  <2>2. CASE RecordError(f) /\ vault = None
    BY <2>2, IdleParties DEF RecordError
  <2>3. CASE RecordError(f) /\ vault # None
    <3> DEFINE s == [starter[f] EXCEPT !.step = "refresh", !.failed = TRUE]
    <3>1. starter' = [starter EXCEPT ![f] = s]
      BY <2>3 DEF RecordError, PipeInv, PipelineTypeOK
    <3>2. s \in Invocation /\ StarterInv(s)
      BY <1>1 DEF Invocation, StarterInv
    <3> HIDE DEF s
    <3> QED
      BY <3>1, <3>2
  <2> QED
    BY <2>1, <2>2, <2>3
<1> QED
  BY <1>1, <1>2, <1>3, <1>4, <1>5, StarterStep

\* The last read and the last mirror, and the ends an invocation may come to.
LEMMA MirrorLemma ==
    ASSUME PipeInv, NEW f \in Functions,
           Refresh(f) \/ Mirror(f) \/ StarterStoreFails(f) \/ StarterCrash(f)
    PROVE  PipeInv'
<1>1. /\ IInv /\ starter[f] \in Invocation /\ StarterInv(starter[f])
      /\ inbox' \in Nat /\ vault \in VaultDoc \cup {None}
      /\ starter[f].mirror \in Statuses \cup {None}
  BY DEF PipeInv, PipelineTypeOK, IInv, TypeOK, Refresh, Mirror, StarterStoreFails,
         StarterCrash, Invocation
<1>2. /\ NoFault \/ (\E kind : Fault(kind))
      /\ Observe /\ UNCHANGED <<timer, job, released>>
  BY DEF Refresh, Mirror, StarterStoreFails, StarterCrash, StarterOnly
<1>3. job' \in [Jobs -> Execution] /\ \A j \in Jobs : JobInv(job'[j])
  BY <1>2, JobsStart
<1>4. IInv'
  BY <1>1, StoreKept, StoreMirrored
     DEF Refresh, Mirror, StarterStoreFails, StarterCrash, StarterOnly
<1>5. PICK s \in Invocation : StarterInv(s) /\ starter' = [starter EXCEPT ![f] = s]
  <2>1. CASE Refresh(f) /\ vault # None
    <3> DEFINE s == [starter[f] EXCEPT !.step = "mirror", !.mirror = vault.status]
    <3>1. starter' = [starter EXCEPT ![f] = s]
      BY <2>1 DEF Refresh, PipeInv, PipelineTypeOK
    <3>2. vault.status \in Statuses
      BY <1>1, <2>1 DEF VaultDoc
    <3>3. s \in Invocation /\ StarterInv(s)
      BY <1>1, <2>1, <3>2 DEF Refresh, Invocation, StarterInv
    <3> HIDE DEF s
    <3> QED
      BY <3>1, <3>3
  <2>2. CASE StarterStoreFails(f) /\ StarterTo(f, "error")
    <3> DEFINE s == [starter[f] EXCEPT !.step = "error"]
    <3>1. starter' = [starter EXCEPT ![f] = s]
      BY <2>2 DEF StarterTo, PipeInv, PipelineTypeOK
    <3>2. s \in Invocation /\ StarterInv(s)
      BY <2>2, StarterMoves DEF StarterStoreFails
    <3> HIDE DEF s
    <3> QED
      BY <3>1, <3>2
  <2>3. CASE starter' = [starter EXCEPT ![f] = StarterIdle]
    BY <2>3, IdleParties
  <2> QED
    BY <2>1, <2>2, <2>3 DEF Refresh, Mirror, StarterStoreFails, StarterCrash, StarterEnds
<1> QED
  BY <1>1, <1>2, <1>3, <1>4, <1>5, StarterStep

\* Every step of an invocation preserves the invariant.
LEMMA StarterLemma ==
    ASSUME PipeInv, NEW f \in Functions, StarterWork(f) \/ StarterFailure(f)
    PROVE  PipeInv'
BY ReceiveLemma, ClaimLemma, StartJobLemma, RecordLemma, MirrorLemma
   DEF StarterWork, StarterFailure

-----------------------------------------------------------------------------
(* The steps of a job.                                                      *)

\* What a non-zero exit leaves: a replica that starts again with nothing, or none.
LEMMA ExitLemma ==
    ASSUME PipeInv, NEW j \in Jobs, JobExits(j) \/ JobEnds(j)
    PROVE  \E k \in Execution : /\ JobInv(k) /\ k.fresh = None /\ k.uploads = {}
                                /\ job' = [job EXCEPT ![j] = k]
<1> DEFINE k == [JobIdle EXCEPT !.step = "load", !.attempt = job[j].attempt + 1]
<1>1. job[j] \in Execution
  BY DEF PipeInv, PipelineTypeOK
<1>2. CASE JobExits(j) /\ job[j].attempt < MaxAttempts
  <2>1. job' = [job EXCEPT ![j] = k]
    BY <1>2 DEF JobExits, PipeInv, PipelineTypeOK
  <2>2. job[j].attempt + 1 \in 1..MaxAttempts
    BY <1>1, <1>2, PipelineBounds DEF Execution
  <2>3. k \in Execution /\ JobInv(k) /\ k.fresh = None /\ k.uploads = {}
    BY <2>2 DEF JobIdle, Execution, JobInv, Sound
  <2> HIDE DEF k
  <2> QED
    BY <2>1, <2>3
<1>3. CASE job' = [job EXCEPT ![j] = JobIdle]
  <2>1. JobIdle.fresh = None /\ JobIdle.uploads = {}
    BY DEF JobIdle
  <2> QED
    BY <1>3, <2>1, IdleParties
<1> QED
  BY <1>2, <1>3 DEF JobExits, JobEnds, PipeInv, PipelineTypeOK

\* A job that keeps what it has and goes on.
LEMMA JobMoves ==
    ASSUME PipeInv, NEW j \in Jobs,
           NEW step \in {"upload", "reread_error", "mirror", "mirror_error"}, JobTo(j, step),
           step = "upload" => job[j].step = "payloads",
           step = "mirror_error" => job[j].step = "save_error"
    PROVE  \E k \in Execution : /\ JobInv(k) /\ k.fresh = job[j].fresh
                                /\ k.uploads = job[j].uploads
                                /\ job' = [job EXCEPT ![j] = k]
<1> DEFINE k == [job[j] EXCEPT !.step = step]
<1>1. job[j] \in Execution /\ JobInv(job[j])
  BY DEF PipeInv, PipelineTypeOK
<1>2. job' = [job EXCEPT ![j] = k]
  BY DEF JobTo, PipeInv, PipelineTypeOK
<1>3. k \in Execution
  BY <1>1 DEF Execution
<1>4. /\ k.fresh = job[j].fresh /\ k.uploads = job[j].uploads /\ k.snap = job[j].snap
      /\ k.step = step
  BY <1>1 DEF Execution
<1>5. JobInv(k)
  BY <1>1, <1>4 DEF JobInv
<1> HIDE DEF k
<1> QED
  BY <1>2, <1>3, <1>4, <1>5

\* What every step of a job does to its record: it keeps the copy and the packages it has,
\* or forgets them, or takes the stored vault as a copy, or packs one package more.
JobRecord(j, k) ==
    /\ k \in Execution /\ JobInv(k) /\ job' = [job EXCEPT ![j] = k]
    /\ k.fresh \in {None, job[j].fresh, vault}
    /\ \/ k.uploads = {} \/ k.uploads = job[j].uploads
       \/ \E p \in released' : k.uploads = job[j].uploads \cup {p}

LEMMA UploadLemma ==
    ASSUME PipeInv, NEW j \in Jobs, UploadPackage(j)
    PROVE  (\E k : JobRecord(j, k)) /\ released \subseteq released' /\ released' \subseteq Package
<1>1. /\ job \in [Jobs -> Execution] /\ job[j] \in Execution /\ JobInv(job[j])
      /\ released \subseteq Package /\ job[j].snap \in VaultDoc
  BY DEF PipeInv, PipelineTypeOK, UploadPackage, JobInv, Execution
<1>2. PICK r \in job[j].snap.recipients :
          /\ released' = released \cup {PackageFor(job[j].snap, r)}
          /\ Packed(j, PackageFor(job[j].snap, r))
  BY DEF UploadPackage
<1> DEFINE package == PackageFor(job[j].snap, r)
           done == job[j].uploads \cup {package}
           step == IF {p.to : p \in done} = job[j].snap.recipients THEN "reread" ELSE "upload"
           k == [job[j] EXCEPT !.uploads = done, !.step = step]
<1>3. package \in Package
  BY <1>1, PackageLemma
<1>4. job' = [job EXCEPT ![j] = k]
  BY <1>1, <1>2 DEF Packed
<1> HIDE DEF package
<1>5. k \in Execution
  BY <1>1, <1>3 DEF Execution
<1>6. /\ k.step = step /\ k.snap = job[j].snap
      /\ k.fresh = job[j].fresh /\ k.uploads = done
  BY <1>1 DEF Execution
<1>7. step \in {"reread", "upload"}
  OBVIOUS
<1> HIDE DEF step, k
<1>8. JobInv(k)
  BY <1>1, <1>6, <1>7 DEF JobInv, UploadPackage
<1>9. released' = released \cup {package}
  BY <1>2 DEF package
<1> QED
  BY <1>1, <1>3, <1>4, <1>5, <1>6, <1>8, <1>9 DEF JobRecord

LEMMA JobRecordLemma ==
    ASSUME PipeInv, NEW j \in Jobs, JobWork(j) \/ JobFails(j)
    PROVE  (\E k : JobRecord(j, k)) /\ released \subseteq released' /\ released' \subseteq Package
<1>1. /\ job \in [Jobs -> Execution] /\ job[j] \in Execution /\ JobInv(job[j])
      /\ vault \in VaultDoc \cup {None} /\ Sound(vault) /\ released \subseteq Package
  BY DEF PipeInv, PipelineTypeOK, IInv, TypeOK
<1>2. CASE released' = released /\ ~UploadPackage(j)
  <2>1. CASE JobExits(j) \/ JobEnds(j)
    BY <1>1, <1>2, <2>1, ExitLemma DEF JobRecord
  <2>2. CASE \/ LoadPayloads(j) \/ ArchiveVault(j)
             \/ (SaveJobError(j) /\ ~JobExits(j)) \/ (JobFails(j) /\ ~JobExits(j))
             \/ (RereadVault(j) /\ vault = None /\ ~JobExits(j))
    <3>1. PICK step \in {"upload", "reread_error", "mirror", "mirror_error"} :
              /\ JobTo(j, step)
              /\ step = "upload" => job[j].step = "payloads"
              /\ step = "mirror_error" => job[j].step = "save_error"
      BY <2>2 DEF LoadPayloads, ArchiveVault, SaveJobError, JobFails, RereadVault
    <3> QED
      BY <1>1, <1>2, <3>1, JobMoves DEF JobRecord
  <2>3. CASE RunJob(j) /\ vault # None /\ ~JobEnds(j)
    <3> DEFINE k == [job[j] EXCEPT !.step = "payloads", !.snap = vault]
    <3>1. job' = [job EXCEPT ![j] = k]
      BY <1>1, <2>3 DEF RunJob
    <3>2. k \in Execution
      BY <1>1, <2>3 DEF Execution
    <3>3. /\ k.step = "payloads" /\ k.snap = vault
          /\ k.fresh = job[j].fresh /\ k.uploads = job[j].uploads
      BY <1>1 DEF Execution
    <3>4. JobInv(k)
      BY <1>1, <2>3, <3>3 DEF JobInv
    <3> HIDE DEF k
    <3> QED
      BY <1>1, <1>2, <3>1, <3>2, <3>3, <3>4 DEF JobRecord
  <2>4. CASE RereadVault(j) /\ vault # None
    <3> DEFINE step == IF job[j].step = "reread" THEN "archive" ELSE "save_error"
               k == [job[j] EXCEPT !.fresh = vault, !.step = step]
    <3>1. job' = [job EXCEPT ![j] = k]
      BY <1>1, <2>4 DEF RereadVault
    <3>2. k \in Execution
      BY <1>1, <2>4 DEF Execution
    <3>3. /\ k.step = step /\ k.snap = job[j].snap
          /\ k.fresh = vault /\ k.uploads = job[j].uploads
      BY <1>1 DEF Execution
    <3>4. JobInv(k)
      BY <1>1, <2>4, <3>3 DEF JobInv
    <3> HIDE DEF k
    <3> QED
      BY <1>1, <1>2, <3>1, <3>2, <3>3, <3>4 DEF JobRecord
  <2> QED
    BY <1>2, <2>1, <2>2, <2>3, <2>4
       DEF JobWork, RunJob, RereadVault, MirrorArchive, SaveJobError, MirrorJobError
<1>3. CASE UploadPackage(j)
  BY <1>3, UploadLemma
<1> QED
  BY <1>2, <1>3 DEF JobWork, RunJob, LoadPayloads, RereadVault, ArchiveVault, MirrorArchive,
                    SaveJobError, MirrorJobError, JobFails, JobOnly

\* Every step of a job preserves the invariant.
LEMMA JobLemma ==
    ASSUME PipeInv, NEW j \in Jobs, JobWork(j) \/ JobFails(j)
    PROVE  PipeInv'
<1>1. PICK k : JobRecord(j, k)
  BY JobRecordLemma
<1>2. released' \subseteq Package
  BY JobRecordLemma
<1>3. /\ NoFault \/ (\E kind : Fault(kind))
      /\ Observe /\ UNCHANGED <<timer, inbox, starter>>
  BY DEF JobWork, RunJob, LoadPayloads, UploadPackage, RereadVault, ArchiveVault,
         MirrorArchive, SaveJobError, MirrorJobError, JobFails, JobOnly
<1>4. job[j] \in Execution /\ JobInv(job[j]) /\ IInv
  BY DEF PipeInv, PipelineTypeOK
<1>5. CASE StoreUnchanged
  BY <1>4, <1>5, StoreKept, <1>1, <1>2, <1>3, JobStep DEF JobRecord
<1>6. CASE ArchiveVault(j)
  <2>1. /\ job[j].fresh \in VaultDoc /\ Consistent(job[j].fresh)
        /\ job[j].uploads \in SUBSET Package /\ job[j].uploads # {}
    BY <1>4, <1>6 DEF ArchiveVault, JobInv, Execution, Sound
  <2>2. IInv'
    BY <1>4, <1>6, <2>1, ArchivedLemma, StoreOverwritten DEF ArchiveVault
  <2> QED
    BY <1>1, <1>2, <1>3, <2>2, JobStep DEF JobRecord
<1>7. CASE SaveJobError(j)
  <2>1. job[j].fresh \in VaultDoc /\ Consistent(job[j].fresh)
    BY <1>4, <1>7 DEF SaveJobError, JobInv, Execution, Sound
  <2>2. IInv'
    BY <1>4, <1>7, <2>1, RecordedLemma, StoreOverwritten DEF SaveJobError
  <2> QED
    BY <1>1, <1>2, <1>3, <2>2, JobStep DEF JobRecord
<1>8. CASE MirrorArchive(j) \/ MirrorJobError(j)
  <2>1. delivery' \in Statuses \cup {None} /\ OnlyDelivery
    BY <1>4, <1>8 DEF MirrorArchive, MirrorJobError, JobInv, Execution, VaultDoc, Statuses
  <2>2. IInv'
    BY <1>4, <2>1, StoreMirrored
  <2> QED
    BY <1>1, <1>2, <1>3, <2>2, JobStep DEF JobRecord
<1> QED
  BY <1>5, <1>6, <1>7, <1>8
     DEF JobWork, RunJob, LoadPayloads, UploadPackage, RereadVault, JobFails, JobOnly

-----------------------------------------------------------------------------
(* The invariant.                                                           *)

\* Calls and the clock leave the parties alone.
LEMMA ApiLemma ==
    ASSUME PipeInv, ClockTick \/ (\E c \in Clients : ApiCall(c))
    PROVE  PipeInv'
<1>1. IInv'
  BY ApiStepLemma, TickLemma DEF PipeInv, ClockTick, ApiCall
<1>2. UNCHANGED pipeVars /\ elapsed' \in BOOLEAN
  BY ObservedLemma DEF ClockTick, ApiCall
<1>3. UNCHANGED <<timer, inbox, starter, job, faults, released>>
  BY <1>2 DEF pipeVars
<1> QED
  BY <1>1, <1>2, <1>3 DEF PipeInv, PipelineTypeOK, IInv

\* PipeInv is an inductive invariant of the specification.
LEMMA PipeInvariant == PipelineSpec => []PipeInv
<1>1. PipelineInit => PipeInv
  <2> SUFFICES ASSUME PipelineInit PROVE PipeInv
    OBVIOUS
  <2>1. IInv
    BY InitLemma DEF PipelineInit
  <2>2. 0 \in 0..MaxFaults
    BY PipelineBounds
  <2>3. PipelineTypeOK
    BY <2>1, <2>2, IdleParties DEF PipelineInit, PipelineTypeOK, IInv
  <2> QED
    BY <2>1, <2>3, IdleParties DEF PipelineInit, PipeInv
<1>2. PipeInv /\ [PipelineNext]_pipelineVars => PipeInv'
  <2> SUFFICES ASSUME PipeInv, [PipelineNext]_pipelineVars PROVE PipeInv'
    OBVIOUS
  <2>1. CASE UNCHANGED pipelineVars
    BY <2>1, StoreKept
       DEF pipelineVars, pipeVars, StoreUnchanged, PipeInv, PipelineTypeOK, IInv
  <2> QED
    BY <2>1, ApiLemma, TimerLemma, StarterLemma, JobLemma DEF PipelineNext
<1> QED
  BY <1>1, <1>2, PTL DEF PipelineSpec

\* The pipeline's state is well typed: attempts stay within the retry limit, every copy is
\* a vault document.
THEOREM PipelineTypeCorrect == PipelineSpec => []PipelineTypeOK
<1>1. PipeInv => PipelineTypeOK
  BY DEF PipeInv
<1> QED
  BY <1>1, PipeInvariant, PTL

\* Whatever the timer, the function and the job write over whatever the calls wrote, and
\* wherever each of them dies, the stored document agrees with itself.
THEOREM PipelineStaysConsistent == PipelineSpec => []DocumentConsistent
<1>1. PipeInv => DocumentConsistent
  BY DEF PipeInv, IInv, Sound, DocumentConsistent
<1> QED
  BY <1>1, PipeInvariant, PTL

\* No party of the pipeline brings a deleted vault back.
THEOREM PipelineNeverRecreates == PipelineSpec => DeletedStaysDeleted
<1>1. [PipelineNext]_pipelineVars => [vault = None => vault' = None]_storeVars
  <2> SUFFICES ASSUME [PipelineNext]_pipelineVars, vault = None PROVE vault' = None
    OBVIOUS
  <2> USE DEF Overwrite, StoreUnchanged, OnlyDelivery, storeVars
  <2>1. CASE UNCHANGED pipelineVars
    BY <2>1 DEF pipelineVars
  <2>2. CASE ClockTick \/ (\E c \in Clients : ApiCall(c))
    BY <2>2, DeletedLemma DEF ClockTick, Tick, ApiCall
  <2>3. CASE TimerWork \/ TimerFails
    BY <2>3 DEF TimerWork, TimerFails, TimerFire, PublishExpirationEvent,
                MarkEventPublished, TimerOnly
  <2>4. ASSUME NEW f \in Functions, StarterWork(f) \/ StarterFailure(f) PROVE vault' = None
    BY <2>4 DEF StarterWork, StarterFailure, ReceiveEvent, EventMishandled, ClaimVault,
                MirrorClaim, StartDeliveryJob, StartFails, RecordJob, RecordError,
                Refresh, Mirror, StarterStoreFails, StarterCrash, StarterOnly
  <2>5. ASSUME NEW j \in Jobs, JobWork(j) \/ JobFails(j) PROVE vault' = None
    BY <2>5 DEF JobWork, JobFails, RunJob, LoadPayloads, UploadPackage, RereadVault,
                ArchiveVault, MirrorArchive, SaveJobError, MirrorJobError, JobOnly
  <2> QED
    BY <2>1, <2>2, <2>3, <2>4, <2>5 DEF PipelineNext
<1> QED
  BY <1>1, PTL DEF PipelineSpec, DeletedStaysDeleted

-----------------------------------------------------------------------------
(* Until a stored grace period reaches its deadline the pipeline is at rest, *)
(* and no copy a call holds is of a vault in delivery.                       *)

Undelivered(v) == v # None => v.status \notin VAULT_ACTIVATION_TERMINAL_STATUSES

Untouched == /\ timer = TimerIdle /\ inbox = 0
             /\ \A f \in Functions : starter[f].step = "idle"
             /\ \A j \in Jobs : job[j].step = "idle"
             /\ released = {}
             /\ Undelivered(vault)
             /\ \A c \in Clients : Undelivered(call[c].snap)

UntouchedInv == elapsed \/ Untouched

\* A call does not begin a delivery.
LEMMA ApiUndelivered ==
    ASSUME IInv, NEW c \in Clients, ApiStep(c), Undelivered(vault),
           \A d \in Clients : Undelivered(call[d].snap)
    PROVE  Undelivered(vault') /\ \A d \in Clients : Undelivered(call'[d].snap)
<1>1. Undelivered(vault')
  <2> SUFFICES ASSUME vault' # None PROVE vault'.status \notin VAULT_ACTIVATION_TERMINAL_STATUSES
    BY DEF Undelivered
  <2>1. vault # None
    BY DeletedLemma
  <2>2. CASE vault' = vault
    BY <2>1, <2>2 DEF Undelivered
  <2>3. CASE vault' # vault
    <3>1. call[c].step = "save" /\ Follows(vault', call[c].snap)
      BY <2>3, ApiWrites
    <3>2. call[c].snap # None
      BY <3>1 DEF IInv, CallInv
    <3> QED
      BY <3>1, <3>2 DEF Undelivered, Follows
  <2> QED
    BY <2>2, <2>3
<1>2. PICK k : call' = [call EXCEPT ![c] = k] /\ k.snap \in {None, vault, call[c].snap}
  BY ApiCopies
<1>3. Undelivered(k.snap)
  BY <1>2 DEF Undelivered
<1>4. ASSUME NEW d \in Clients PROVE Undelivered(call'[d].snap)
  BY <1>2, <1>3 DEF IInv, TypeOK
<1> QED
  BY <1>1, <1>4

\* The only way into the pipeline is the timer's, and it needs an expired grace period.
LEMMA UntouchedStep ==
    ASSUME PipeInv, Untouched, PipelineNext
    PROVE  elapsed' \/ Untouched'
<1>1. CASE ClockTick \/ (\E c \in Clients : ApiCall(c))
  <2>1. IInv /\ UNCHANGED <<timer, inbox, starter, job, released>>
    BY <1>1 DEF ClockTick, ApiCall, pipeVars, PipeInv
  <2>2. Undelivered(vault') /\ \A c \in Clients : Undelivered(call'[c].snap)
    <3>1. CASE ClockTick
      BY <3>1 DEF ClockTick, Tick, Untouched
    <3>2. ASSUME NEW c \in Clients, ApiCall(c)
          PROVE  Undelivered(vault') /\ \A d \in Clients : Undelivered(call'[d].snap)
      BY <2>1, <3>2, ApiUndelivered DEF ApiCall, Untouched
    <3> QED
      BY <1>1, <3>1, <3>2
  <2> QED
    BY <2>1, <2>2 DEF Untouched
<1>2. CASE TimerWork \/ TimerFails
  <2>1. CASE TimerFire
    <3>1. GraceOver(vault, now) /\ vault' = vault /\ now' = now
      BY <2>1 DEF TimerFire, TimerOnly, StoreUnchanged, storeVars
    <3> QED
      BY <2>1, <3>1 DEF TimerFire, TimerOnly, Observe
  <2>2. timer.step = "idle"
    BY DEF Untouched, TimerIdle
  <2> QED
    BY <1>2, <2>1, <2>2 DEF TimerWork, TimerFails, PublishExpirationEvent, MarkEventPublished
<1>3. ASSUME NEW f \in Functions PROVE ~(StarterWork(f) \/ StarterFailure(f))
  <2>1. starter[f].step = "idle" /\ inbox = 0
    BY DEF Untouched
  <2> QED
    BY <2>1 DEF StarterWork, StarterFailure, ReceiveEvent, EventMishandled, EventArrives,
                ClaimVault, MirrorClaim, StartDeliveryJob, StartFails, RecordJob, RecordError,
                Refresh, Mirror, StarterStoreFails, StarterCrash
<1>4. ASSUME NEW j \in Jobs PROVE ~(JobWork(j) \/ JobFails(j))
  <2>1. job[j].step = "idle"
    BY DEF Untouched
  <2> QED
    BY <2>1 DEF JobWork, JobFails, RunJob, LoadPayloads, UploadPackage, RereadVault,
                ArchiveVault, MirrorArchive, SaveJobError, MirrorJobError
<1> QED
  BY <1>1, <1>2, <1>3, <1>4 DEF PipelineNext

\* Nothing is announced, claimed, packaged or archived before a grace period has ended.
THEOREM NoEarlyDelivery == PipelineSpec => []DeliveryNeedsExpiredGrace
<1>1. PipelineInit => UntouchedInv
  <2> SUFFICES ASSUME PipelineInit PROVE Untouched
    BY DEF UntouchedInv
  <2>1. Undelivered(vault)
    BY DEF PipelineInit, Init, NewVault, Undelivered, VAULT_ACTIVATION_TERMINAL_STATUSES
  <2>2. \A c \in Clients : Undelivered(call[c].snap)
    BY DEF PipelineInit, Init, Idle, Undelivered
  <2> QED
    BY <2>1, <2>2 DEF PipelineInit, Untouched, StarterIdle, JobIdle
<1>2. PipeInv /\ UntouchedInv /\ [PipelineNext]_pipelineVars => UntouchedInv'
  <2> SUFFICES ASSUME PipeInv, UntouchedInv, [PipelineNext]_pipelineVars
               PROVE  UntouchedInv'
    OBVIOUS
  <2>1. CASE UNCHANGED pipelineVars
    BY <2>1 DEF pipelineVars, pipeVars, storeVars, UntouchedInv, Untouched
  <2>2. CASE PipelineNext /\ elapsed
    <3>1. Observe
      BY <2>2 DEF PipelineNext, ClockTick, ApiCall, TimerWork, TimerFails, TimerFire,
           PublishExpirationEvent, MarkEventPublished, TimerOnly,
           StarterWork, StarterFailure, ReceiveEvent, EventMishandled, ClaimVault,
           MirrorClaim, StartDeliveryJob, StartFails, RecordJob, RecordError,
           Refresh, Mirror, StarterStoreFails, StarterCrash, StarterOnly,
           JobWork, JobFails, RunJob, LoadPayloads, UploadPackage, RereadVault,
           ArchiveVault, MirrorArchive, SaveJobError, MirrorJobError, JobOnly
    <3> QED
      BY <2>2, <3>1 DEF Observe, UntouchedInv
  <2>3. CASE PipelineNext /\ ~elapsed
    BY <2>3, UntouchedStep DEF UntouchedInv
  <2> QED
    BY <2>1, <2>2, <2>3
<1>3. UntouchedInv => DeliveryNeedsExpiredGrace
  <2> SUFFICES ASSUME Untouched PROVE DeliveryNeedsExpiredGrace
    BY DEF UntouchedInv, DeliveryNeedsExpiredGrace
  <2>1. {f \in Functions : starter[f].step # "idle"} = {}
    BY DEF Untouched
  <2>2. InFlight = 0
    BY <2>1, FS_EmptySet DEF InFlight, Untouched
  <2> QED
    BY <2>2 DEF Untouched, Undelivered, DeliveryNeedsExpiredGrace
<1> QED
  BY <1>1, <1>2, <1>3, PipeInvariant, PTL DEF PipelineSpec

-----------------------------------------------------------------------------
(* No copy names a package that was not uploaded.                           *)

Uploaded(v, R) == v # None => v.packages \subseteq R

PackagesInv == /\ Uploaded(vault, released)
               /\ \A c \in Clients : Uploaded(call[c].snap, released)
               /\ timer.step # "idle" => timer.snap.packages \subseteq released
               /\ \A f \in Functions : starter[f].step # "idle" =>
                                          starter[f].doc.packages \subseteq released
               /\ \A j \in Jobs : /\ Uploaded(job[j].fresh, released)
                                  /\ job[j].uploads \subseteq released

\* A call writes the packages of the copy it read.
LEMMA ApiPackages ==
    ASSUME PipeInv, PackagesInv, NEW c \in Clients, ApiCall(c)
    PROVE  PackagesInv'
<1>1. IInv /\ ApiStep(c) /\ UNCHANGED <<timer, inbox, starter, job, released>>
  BY DEF PipeInv, ApiCall, pipeVars
<1>2. Uploaded(vault', released)
  <2>1. CASE vault' # None /\ vault' # vault
    <3>1. call[c].step = "save" /\ Follows(vault', call[c].snap)
      BY <1>1, <2>1, ApiWrites
    <3>2. call[c].snap # None
      BY <1>1, <3>1 DEF IInv, CallInv
    <3> QED
      BY <3>1, <3>2 DEF PackagesInv, Uploaded, Follows
  <2> QED
    BY <2>1 DEF PackagesInv, Uploaded
<1>3. PICK k : call' = [call EXCEPT ![c] = k] /\ k.snap \in {None, vault, call[c].snap}
  BY <1>1, ApiCopies
<1>4. Uploaded(k.snap, released)
  BY <1>3 DEF PackagesInv, Uploaded
<1>5. ASSUME NEW d \in Clients PROVE Uploaded(call'[d].snap, released)
  BY <1>1, <1>3, <1>4 DEF IInv, TypeOK, PackagesInv
<1> QED
  BY <1>1, <1>2, <1>5 DEF PackagesInv

\* The timer's copy is the stored vault's.
LEMMA TimerPackages ==
    ASSUME PipeInv, PackagesInv, TimerWork \/ TimerFails
    PROVE  PackagesInv'
<1>1. UNCHANGED <<call, starter, job, released>>
  BY DEF TimerWork, TimerFails, TimerFire, PublishExpirationEvent, MarkEventPublished,
         TimerOnly, StoreUnchanged, storeVars, OnlyVault
<1>2. Uploaded(vault', released)
  <2>1. CASE MarkEventPublished /\ vault # None
    <3>1. timer.snap \in VaultDoc /\ timer.snap.packages \subseteq released
      BY <2>1 DEF MarkEventPublished, PackagesInv, PipeInv, PipelineTypeOK, TimerInv, TimerRun
    <3>2. vault' = [timer.snap EXCEPT !.published = TRUE]
      BY <2>1 DEF MarkEventPublished, Overwrite
    <3>3. vault'.packages = timer.snap.packages
      BY <3>1, <3>2 DEF VaultDoc
    <3> QED
      BY <3>1, <3>3 DEF Uploaded
  <2>2. CASE vault' \in {vault, None}
    BY <2>2 DEF PackagesInv, Uploaded
  <2> QED
    BY <2>1, <2>2 DEF TimerWork, TimerFails, TimerFire, PublishExpirationEvent,
       MarkEventPublished, TimerOnly, StoreUnchanged, storeVars, Overwrite
<1>3. timer'.step # "idle" => timer'.snap.packages \subseteq released
  <2>1. CASE timer' = TimerIdle
    BY <2>1 DEF TimerIdle
  <2>2. CASE TimerFire
    BY <2>2 DEF TimerFire, GraceOver, PackagesInv, Uploaded
  <2>3. CASE PublishExpirationEvent
    <3>1. timer' = [timer EXCEPT !.step = "mark"] /\ timer \in TimerRun /\ timer.step # "idle"
      BY <2>3 DEF PublishExpirationEvent, PipeInv, PipelineTypeOK
    <3>2. timer'.snap = timer.snap
      BY <3>1 DEF TimerRun
    <3> QED
      BY <3>1, <3>2 DEF PackagesInv
  <2> QED
    BY <2>1, <2>2, <2>3 DEF TimerWork, TimerFails, MarkEventPublished
<1> QED
  BY <1>1, <1>2, <1>3 DEF PackagesInv

\* An invocation writes the packages of the vault it received.
LEMMA StarterPackages ==
    ASSUME PipeInv, PackagesInv, NEW f \in Functions, StarterWork(f) \/ StarterFailure(f)
    PROVE  PackagesInv'
<1> DEFINE doc == starter[f].doc
<1>1. /\ starter \in [Functions -> Invocation] /\ starter[f] \in Invocation
      /\ starter[f].step # "idle" =>
            doc \in VaultDoc /\ doc.packages \subseteq released
      /\ job \in [Jobs -> Execution]
  BY DEF PipeInv, PipelineTypeOK, StarterInv, PackagesInv
<1>2. UNCHANGED <<call, timer, released>>
  BY DEF StarterWork, StarterFailure, ReceiveEvent, EventMishandled, ClaimVault,
         MirrorClaim, StartDeliveryJob, StartFails, RecordJob, RecordError, Refresh, Mirror,
         StarterStoreFails, StarterCrash, StarterOnly, StoreUnchanged, storeVars,
         OnlyVault, OnlyDelivery
<1>3. Uploaded(vault', released)
  <2>1. CASE vault # None /\ (ClaimVault(f) \/ RecordJob(f) \/ RecordError(f))
    <3>1. vault' \in {Claimed(doc), [doc EXCEPT !.job_started = TRUE],
                      [doc EXCEPT !.error = TRUE]} /\ starter[f].step # "idle"
      BY <2>1 DEF ClaimVault, RecordJob, RecordError, Overwrite
    <3>2. vault'.packages = doc.packages
      BY <1>1, <3>1 DEF Claimed, VaultDoc
    <3> QED
      BY <1>1, <3>1, <3>2 DEF Uploaded
  <2>2. CASE vault' \in {vault, None}
    BY <2>2 DEF PackagesInv, Uploaded
  <2> QED
    BY <2>1, <2>2
       DEF StarterWork, StarterFailure, ReceiveEvent, EventMishandled, ClaimVault,
         MirrorClaim, StartDeliveryJob, StartFails, RecordJob, RecordError, Refresh, Mirror,
         StarterStoreFails, StarterCrash, StarterOnly, StoreUnchanged, storeVars,
         OnlyDelivery, Overwrite
<1>4. \E s : /\ starter' = [starter EXCEPT ![f] = s]
             /\ s.step # "idle" => s.doc.packages \subseteq released
  <2>1. CASE UNCHANGED starter
    <3>1. starter' = [starter EXCEPT ![f] = starter[f]]
      BY <1>1, <2>1
    <3> QED
      BY <1>1, <3>1
  <2>2. CASE starter' = [starter EXCEPT ![f] = StarterIdle]
    <3>1. StarterIdle.step = "idle"
      BY DEF StarterIdle
    <3> QED
      BY <2>2, <3>1
  <2>3. CASE LoadVault(f) /\ Claimable(vault)
    <3> DEFINE s == [StarterIdle EXCEPT !.step = "claim", !.doc = vault]
    <3>1. starter' = [starter EXCEPT ![f] = s]
      BY <2>3 DEF LoadVault
    <3>2. s.doc.packages \subseteq released
      BY <2>3 DEF StarterIdle, Claimable, PackagesInv, Uploaded
    <3> HIDE DEF s
    <3> QED
      BY <3>1, <3>2
  <2>4. CASE ClaimVault(f) /\ vault # None
    <3> DEFINE s == [starter[f] EXCEPT !.step = "mirror_claim", !.doc = Claimed(doc)]
    <3>1. starter' = [starter EXCEPT ![f] = s]
      BY <1>1, <2>4 DEF ClaimVault
    <3>2. s.doc = Claimed(doc) /\ doc \in VaultDoc /\ doc.packages \subseteq released
      BY <1>1, <2>4 DEF ClaimVault, Invocation
    <3>3. s.doc.packages \subseteq released
      BY <3>2, <3>2 DEF Claimed, VaultDoc
    <3> HIDE DEF s
    <3> QED
      BY <3>1, <3>3
  <2>5. CASE \E step : StarterTo(f, step) /\ starter[f].step # "idle"
    <3> PICK step : StarterTo(f, step) /\ starter[f].step # "idle"
      BY <2>5
    <3> DEFINE s == [starter[f] EXCEPT !.step = step]
    <3>1. starter' = [starter EXCEPT ![f] = s]
      BY <1>1 DEF StarterTo
    <3>2. s.doc = doc
      BY <1>1 DEF Invocation
    <3> HIDE DEF s
    <3> QED
      BY <1>1, <3>1, <3>2
  <2>6. CASE Refresh(f) /\ vault # None
    <3> DEFINE s == [starter[f] EXCEPT !.step = "mirror", !.mirror = vault.status]
    <3>1. starter' = [starter EXCEPT ![f] = s] /\ starter[f].step # "idle"
      BY <1>1, <2>6 DEF Refresh
    <3>2. s.doc = doc
      BY <1>1 DEF Invocation
    <3> HIDE DEF s
    <3> QED
      BY <1>1, <3>1, <3>2
  <2>7. CASE RecordError(f) /\ vault # None
    <3> DEFINE s == [starter[f] EXCEPT !.step = "refresh", !.failed = TRUE]
    <3>1. starter' = [starter EXCEPT ![f] = s] /\ starter[f].step # "idle"
      BY <1>1, <2>7 DEF RecordError
    <3>2. s.doc = doc
      BY <1>1 DEF Invocation
    <3> HIDE DEF s
    <3> QED
      BY <1>1, <3>1, <3>2
  <2>8. CASE ReceiveEvent(f) \/ EventMishandled(f)
    BY <2>1, <2>3, <2>8 DEF ReceiveEvent, EventMishandled, LoadVault
  <2>9. CASE \/ MirrorClaim(f) \/ StartDeliveryJob(f) \/ StartFails(f) \/ RecordJob(f)
             \/ Mirror(f) \/ StarterStoreFails(f) \/ StarterCrash(f)
    BY <2>2, <2>5, <2>9 DEF MirrorClaim, StartDeliveryJob, StartFails, RecordJob, Mirror,
         StarterStoreFails, StarterCrash, StarterEnds
  <2>10. CASE ClaimVault(f) \/ Refresh(f) \/ RecordError(f)
    BY <2>2, <2>4, <2>6, <2>7, <2>10 DEF ClaimVault, Refresh, RecordError
  <2> QED
    BY <2>8, <2>9, <2>10 DEF StarterWork, StarterFailure
<1>5. ASSUME NEW g \in Functions, starter'[g].step # "idle"
      PROVE  starter'[g].doc.packages \subseteq released
  BY <1>1, <1>4, <1>5 DEF PackagesInv
<1>6. ASSUME NEW j \in Jobs
      PROVE  Uploaded(job'[j].fresh, released) /\ job'[j].uploads \subseteq released
  <2>1. CASE UNCHANGED job
    BY <2>1 DEF PackagesInv
  <2>2. CASE JobStarts
    <3> DEFINE k == [JobIdle EXCEPT !.step = "load"]
    <3>1. PICK i \in Jobs : job' = [job EXCEPT ![i] = k]
      BY <2>2 DEF JobStarts
    <3>2. k.fresh = None /\ k.uploads = {}
      BY DEF JobIdle
    <3> HIDE DEF k
    <3>3. job'[j] = k \/ job'[j] = job[j]
      BY <1>1, <3>1
    <3> QED
      BY <3>2, <3>3 DEF PackagesInv, Uploaded
  <2> QED
    BY <2>1, <2>2
       DEF StarterWork, StarterFailure, ReceiveEvent, EventMishandled, ClaimVault,
         MirrorClaim, StartDeliveryJob, StartFails, RecordJob, RecordError, Refresh, Mirror,
         StarterStoreFails, StarterCrash, StarterOnly
<1> QED
  BY <1>2, <1>3, <1>5, <1>6 DEF PackagesInv

\* A job archives packages it has uploaded, and records errors on the stored vault.
LEMMA JobPackages ==
    ASSUME PipeInv, PackagesInv, NEW j \in Jobs, JobWork(j) \/ JobFails(j)
    PROVE  PackagesInv'
<1>1. PICK k : JobRecord(j, k)
  BY JobRecordLemma
<1>2. released \subseteq released'
  BY JobRecordLemma
<1>3. job \in [Jobs -> Execution] /\ job[j] \in Execution /\ JobInv(job[j])
  BY DEF PipeInv, PipelineTypeOK
<1>4. UNCHANGED <<call, timer, starter>>
  BY DEF JobWork, JobFails, RunJob, LoadPayloads, UploadPackage, RereadVault,
         ArchiveVault, MirrorArchive, SaveJobError, MirrorJobError, JobOnly,
         StoreUnchanged, storeVars, OnlyVault, OnlyDelivery
<1>5. Uploaded(vault', released)
  <2>1. CASE ArchiveVault(j) /\ vault # None
    <3>1. /\ job[j].fresh \in VaultDoc /\ Consistent(job[j].fresh)
          /\ job[j].uploads \in SUBSET Package /\ job[j].uploads # {}
      BY <1>3, <2>1 DEF ArchiveVault, JobInv, Execution, Sound
    <3>2. vault' = Archived(job[j].fresh, job[j].uploads)
      BY <2>1 DEF ArchiveVault, Overwrite
    <3>3. vault'.packages = job[j].uploads
      BY <3>1, <3>2, ArchivedLemma
    <3> QED
      BY <3>3 DEF PackagesInv, Uploaded
  <2>2. CASE SaveJobError(j) /\ vault # None
    <3>1. job[j].fresh \in VaultDoc /\ job[j].fresh # None
      BY <1>3, <2>2 DEF SaveJobError, JobInv, Execution
    <3>2. vault' = [job[j].fresh EXCEPT !.error = TRUE]
      BY <2>2 DEF SaveJobError, Overwrite
    <3>3. vault'.packages = job[j].fresh.packages
      BY <3>1, <3>2 DEF VaultDoc
    <3> QED
      BY <3>1, <3>3 DEF PackagesInv, Uploaded
  <2>3. CASE vault' \in {vault, None}
    BY <2>3 DEF PackagesInv, Uploaded
  <2> QED
    BY <2>1, <2>2, <2>3
       DEF JobWork, JobFails, RunJob, LoadPayloads, UploadPackage, RereadVault,
         ArchiveVault, MirrorArchive, SaveJobError, MirrorJobError, JobOnly,
         StoreUnchanged, storeVars, OnlyDelivery, Overwrite
<1>6. Uploaded(k.fresh, released) /\ k.uploads \subseteq released'
  BY <1>1, <1>2 DEF JobRecord, PackagesInv, Uploaded
<1>7. ASSUME NEW i \in Jobs
      PROVE  Uploaded(job'[i].fresh, released') /\ job'[i].uploads \subseteq released'
  <2>1. job'[i] = k \/ job'[i] = job[i]
    BY <1>1, <1>3 DEF JobRecord
  <2> QED
    BY <1>2, <1>6, <2>1 DEF PackagesInv, Uploaded
<1>8. /\ \A c \in Clients : Uploaded(call'[c].snap, released')
      /\ timer'.step # "idle" => timer'.snap.packages \subseteq released'
      /\ \A f \in Functions : starter'[f].step # "idle" =>
                                  starter'[f].doc.packages \subseteq released'
  BY <1>2, <1>4 DEF PackagesInv, Uploaded
<1>9. Uploaded(vault', released')
  BY <1>2, <1>5 DEF Uploaded
<1> QED
  BY <1>7, <1>8, <1>9 DEF PackagesInv

\* The vault never names a package whose bytes were not uploaded before, however many
\* invocations and jobs overlap, fail and are repeated.
THEOREM NamedPackagesExist == PipelineSpec => []PackagesAreUploaded
<1>1. PipelineInit => PackagesInv
  <2> SUFFICES ASSUME PipelineInit PROVE PackagesInv
    OBVIOUS
  <2>1. Uploaded(vault, released)
    BY DEF PipelineInit, Init, NewVault, Uploaded
  <2>2. \A c \in Clients : Uploaded(call[c].snap, released)
    BY DEF PipelineInit, Init, Idle, Uploaded
  <2> QED
    BY <2>1, <2>2 DEF PipelineInit, PackagesInv, TimerIdle, StarterIdle, JobIdle, Uploaded
<1>2. PipeInv /\ PackagesInv /\ [PipelineNext]_pipelineVars => PackagesInv'
  <2> SUFFICES ASSUME PipeInv, PackagesInv, [PipelineNext]_pipelineVars PROVE PackagesInv'
    OBVIOUS
  <2>1. CASE UNCHANGED pipelineVars \/ ClockTick
    BY <2>1 DEF pipelineVars, pipeVars, storeVars, ClockTick, Tick, PackagesInv
  <2> QED
    BY <2>1, ApiPackages, TimerPackages, StarterPackages, JobPackages DEF PipelineNext
<1>3. PackagesInv => PackagesAreUploaded
  BY DEF PackagesInv, PackagesAreUploaded, Uploaded
<1> QED
  BY <1>1, <1>2, <1>3, PipeInvariant, PTL DEF PipelineSpec

=============================================================================
