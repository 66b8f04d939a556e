------------------------- MODULE SettledDeliveryProofs -------------------------
(***************************************************************************)
(* Proofs about DeliveryPipeline when its parties keep to the usual order  *)
(* (Schedules = {}) and no failure hands an event out twice or lets an     *)
(* invocation write after the job it started: any number of overlapping    *)
(* calls, of functions, jobs, recipients and files, with publish errors,   *)
(* refused and unanswered starts, job errors and crashes of job and API.   *)
(*                                                                         *)
(* Then a delivery is carried by one party at a time: by the timer, by the *)
(* event in flight, by one invocation, by one job.  Whoever carries it     *)
(* holds the stored document itself (SettledInv), so that what each party  *)
(* does to its copy is what happens to the vault, and the whole pipeline   *)
(* implements DeliveryLifecycle.                                           *)
(***************************************************************************)
EXTENDS DeliveryPipelineProofs, SerialStoreProofs

HarmlessFaults == {"publish_error", "start_error", "lost_reply", "job_error", "job_crash"}

\* The regime of this module.
Settling == Schedules = {} /\ Faults \subseteq HarmlessFaults

-----------------------------------------------------------------------------
(* The invariant.                                                           *)

Terminal(v) == v.status \in VAULT_ACTIVATION_TERMINAL_STATUSES
BeingDelivered(v) == v.status = "delivery_initiated"

\* Each recipient of an archived copy has exactly the package made for it.
Matched(v) ==
    v.status = "delivered_archived" =>
        \A r \in v.recipients : {p \in v.packages : p.to = r} = {PackageFor(v, r)}

\* Two copies of one vault at the same stage of its delivery.
Same(w, v) == w.packages = v.packages /\ (Terminal(w) \/ Terminal(v) => w.status = v.status)

\* Operations that may find the vault archived.
LateOperations == {"request_activation", "withdraw", "leave", "delete_account"}

\* A call in progress holds a copy of the current stage.
CallStage(k, v) ==
    /\ k.op = "idle" => k = Idle
    /\ v # None /\ k.snap # None => Same(k.snap, v) /\ Matched(k.snap)
    /\ v # None /\ v.status = "delivered_archived" /\ k.op # "idle" => k.op \in LateOperations

\* The timer, or its event, carries a vault whose grace period is over.
TimerStage(tm, box, v, t) ==
    /\ tm.step # "idle" => GraceOver(v, t) /\ tm.snap = v
    /\ tm.step = "publish" => box = 0
    /\ tm.step = "mark" => box = 1
    /\ box \in {0, 1}
    /\ box = 1 /\ tm.step = "idle" => GraceOver(v, t) /\ v.published

StarterStage(s, v, t) ==
    /\ s.step = "claim" => GraceOver(v, t) /\ v.published /\ s.doc = v
    /\ s.step \in {"mirror_claim", "post", "record", "error"} => s.doc = v /\ BeingDelivered(v)
    /\ s.step \in {"refresh", "mirror"} => Terminal(v)

JobStage(k, v) ==
    /\ k.step # "idle" => Terminal(v)
    /\ k.step = "load" => k.uploads = {}
    /\ k.step \in {"payloads", "upload", "reread", "archive"} =>
          /\ k.snap = v /\ BeingDelivered(v)
          /\ \A p \in k.uploads : p = PackageFor(k.snap, p.to)
    /\ k.step \in {"reread", "archive"} => {p.to : p \in k.uploads} = k.snap.recipients
    /\ k.step \in {"archive", "save_error"} => k.fresh = v

\* An invocation hands over to the job it starts: until its own record is written the
\* job does not get beyond its first step.
HandsOver(s, k) ==
    /\ s.step \in {"claim", "mirror_claim", "post"} => k.step = "idle"
    /\ s.step \in {"record", "error"} => k.step \in {"idle", "load"}

TimerRests == timer.step = "idle" /\ inbox = 0
StartersRest == \A f \in Functions : starter[f].step = "idle"
JobsRest == \A j \in Jobs : job[j].step = "idle"
CallsRest == \A c \in Clients : call[c] = Idle

\* One party at a time.
OneCarrier ==
    /\ ~(TimerRests /\ StartersRest /\ JobsRest) => vault # None /\ CallsRest
    /\ ~TimerRests => StartersRest /\ JobsRest
    /\ \A f, g \in Functions : starter[f].step # "idle" /\ starter[g].step # "idle" => f = g
    /\ \A i, j \in Jobs : job[i].step # "idle" /\ job[j].step # "idle" => i = j
    /\ \A f \in Functions, j \in Jobs : HandsOver(starter[f], job[j])

SettledInv ==
    /\ OneCarrier
    /\ TimerStage(timer, inbox, vault, now)
    /\ \A f \in Functions : StarterStage(starter[f], vault, now)
    /\ \A j \in Jobs : JobStage(job[j], vault)
    /\ \A c \in Clients : CallStage(call[c], vault)
    /\ vault # None => Matched(vault)

-----------------------------------------------------------------------------
(* Steps of one party, the others at rest.                                  *)

LEMMA IdleStage == ASSUME NEW v PROVE CallStage(Idle, v)
BY DEF Idle, CallStage

\* A step of the timer.
LEMMA TimerFrame ==
    ASSUME StartersRest, JobsRest, CallsRest, UNCHANGED <<starter, job, call>>,
           vault' # None, Matched(vault'), TimerStage(timer', inbox', vault', now')
    PROVE  SettledInv'
<1>1. StartersRest' /\ JobsRest' /\ CallsRest'
  BY DEF StartersRest, JobsRest, CallsRest
<1>2. OneCarrier'
  BY <1>1 DEF OneCarrier, StartersRest, JobsRest, HandsOver
<1>3. \A f \in Functions : StarterStage(starter'[f], vault', now')
  BY <1>1 DEF StartersRest, StarterStage
<1>4. \A j \in Jobs : JobStage(job'[j], vault')
  BY <1>1 DEF JobsRest, JobStage
<1>5. \A c \in Clients : CallStage(call'[c], vault')
  BY <1>1, IdleStage DEF CallsRest
<1> QED
  BY <1>2, <1>3, <1>4, <1>5 DEF SettledInv

\* A step of an invocation.
LEMMA StarterFrame ==
    ASSUME PipeInv, SettledInv, NEW f \in Functions, NEW s,
           starter' = [starter EXCEPT ![f] = s],
           \A g \in Functions : g # f => starter[g].step = "idle",
           timer' = timer, timer.step = "idle", inbox' = 0, CallsRest, call' = call,
           vault' # None, Matched(vault'), StarterStage(s, vault', now'),
           \A j \in Jobs : JobStage(job'[j], vault') /\ HandsOver(s, job'[j]),
           \A i, j \in Jobs : job'[i].step # "idle" /\ job'[j].step # "idle" => i = j
    PROVE  SettledInv'
<1>1. starter'[f] = s /\ \A g \in Functions : g # f => starter'[g].step = "idle"
  BY DEF PipeInv, PipelineTypeOK
<1>2. TimerRests' /\ CallsRest'
  BY DEF TimerRests, CallsRest
<1>3. \A g \in Functions, j \in Jobs : HandsOver(starter'[g], job'[j])
  BY <1>1 DEF HandsOver
<1>4. OneCarrier'
  BY <1>1, <1>2, <1>3 DEF OneCarrier
<1>5. TimerStage(timer', inbox', vault', now')
  BY DEF TimerStage
<1>6. \A g \in Functions : StarterStage(starter'[g], vault', now')
  BY <1>1 DEF StarterStage
<1>7. \A c \in Clients : CallStage(call'[c], vault')
  BY <1>2, IdleStage DEF CallsRest
<1> QED
  BY <1>4, <1>5, <1>6, <1>7 DEF SettledInv

\* A step of a job.
LEMMA JobFrame ==
    ASSUME PipeInv, SettledInv, NEW j \in Jobs, NEW k,
           job' = [job EXCEPT ![j] = k], job[j].step # "idle",
           UNCHANGED <<timer, inbox, starter, call, now>>,
           vault' # None, Matched(vault'), JobStage(k, vault'),
           \A f \in Functions : StarterStage(starter[f], vault', now) /\ HandsOver(starter[f], k)
    PROVE  SettledInv'
<1>1. job'[j] = k /\ \A i \in Jobs : i # j => job'[i].step = "idle"
  BY DEF PipeInv, PipelineTypeOK, SettledInv, OneCarrier
<1>2. TimerRests /\ CallsRest
  BY DEF SettledInv, OneCarrier, JobsRest
<1>3. TimerRests' /\ CallsRest'
  BY <1>2 DEF TimerRests, CallsRest
<1>4. \A f \in Functions, i \in Jobs : HandsOver(starter'[f], job'[i])
  BY <1>1 DEF HandsOver
<1>5. \A f, g \in Functions : starter'[f].step # "idle" /\ starter'[g].step # "idle" => f = g
  BY DEF SettledInv, OneCarrier
<1>6. OneCarrier'
  BY <1>1, <1>3, <1>4, <1>5 DEF OneCarrier
<1>7. TimerStage(timer', inbox', vault', now')
  BY <1>3 DEF TimerStage, TimerRests
<1>8. \A i \in Jobs : JobStage(job'[i], vault')
  BY <1>1 DEF JobStage
<1>9. \A c \in Clients : CallStage(call'[c], vault')
  BY <1>3, IdleStage DEF CallsRest
<1>10. \A f \in Functions : StarterStage(starter'[f], vault', now')
  OBVIOUS
<1> QED
  BY <1>6, <1>7, <1>8, <1>9, <1>10 DEF SettledInv

-----------------------------------------------------------------------------
(* The timer.                                                               *)

\* What the parties write keeps the stage.
LEMMA MarkKeeps ==
    ASSUME NEW v \in VaultDoc, NEW t
    PROVE  LET w == [v EXCEPT !.published = TRUE]
           IN /\ Same(w, v) /\ w.status = v.status /\ w.published
              /\ GraceOver(v, t) /\ w # None => GraceOver(w, t)
              /\ v.status = "grace_period" => Matched(w)
<1> DEFINE w == [v EXCEPT !.published = TRUE]
<1>1. /\ w.status = v.status /\ w.packages = v.packages /\ w.expires = v.expires
      /\ w.published
  BY DEF VaultDoc
<1> HIDE DEF w
<1>2. Same(w, v) /\ (GraceOver(v, t) /\ w # None => GraceOver(w, t))
  BY <1>1 DEF Same, Terminal, GraceOver
<1>3. v.status = "grace_period" => Matched(w)
  BY <1>1 DEF Matched
<1> QED
  BY <1>1, <1>2, <1>3 DEF w

\* A step after which the vault is at the stage it was.
StageKept == (vault' = vault) \/ (vault # None /\ vault' # None /\ Same(vault', vault))

\* A vault carried by the timer is not delivered.
LEMMA GraceMatched == ASSUME NEW v, NEW t, GraceOver(v, t) PROVE Matched(v)
BY DEF GraceOver, Matched

\* The night's run finds the pipeline at rest, because whatever is under way has marked the
\* vault or claimed it.
LEMMA TimerFinds ==
    ASSUME Settling, PipeInv, SettledInv, TimerFire
    PROVE  TimerRests /\ StartersRest /\ JobsRest /\ CallsRest
<1>1. GraceOver(vault, now) /\ ~vault.published /\ timer.step = "idle"
  BY DEF TimerFire, TimerIdle
<1>2. ~Terminal(vault)
  BY <1>1 DEF GraceOver, Terminal, VAULT_ACTIVATION_TERMINAL_STATUSES
<1>3. inbox = 0
  BY <1>1 DEF SettledInv, TimerStage
<1>4. ASSUME NEW f \in Functions PROVE starter[f].step = "idle"
  <2>1. StarterStage(starter[f], vault, now) /\ starter[f] \in Invocation
    BY DEF SettledInv, PipeInv, PipelineTypeOK
  <2>2. ~BeingDelivered(vault)
    BY <1>1 DEF GraceOver, BeingDelivered
  <2> QED
    BY <1>1, <1>2, <2>1, <2>2 DEF StarterStage, Invocation
<1>5. ASSUME NEW j \in Jobs PROVE job[j].step = "idle"
  BY <1>2 DEF SettledInv, JobStage
<1>6. CallsRest
  BY DEF TimerFire, Settling, SettledInv, CallStage, CallsRest
<1> QED
  BY <1>1, <1>3, <1>4, <1>5, <1>6 DEF TimerRests, StartersRest, JobsRest

LEMMA TimerSettled ==
    ASSUME Settling, PipeInv, SettledInv, TimerWork \/ TimerFails
    PROVE  SettledInv' /\ StageKept
<1>1. CASE TimerFire
  <2>1. StartersRest /\ JobsRest /\ CallsRest /\ inbox = 0
    BY <1>1, TimerFinds DEF TimerRests
  <2>2. /\ vault' = vault /\ now' = now /\ UNCHANGED <<inbox, starter, job, call>>
        /\ timer' = [step |-> "publish", snap |-> vault] /\ GraceOver(vault, now)
    BY <1>1 DEF TimerFire, TimerOnly, StoreUnchanged, storeVars
  <2>3. timer'.step = "publish" /\ timer'.snap = vault
    BY <2>2
  <2>4. TimerStage(timer', inbox', vault', now')
    BY <2>1, <2>2, <2>3 DEF TimerStage
  <2>5. vault' # None /\ Matched(vault')
    BY <2>2, GraceMatched DEF GraceOver
  <2> QED
    BY <2>1, <2>2, <2>4, <2>5, TimerFrame DEF StageKept
<1>2. CASE timer.step # "idle"
  <2>1. /\ StartersRest /\ JobsRest /\ CallsRest /\ GraceOver(vault, now)
        /\ timer.snap = vault /\ vault # None /\ timer \in TimerRun /\ vault \in VaultDoc
    BY <1>2 DEF SettledInv, OneCarrier, TimerRests, TimerStage, PipeInv, PipelineTypeOK,
                IInv, TypeOK
  <2>2. CASE PublishExpirationEvent
    <3>1. /\ vault' = vault /\ now' = now /\ UNCHANGED <<starter, job, call>>
          /\ timer' = [timer EXCEPT !.step = "mark"] /\ inbox' = inbox + 1
          /\ inbox = 0
      BY <2>2 DEF PublishExpirationEvent, TimerOnly, StoreUnchanged, storeVars, SettledInv,
                  TimerStage
    <3>2. timer'.step = "mark" /\ timer'.snap = vault
      BY <2>1, <3>1 DEF TimerRun
    <3>3. TimerStage(timer', inbox', vault', now')
      BY <2>1, <3>1, <3>2 DEF TimerStage
    <3>4. vault' # None /\ Matched(vault')
      BY <2>1, <3>1, GraceMatched
    <3> QED
      BY <2>1, <3>1, <3>3, <3>4, TimerFrame DEF StageKept
  <2>3. CASE MarkEventPublished
    <3> DEFINE w == [vault EXCEPT !.published = TRUE]
    <3>1. /\ vault' = w /\ now' = now /\ UNCHANGED <<starter, job, call, inbox>>
          /\ timer' = TimerIdle /\ inbox = 1
      BY <2>1, <2>3 DEF MarkEventPublished, Overwrite, OnlyVault, SettledInv, TimerStage
    <3>2. /\ Same(w, vault) /\ w.published
          /\ GraceOver(vault, now) /\ w # None => GraceOver(w, now)
          /\ vault.status = "grace_period" => Matched(w)
      BY <2>1, MarkKeeps
    <3>3. w \in VaultDoc /\ timer'.step = "idle"
      BY <2>1, <3>1 DEF VaultDoc, TimerIdle
    <3> HIDE DEF w
    <3>4. vault' # None /\ Matched(vault') /\ GraceOver(vault', now')
      BY <2>1, <3>1, <3>2, <3>3, NoneIsNoDocument DEF GraceOver
    <3>5. TimerStage(timer', inbox', vault', now')
      BY <3>1, <3>2, <3>3, <3>4 DEF TimerStage
    <3> QED
      BY <2>1, <3>1, <3>2, <3>4, <3>5, TimerFrame DEF StageKept
  <2>4. CASE TimerFails
    <3>1. /\ vault' = vault /\ now' = now /\ UNCHANGED <<starter, job, call, inbox>>
          /\ timer' = TimerIdle /\ timer.step = "publish"
      BY <2>4 DEF TimerFails, TimerOnly, StoreUnchanged, storeVars, Settling,
                  HarmlessFaults, Fault
    <3>2. inbox' = 0 /\ timer'.step = "idle"
      BY <3>1 DEF SettledInv, TimerStage, TimerIdle
    <3>3. TimerStage(timer', inbox', vault', now')
      BY <3>2 DEF TimerStage
    <3>4. vault' # None /\ Matched(vault')
      BY <2>1, <3>1, GraceMatched
    <3> QED
      BY <2>1, <3>1, <3>3, <3>4, TimerFrame DEF StageKept
  <2> QED
    BY <1>2, <2>2, <2>3, <2>4 DEF TimerWork, TimerFire, TimerIdle
<1>3. CASE timer.step = "idle" /\ ~TimerFire
  BY <1>3 DEF TimerWork, TimerFails, PublishExpirationEvent, MarkEventPublished, Settling,
              HarmlessFaults, Fault
<1> QED
  BY <1>1, <1>2, <1>3

-----------------------------------------------------------------------------
(* The invocations.                                                         *)

\* The claim, the record of the start and the record of an error.
LEMMA ClaimKeeps ==
    ASSUME NEW v \in VaultDoc
    PROVE  /\ Claimed(v) \in VaultDoc /\ Claimed(v).packages = v.packages
           /\ Claimed(v).status = "delivery_initiated"
BY DEF Claimed, VaultDoc, Statuses

LEMMA RecordKeeps ==
    ASSUME NEW v \in VaultDoc,
           NEW w \in {[v EXCEPT !.job_started = TRUE], [v EXCEPT !.error = TRUE]}
    PROVE  /\ w \in VaultDoc /\ w.packages = v.packages /\ w.status = v.status
           /\ Matched(v) => Matched(w)
<1>1. /\ w \in VaultDoc /\ w.packages = v.packages /\ w.status = v.status
      /\ w.recipients = v.recipients /\ w.files = v.files /\ w.assigned = v.assigned
  BY DEF VaultDoc
<1> QED
  BY <1>1 DEF Matched, PackageFor

\* An invocation at work is the only one, and there is no other event.
LEMMA StarterAlone ==
    ASSUME PipeInv, SettledInv, NEW f \in Functions, starter[f].step # "idle"
    PROVE  /\ \A g \in Functions : g # f => starter[g].step = "idle"
           /\ timer.step = "idle" /\ inbox = 0 /\ CallsRest /\ vault # None /\ vault \in VaultDoc
           /\ starter[f] \in Invocation /\ StarterStage(starter[f], vault, now)
           /\ \A j \in Jobs : JobStage(job[j], vault) /\ HandsOver(starter[f], job[j])
           /\ \A i, j \in Jobs : job[i].step # "idle" /\ job[j].step # "idle" => i = j
           /\ Matched(vault)
BY DEF SettledInv, OneCarrier, StartersRest, TimerRests, PipeInv, PipelineTypeOK, IInv, TypeOK

\* What the pipeline's claim and archive are to the owner.
ClaimsVault == /\ vault # None /\ vault' # None
               /\ GraceOver(vault, now) /\ BeingDelivered(vault')
               /\ vault'.packages = vault.packages

LEMMA ReceiveSettled ==
    ASSUME Settling, PipeInv, SettledInv, NEW f \in Functions,
           ReceiveEvent(f) \/ EventMishandled(f)
    PROVE  SettledInv' /\ vault' = vault
<1>1. /\ starter[f].step = "idle" /\ inbox > 0 /\ timer.step # "mark" /\ inbox' = inbox - 1
      /\ LoadVault(f) /\ UNCHANGED <<vault, now, call, timer, job>>
  BY DEF ReceiveEvent, EventMishandled, EventArrives, StarterOnly, StoreUnchanged, storeVars,
         Settling, HarmlessFaults, Fault
<1>2. ~TimerRests /\ inbox \in {0, 1} /\ timer \in TimerRun
  BY <1>1 DEF TimerRests, SettledInv, TimerStage, PipeInv, PipelineTypeOK
<1>3. inbox = 1 /\ inbox' = 0 /\ timer.step = "idle"
  BY <1>1, <1>2 DEF TimerRun, SettledInv, TimerStage
<1>4. /\ GraceOver(vault, now) /\ vault.published /\ vault # None /\ CallsRest
      /\ StartersRest /\ JobsRest
  BY <1>2, <1>3 DEF SettledInv, TimerStage, OneCarrier
<1>5. Claimable(vault)
  BY <1>4 DEF Claimable, GraceOver
<1> DEFINE s == [StarterIdle EXCEPT !.step = "claim", !.doc = vault]
<1>6. starter' = [starter EXCEPT ![f] = s] /\ s.step = "claim" /\ s.doc = vault
  BY <1>1, <1>5 DEF LoadVault, StarterIdle
<1> HIDE DEF s
<1>7. StarterStage(s, vault', now')
  BY <1>1, <1>4, <1>6 DEF StarterStage
<1>8. \A j \in Jobs : /\ job'[j].step = "idle"
                      /\ JobStage(job'[j], vault') /\ HandsOver(s, job'[j])
  BY <1>1, <1>4 DEF JobsRest, JobStage, HandsOver
<1>9. Matched(vault') /\ vault' # None /\ \A g \in Functions : g # f => starter[g].step = "idle"
  BY <1>1, <1>4, GraceMatched DEF StartersRest
<1> QED
  BY <1>1, <1>3, <1>4, <1>6, <1>7, <1>8, <1>9, StarterFrame

LEMMA ClaimSettled ==
    ASSUME Settling, PipeInv, SettledInv, NEW f \in Functions, ClaimVault(f)
    PROVE  SettledInv' /\ ClaimsVault
<1>1. /\ starter[f].step = "claim" /\ starter[f].step # "idle"
      /\ UNCHANGED <<now, call, timer, job>>
  BY DEF ClaimVault, OnlyVault
<1>2. /\ \A g \in Functions : g # f => starter[g].step = "idle"
      /\ timer.step = "idle" /\ inbox = 0 /\ CallsRest /\ vault # None /\ vault \in VaultDoc
      /\ starter[f] \in Invocation /\ StarterStage(starter[f], vault, now)
      /\ \A j \in Jobs : HandsOver(starter[f], job[j])
  BY <1>1, StarterAlone
<1>3. starter[f].doc = vault /\ GraceOver(vault, now)
  BY <1>1, <1>2 DEF StarterStage
<1> DEFINE w == Claimed(vault)
           s == [starter[f] EXCEPT !.step = "mirror_claim", !.doc = w]
<1>4. vault' = w /\ starter' = [starter EXCEPT ![f] = s] /\ inbox' = 0
  BY <1>2, <1>3 DEF ClaimVault, Overwrite
<1>5. s.step = "mirror_claim" /\ s.doc = w
  BY <1>2 DEF Invocation
<1>6. w \in VaultDoc /\ w.packages = vault.packages /\ BeingDelivered(w)
  BY <1>2, ClaimKeeps DEF BeingDelivered
<1> HIDE DEF s, w
<1>7. vault' # None /\ Matched(vault')
  BY <1>4, <1>6, NoneIsNoDocument DEF BeingDelivered, Matched
<1>8. StarterStage(s, vault', now')
  BY <1>4, <1>5, <1>6 DEF StarterStage
<1>9. \A j \in Jobs : /\ job'[j].step = "idle"
                      /\ JobStage(job'[j], vault') /\ HandsOver(s, job'[j])
  BY <1>1, <1>2 DEF HandsOver, JobStage
<1>10. SettledInv'
  BY <1>1, <1>2, <1>4, <1>7, <1>8, <1>9, StarterFrame
<1> QED
  BY <1>2, <1>3, <1>4, <1>6, <1>7, <1>10 DEF ClaimsVault

\* The mirror of the claim and the start of the job: the new job is the only one.
LEMMA JobHandedOver ==
    ASSUME PipeInv, JobsRest, JobStarts \/ UNCHANGED job, NEW v, Terminal(v)
    PROVE  /\ \A j \in Jobs : job'[j].step \in {"idle", "load"} /\ JobStage(job'[j], v)
           /\ \A i, j \in Jobs : job'[i].step # "idle" /\ job'[j].step # "idle" => i = j
<1>1. CASE UNCHANGED job
  BY <1>1 DEF JobsRest, JobStage
<1>2. CASE JobStarts
  <2> DEFINE k == [JobIdle EXCEPT !.step = "load"]
  <2>1. PICK i \in Jobs : job' = [job EXCEPT ![i] = k]
    BY <1>2 DEF JobStarts
  <2>2. k.step = "load" /\ k.uploads = {}
    BY DEF JobIdle
  <2> HIDE DEF k
  <2>3. job'[i] = k /\ \A j \in Jobs : j # i => job'[j].step = "idle"
    BY <2>1 DEF PipeInv, PipelineTypeOK, JobsRest
  <2>4. JobStage(k, v)
    BY <2>2 DEF JobStage
  <2>5. \A j \in Jobs : job'[j].step = "idle" => JobStage(job'[j], v)
    BY DEF JobStage
  <2> QED
    BY <2>2, <2>3, <2>4, <2>5
<1> QED
  BY <1>1, <1>2

LEMMA StartSettled ==
    ASSUME Settling, PipeInv, SettledInv, NEW f \in Functions,
           MirrorClaim(f) \/ StartDeliveryJob(f) \/ StartFails(f)
    PROVE  SettledInv' /\ vault' = vault
<1>1. /\ starter[f].step \in {"mirror_claim", "post"} /\ starter[f].step # "idle"
      /\ UNCHANGED <<vault, now, call, timer, inbox>>
      /\ JobStarts \/ UNCHANGED job
  BY DEF MirrorClaim, StartDeliveryJob, StartFails, OnlyDelivery, StoreUnchanged, storeVars
<1>2. /\ \A g \in Functions : g # f => starter[g].step = "idle"
      /\ timer.step = "idle" /\ inbox = 0 /\ CallsRest /\ vault # None /\ Matched(vault)
      /\ starter[f] \in Invocation /\ StarterStage(starter[f], vault, now)
      /\ \A j \in Jobs : HandsOver(starter[f], job[j])
  BY <1>1, StarterAlone
<1>3. starter[f].doc = vault /\ BeingDelivered(vault) /\ Terminal(vault)
  BY <1>1, <1>2 DEF StarterStage, BeingDelivered, Terminal, VAULT_ACTIVATION_TERMINAL_STATUSES
<1>4. JobsRest
  BY <1>1, <1>2 DEF JobsRest, HandsOver
<1>5. PICK step \in {"post", "record", "error"} :
          /\ starter' = [starter EXCEPT ![f].step = step]
          /\ step = "post" => UNCHANGED job
  BY DEF MirrorClaim, StartDeliveryJob, StartFails, StarterTo
<1> DEFINE s == [starter[f] EXCEPT !.step = step]
<1>6. starter' = [starter EXCEPT ![f] = s]
  BY <1>5 DEF PipeInv, PipelineTypeOK
<1>7. s.step = step /\ s.doc = vault
  BY <1>2, <1>3 DEF Invocation
<1> HIDE DEF s
<1>8. StarterStage(s, vault', now')
  BY <1>1, <1>3, <1>7 DEF StarterStage
<1>9. /\ \A j \in Jobs : job'[j].step \in {"idle", "load"} /\ JobStage(job'[j], vault)
      /\ \A i, j \in Jobs : job'[i].step # "idle" /\ job'[j].step # "idle" => i = j
  BY <1>1, <1>3, <1>4, JobHandedOver
<1>10. \A j \in Jobs : HandsOver(s, job'[j])
  BY <1>4, <1>5, <1>7, <1>9 DEF HandsOver, JobsRest
<1>11. \A j \in Jobs : JobStage(job'[j], vault') /\ HandsOver(s, job'[j])
  BY <1>1, <1>9, <1>10
<1> QED
  BY <1>1, <1>2, <1>6, <1>8, <1>9, <1>11, StarterFrame

\* The record of the start, and of the error: the job still waits in its first step.
LEMMA RecordSettled ==
    ASSUME Settling, PipeInv, SettledInv, NEW f \in Functions, RecordJob(f) \/ RecordError(f)
    PROVE  SettledInv' /\ StageKept
<1>1. /\ starter[f].step \in {"record", "error"} /\ starter[f].step # "idle"
      /\ UNCHANGED <<now, call, timer, inbox, job>>
  BY DEF RecordJob, RecordError, OnlyVault
<1>2. /\ \A g \in Functions : g # f => starter[g].step = "idle"
      /\ timer.step = "idle" /\ inbox = 0 /\ CallsRest /\ vault # None /\ Matched(vault)
      /\ vault \in VaultDoc /\ starter[f] \in Invocation
      /\ StarterStage(starter[f], vault, now)
      /\ \A j \in Jobs : JobStage(job[j], vault) /\ HandsOver(starter[f], job[j])
      /\ \A i, j \in Jobs : job[i].step # "idle" /\ job[j].step # "idle" => i = j
  BY <1>1, StarterAlone
<1>3. starter[f].doc = vault /\ BeingDelivered(vault)
  BY <1>1, <1>2 DEF StarterStage
<1>4. PICK w \in {[vault EXCEPT !.job_started = TRUE], [vault EXCEPT !.error = TRUE]} :
          vault' = w
  BY <1>2, <1>3 DEF RecordJob, RecordError, Overwrite
<1>5. /\ w \in VaultDoc /\ w.packages = vault.packages /\ w.status = vault.status
      /\ Matched(w)
  BY <1>2, <1>4, RecordKeeps
<1>6. Same(w, vault) /\ Terminal(w) /\ w # None
  BY <1>3, <1>5, NoneIsNoDocument
  DEF Same, Terminal, BeingDelivered, VAULT_ACTIVATION_TERMINAL_STATUSES
<1>7. PICK s : starter' = [starter EXCEPT ![f] = s] /\ s.step = "refresh"
  <2>1. CASE RecordJob(f)
    <3> DEFINE s == [starter[f] EXCEPT !.step = "refresh"]
    <3>1. starter' = [starter EXCEPT ![f] = s] /\ s.step = "refresh"
      BY <1>2, <2>1 DEF RecordJob, StarterTo, PipeInv, PipelineTypeOK, Invocation
    <3> QED
      BY <3>1
  <2>2. CASE RecordError(f)
    <3> DEFINE s == [starter[f] EXCEPT !.step = "refresh", !.failed = TRUE]
    <3>1. starter' = [starter EXCEPT ![f] = s] /\ s.step = "refresh"
      BY <1>2, <2>2 DEF RecordError, PipeInv, PipelineTypeOK, Invocation
    <3> QED
      BY <3>1
  <2> QED
    BY <2>1, <2>2
<1>8. StarterStage(s, vault', now')
  BY <1>4, <1>6, <1>7 DEF StarterStage
<1>9. \A j \in Jobs : JobStage(job'[j], vault') /\ HandsOver(s, job'[j])
  <2> SUFFICES ASSUME NEW j \in Jobs PROVE JobStage(job[j], w) /\ HandsOver(s, job[j])
    BY <1>1, <1>4
  <2>1. job[j].step \in {"idle", "load"} /\ JobStage(job[j], vault)
    BY <1>1, <1>2 DEF HandsOver
  <2> QED
    BY <1>6, <1>7, <2>1 DEF JobStage, HandsOver
<1>10. SettledInv'
  BY <1>1, <1>2, <1>4, <1>5, <1>6, <1>7, <1>8, <1>9, StarterFrame
<1> QED
  BY <1>2, <1>4, <1>6, <1>10 DEF StageKept

\* The last read and the last mirror.
LEMMA RefreshSettled ==
    ASSUME Settling, PipeInv, SettledInv, NEW f \in Functions, Refresh(f) \/ Mirror(f)
    PROVE  SettledInv' /\ vault' = vault
<1>1. /\ starter[f].step \in {"refresh", "mirror"} /\ starter[f].step # "idle"
      /\ UNCHANGED <<vault, now, call, timer, inbox, job>>
  BY DEF Refresh, Mirror, OnlyDelivery, StarterOnly, StoreUnchanged, storeVars
<1>2. /\ \A g \in Functions : g # f => starter[g].step = "idle"
      /\ timer.step = "idle" /\ inbox = 0 /\ CallsRest /\ vault # None /\ Matched(vault)
      /\ starter[f] \in Invocation
      /\ StarterStage(starter[f], vault, now)
      /\ \A j \in Jobs : JobStage(job[j], vault)
      /\ \A i, j \in Jobs : job[i].step # "idle" /\ job[j].step # "idle" => i = j
  BY <1>1, StarterAlone
<1>3. Terminal(vault)
  BY <1>1, <1>2 DEF StarterStage
<1>4. PICK s : starter' = [starter EXCEPT ![f] = s] /\ s.step \in {"mirror", "idle"}
  <2>1. CASE Refresh(f)
    <3> DEFINE s == [starter[f] EXCEPT !.step = "mirror", !.mirror = vault.status]
    <3>1. starter' = [starter EXCEPT ![f] = s] /\ s.step = "mirror"
      BY <1>2, <2>1 DEF Refresh, PipeInv, PipelineTypeOK, Invocation
    <3> QED
      BY <3>1
  <2>2. CASE Mirror(f)
    <3> DEFINE s == StarterIdle
    <3>1. starter' = [starter EXCEPT ![f] = s] /\ s.step = "idle"
      BY <2>2 DEF Mirror, StarterEnds, StarterIdle
    <3> QED
      BY <3>1
  <2> QED
    BY <2>1, <2>2
<1>5. StarterStage(s, vault', now')
  BY <1>1, <1>3, <1>4 DEF StarterStage
<1>6. \A j \in Jobs : JobStage(job'[j], vault') /\ HandsOver(s, job'[j])
  BY <1>1, <1>2, <1>4 DEF HandsOver
<1> QED
  BY <1>1, <1>2, <1>4, <1>5, <1>6, StarterFrame

\* The steps of an invocation; the other failures do not belong to this regime.
LEMMA StarterSettled ==
    ASSUME Settling, PipeInv, SettledInv, NEW f \in Functions,
           StarterWork(f) \/ StarterFailure(f)
    PROVE  SettledInv' /\ (StageKept \/ ClaimsVault)
<1>1. ~StarterStoreFails(f) /\ ~StarterCrash(f)
  BY DEF StarterStoreFails, StarterCrash, Fault, Settling, HarmlessFaults
<1> QED
  BY <1>1, ReceiveSettled, ClaimSettled, StartSettled, RecordSettled, RefreshSettled
  DEF StarterWork, StarterFailure, StageKept

-----------------------------------------------------------------------------
(* The jobs.                                                                *)

\* A job at work is the only one, and no invocation, event or call comes before it.
LEMMA JobAlone ==
    ASSUME PipeInv, SettledInv, NEW j \in Jobs, job[j].step # "idle"
    PROVE  /\ vault # None /\ vault \in VaultDoc /\ Consistent(vault) /\ Matched(vault)
           /\ Terminal(vault)
           /\ job[j] \in Execution /\ JobInv(job[j]) /\ JobStage(job[j], vault)
           /\ \A f \in Functions : /\ StarterStage(starter[f], vault, now)
                                   /\ HandsOver(starter[f], job[j])
BY DEF SettledInv, OneCarrier, JobsRest, PipeInv, PipelineTypeOK, IInv, TypeOK, Sound,
       JobStage

\* Once past its first step a job waits for nobody, and no invocation is before its record.
LEMMA PastHandover ==
    ASSUME NEW s, NEW k, NEW l, HandsOver(s, k), k.step # "idle",
           k.step # "load" \/ l.step \in {"idle", "load"}
    PROVE  HandsOver(s, l)
BY DEF HandsOver

LEMMA JobExitsTo ==
    ASSUME NEW j \in Jobs, job \in [Jobs -> Execution], JobExits(j)
    PROVE  \E k : job' = [job EXCEPT ![j] = k] /\ k.step \in {"idle", "load"} /\ k.uploads = {}
<1>1. job' = [job EXCEPT ![j] =
                 IF job[j].attempt < MaxAttempts
                 THEN [JobIdle EXCEPT !.step = "load", !.attempt = job[j].attempt + 1]
                 ELSE JobIdle]
  BY DEF JobExits
<1> DEFINE retry == [JobIdle EXCEPT !.step = "load", !.attempt = job[j].attempt + 1]
<1>2. retry.step = "load" /\ retry.uploads = {} /\ JobIdle.step = "idle" /\ JobIdle.uploads = {}
  BY DEF JobIdle
<1>3. CASE job[j].attempt < MaxAttempts
  <2>1. job' = [job EXCEPT ![j] = retry]
    BY <1>1, <1>3
  <2> QED
    BY <1>2, <2>1
<1>4. CASE ~(job[j].attempt < MaxAttempts)
  <2>1. job' = [job EXCEPT ![j] = JobIdle]
    BY <1>1, <1>4
  <2> QED
    BY <1>2, <2>1
<1> QED
  BY <1>3, <1>4

\* Steps that only read.
LEMMA JobReads ==
    ASSUME PipeInv, SettledInv, NEW j \in Jobs, job[j].step # "idle", NEW k,
           job' = [job EXCEPT ![j] = k], JobStage(k, vault),
           \A f \in Functions : HandsOver(starter[f], k),
           UNCHANGED <<vault, now, timer, inbox, starter, call>>
    PROVE  SettledInv' /\ vault' = vault
BY JobAlone, JobFrame

\* The first read, the payloads and the uploads.
LEMMA PackSettled ==
    ASSUME Settling, PipeInv, SettledInv, NEW j \in Jobs,
           RunJob(j) \/ LoadPayloads(j) \/ UploadPackage(j)
    PROVE  SettledInv' /\ vault' = vault
<1>1. /\ job[j].step \in {"load", "payloads", "upload"} /\ job[j].step # "idle"
      /\ UNCHANGED <<vault, now, call, timer, inbox, starter>>
  BY DEF RunJob, LoadPayloads, UploadPackage, JobOnly, StoreUnchanged, storeVars
<1>2. /\ vault # None /\ vault \in VaultDoc /\ Consistent(vault) /\ Terminal(vault)
      /\ job[j] \in Execution /\ JobInv(job[j]) /\ JobStage(job[j], vault)
      /\ \A f \in Functions : HandsOver(starter[f], job[j])
  BY <1>1, JobAlone
<1>3. CASE RunJob(j) /\ Delivered(vault)
  <2>1. job' = [job EXCEPT ![j] = JobIdle] /\ JobIdle.step = "idle"
    BY <1>2, <1>3 DEF RunJob, JobEnds, JobIdle
  <2>2. JobStage(JobIdle, vault)
    BY <2>1 DEF JobStage
  <2>3. \A f \in Functions : HandsOver(starter[f], JobIdle)
    BY <2>1 DEF HandsOver
  <2> QED
    BY <1>1, <2>1, <2>2, <2>3, JobReads
<1>4. CASE RunJob(j) /\ ~Delivered(vault)
  <2> DEFINE k == [job[j] EXCEPT !.step = "payloads", !.snap = vault]
  <2>1. job' = [job EXCEPT ![j] = k] /\ k.step = "payloads" /\ k.snap = vault
        /\ k.uploads = job[j].uploads
    BY <1>2, <1>4 DEF RunJob, PipeInv, PipelineTypeOK, Execution
  <2> HIDE DEF k
  <2>2. BeingDelivered(vault)
    BY <1>2, <1>4
    DEF Delivered, Consistent, ArchiveOK, BeingDelivered, Terminal,
        VAULT_ACTIVATION_TERMINAL_STATUSES, FINAL_IMMUTABLE_VAULT_STATUSES
  <2>3. JobStage(k, vault)
    BY <1>2, <1>4, <2>1, <2>2 DEF JobStage, RunJob
  <2>4. ASSUME NEW f \in Functions PROVE HandsOver(starter[f], k)
    <3>1. starter[f].step \notin {"record", "error"}
      BY <1>4 DEF RunJob, Settling
    <3> QED
      BY <1>1, <1>2, <3>1 DEF HandsOver
  <2> QED
    BY <1>1, <2>1, <2>3, <2>4, JobReads
<1>5. CASE LoadPayloads(j)
  <2>1. PICK step \in {"upload", "reread_error"} : job' = [job EXCEPT ![j].step = step]
    BY <1>5 DEF LoadPayloads, JobTo
  <2> DEFINE k == [job[j] EXCEPT !.step = step]
  <2>2. job' = [job EXCEPT ![j] = k] /\ k.step = step /\ k.snap = job[j].snap
        /\ k.uploads = job[j].uploads
    BY <1>2, <2>1 DEF PipeInv, PipelineTypeOK, Execution
  <2> HIDE DEF k
  <2>3. JobStage(k, vault)
    BY <1>2, <1>5, <2>2 DEF JobStage, LoadPayloads
  <2>4. \A f \in Functions : HandsOver(starter[f], k)
    BY <1>1, <1>2, <1>5, PastHandover DEF LoadPayloads
  <2> QED
    BY <1>1, <2>2, <2>3, <2>4, JobReads
<1>6. CASE UploadPackage(j)
  <2>1. PICK r \in job[j].snap.recipients : Packed(j, PackageFor(job[j].snap, r))
    BY <1>6 DEF UploadPackage
  <2> DEFINE done == job[j].uploads \cup {PackageFor(job[j].snap, r)}
             step == IF {p.to : p \in done} = job[j].snap.recipients THEN "reread" ELSE "upload"
             k == [job[j] EXCEPT !.uploads = done, !.step = step]
  <2>2. job' = [job EXCEPT ![j] = k] /\ k.step = step /\ k.snap = job[j].snap
        /\ k.uploads = done
    BY <1>2, <2>1 DEF Packed, PipeInv, PipelineTypeOK, Execution
  <2>3. /\ job[j].snap = vault /\ BeingDelivered(vault)
        /\ \A p \in job[j].uploads : p = PackageFor(job[j].snap, p.to)
    BY <1>2, <1>6 DEF JobStage, UploadPackage
  <2>4. \A p \in done : p = PackageFor(job[j].snap, p.to)
    BY <2>3 DEF PackageFor
  <2>5. /\ step = "reread" \/ step = "upload"
        /\ step = "reread" => {p.to : p \in done} = job[j].snap.recipients
    OBVIOUS
  <2> HIDE DEF k, step, done
  <2>6. JobStage(k, vault)
    BY <1>2, <2>2, <2>3, <2>4, <2>5 DEF JobStage
  <2>7. \A f \in Functions : HandsOver(starter[f], k)
    BY <1>1, <1>2, <1>6, PastHandover DEF UploadPackage
  <2> QED
    BY <1>1, <2>2, <2>6, <2>7, JobReads
<1> QED
  BY <1>3, <1>4, <1>5, <1>6

\* The read of _update_vault.
LEMMA RereadSettled ==
    ASSUME Settling, PipeInv, SettledInv, NEW j \in Jobs, RereadVault(j)
    PROVE  SettledInv' /\ vault' = vault
<1>1. /\ job[j].step \in {"reread", "reread_error"}
      /\ job[j].step # "idle" /\ job[j].step # "load"
      /\ UNCHANGED <<vault, now, call, timer, inbox, starter>>
  BY DEF RereadVault, JobOnly, StoreUnchanged, storeVars
<1>2. /\ vault # None /\ vault \in VaultDoc /\ Terminal(vault)
      /\ job[j] \in Execution /\ JobStage(job[j], vault)
      /\ \A f \in Functions : HandsOver(starter[f], job[j])
  BY <1>1, JobAlone
<1> DEFINE step == IF job[j].step = "reread" THEN "archive" ELSE "save_error"
           k == [job[j] EXCEPT !.fresh = vault, !.step = step]
<1>3. /\ job' = [job EXCEPT ![j] = k] /\ k.step = step /\ k.snap = job[j].snap
      /\ k.uploads = job[j].uploads /\ k.fresh = vault
  BY <1>2 DEF RereadVault, PipeInv, PipelineTypeOK, Execution
<1>4. /\ step = "archive" \/ step = "save_error"
      /\ step = "archive" => job[j].step = "reread"
  OBVIOUS
<1> HIDE DEF k, step
<1>5. JobStage(k, vault)
  BY <1>2, <1>3, <1>4 DEF JobStage
<1>6. \A f \in Functions : HandsOver(starter[f], k)
  BY <1>1, <1>2, PastHandover
<1> QED
  BY <1>1, <1>3, <1>5, <1>6, JobReads

\* What the pipeline's archive is to the owner.
ArchivesVault == /\ vault # None /\ vault' # None
                 /\ BeingDelivered(vault) /\ vault'.status = "delivered_archived"
                 /\ vault'.packages \in (SUBSET Package) \ {{}}

\* The packages made one by one are those the archive needs.
LEMMA ArchiveMatched ==
    ASSUME NEW v \in VaultDoc, NEW U \in SUBSET Package,
           \A p \in U : p = PackageFor(v, p.to), {p.to : p \in U} = v.recipients
    PROVE  Matched(Archived(v, U))
<1> DEFINE w == Archived(v, U)
<1>1. /\ w.packages = U /\ w.recipients = v.recipients /\ w.files = v.files
      /\ w.assigned = v.assigned
  BY DEF Archived, VaultDoc
<1> HIDE DEF w
<1>2. \A r : PackageFor(w, r) = PackageFor(v, r)
  BY <1>1 DEF PackageFor
<1>3. ASSUME NEW r \in v.recipients PROVE {p \in U : p.to = r} = {PackageFor(v, r)}
  <2>1. PICK p \in U : p.to = r
    OBVIOUS
  <2>2. p = PackageFor(v, r)
    BY <2>1
  <2>3. \A q \in U : q.to = r => q = PackageFor(v, r)
    OBVIOUS
  <2> QED
    BY <2>1, <2>2, <2>3
<1>4. \A r \in w.recipients : {p \in w.packages : p.to = r} = {PackageFor(w, r)}
  BY <1>1, <1>2, <1>3
<1> QED
  BY <1>4 DEF Matched, w

LEMMA ArchiveSettled ==
    ASSUME Settling, PipeInv, SettledInv, NEW j \in Jobs, ArchiveVault(j)
    PROVE  SettledInv' /\ ArchivesVault
<1>1. /\ job[j].step = "archive" /\ job[j].step # "idle" /\ job[j].step # "load"
      /\ UNCHANGED <<now, call, timer, inbox, starter>>
  BY DEF ArchiveVault, OnlyVault
<1>2. /\ vault # None /\ vault \in VaultDoc /\ Consistent(vault)
      /\ job[j] \in Execution /\ JobInv(job[j]) /\ JobStage(job[j], vault)
      /\ \A f \in Functions : /\ HandsOver(starter[f], job[j])
                              /\ StarterStage(starter[f], vault, now)
  BY <1>1, JobAlone
<1> DEFINE U == job[j].uploads
           w == Archived(vault, U)
           k == [job[j] EXCEPT !.step = "mirror"]
<1>3. /\ job[j].snap = vault /\ job[j].fresh = vault /\ BeingDelivered(vault)
      /\ U # {} /\ U \in SUBSET Package
      /\ \A p \in U : p = PackageFor(vault, p.to)
      /\ {p.to : p \in U} = vault.recipients
  BY <1>1, <1>2 DEF JobStage, JobInv, Execution
<1>4. vault' = w /\ job' = [job EXCEPT ![j] = k]
  BY <1>2, <1>3 DEF ArchiveVault, Overwrite, JobTo, PipeInv, PipelineTypeOK
<1>5. k.step = "mirror"
  BY <1>2 DEF Execution
<1>6. /\ w \in VaultDoc /\ w.packages = U
      /\ w.status = "delivered_archived"
  <2>1. w \in VaultDoc /\ w.packages = U
    BY <1>2, <1>3, ArchivedLemma
  <2>2. w.status = "delivered_archived"
    BY <1>2 DEF Archived, VaultDoc
  <2> QED
    BY <2>1, <2>2
<1>7. Matched(w)
  BY <1>2, <1>3, ArchiveMatched
<1> HIDE DEF k, w, U
<1>8. w # None /\ Terminal(w)
  BY <1>6, NoneIsNoDocument DEF Terminal, VAULT_ACTIVATION_TERMINAL_STATUSES
<1>9. JobStage(k, w)
  BY <1>5, <1>8 DEF JobStage
<1>10. \A f \in Functions : StarterStage(starter[f], w, now) /\ HandsOver(starter[f], k)
  BY <1>1, <1>2, <1>5, <1>8 DEF HandsOver, StarterStage
<1>11. SettledInv'
  BY <1>1, <1>4, <1>7, <1>8, <1>9, <1>10, JobFrame
<1> QED
  BY <1>2, <1>3, <1>4, <1>6, <1>8, <1>11 DEF ArchivesVault

\* The record of an error.
LEMMA SaveErrorSettled ==
    ASSUME Settling, PipeInv, SettledInv, NEW j \in Jobs, SaveJobError(j)
    PROVE  SettledInv' /\ StageKept
<1>1. /\ job[j].step = "save_error" /\ job[j].step # "idle" /\ job[j].step # "load"
      /\ UNCHANGED <<now, call, timer, inbox, starter>>
  BY DEF SaveJobError, OnlyVault
<1>2. /\ vault # None /\ vault \in VaultDoc /\ Matched(vault) /\ Terminal(vault)
      /\ job[j] \in Execution /\ JobStage(job[j], vault)
      /\ \A f \in Functions : /\ HandsOver(starter[f], job[j])
                              /\ StarterStage(starter[f], vault, now)
  BY <1>1, JobAlone
<1> DEFINE w == [vault EXCEPT !.error = TRUE]
           k == [job[j] EXCEPT !.step = "mirror_error"]
<1>3. vault' = w /\ job' = [job EXCEPT ![j] = k] /\ k.step = "mirror_error"
  BY <1>1, <1>2 DEF SaveJobError, Overwrite, JobTo, JobStage, PipeInv, PipelineTypeOK, Execution
<1>4. w \in VaultDoc /\ w.packages = vault.packages /\ w.status = vault.status /\ Matched(w)
  BY <1>2, RecordKeeps
<1> HIDE DEF k, w
<1>5. w # None /\ Terminal(w) /\ Same(w, vault)
  BY <1>2, <1>4, NoneIsNoDocument DEF Terminal, Same
<1>6. JobStage(k, w)
  BY <1>3, <1>5 DEF JobStage
<1>7. \A f \in Functions : StarterStage(starter[f], w, now) /\ HandsOver(starter[f], k)
  BY <1>1, <1>2, <1>3, <1>5 DEF HandsOver, StarterStage
<1>8. SettledInv'
  BY <1>1, <1>3, <1>4, <1>5, <1>6, <1>7, JobFrame
<1> QED
  BY <1>2, <1>3, <1>5, <1>8 DEF StageKept

\* The ends a job may come to, and the errors on its way.
LEMMA JobEndSettled ==
    ASSUME Settling, PipeInv, SettledInv, NEW j \in Jobs,
           MirrorArchive(j) \/ MirrorJobError(j) \/ JobFails(j)
    PROVE  SettledInv' /\ vault' = vault
<1>1. job[j].step # "idle" /\ UNCHANGED <<vault, now, call, timer, inbox, starter>>
  BY DEF MirrorArchive, MirrorJobError, JobFails, JobOnly, OnlyDelivery, StoreUnchanged,
         storeVars
<1>2. /\ Terminal(vault) /\ job[j] \in Execution /\ job \in [Jobs -> Execution]
      /\ JobStage(job[j], vault) /\ \A f \in Functions : HandsOver(starter[f], job[j])
  BY <1>1, JobAlone DEF PipeInv, PipelineTypeOK
<1>3. CASE JobExits(j) \/ JobEnds(j)
  <2>1. PICK k : /\ job' = [job EXCEPT ![j] = k]
                 /\ k.step \in {"idle", "load"} /\ k.uploads = {}
    <3>1. CASE JobExits(j)
      BY <1>2, <3>1, JobExitsTo
    <3>2. CASE JobEnds(j)
      <4> DEFINE k == JobIdle
      <4>1. job' = [job EXCEPT ![j] = k] /\ k.step = "idle" /\ k.uploads = {}
        BY <3>2 DEF JobEnds, JobIdle
      <4> QED
        BY <4>1
    <3> QED
      BY <1>3, <3>1, <3>2
  <2>2. JobStage(k, vault)
    BY <1>2, <2>1 DEF JobStage
  <2>3. \A f \in Functions : HandsOver(starter[f], k)
    BY <1>1, <1>2, <2>1, PastHandover
  <2> QED
    BY <1>1, <2>1, <2>2, <2>3, JobReads
<1>4. CASE job[j].step # "load" /\ JobTo(j, "reread_error")
  <2> DEFINE k == [job[j] EXCEPT !.step = "reread_error"]
  <2>1. job' = [job EXCEPT ![j] = k] /\ k.step = "reread_error"
    BY <1>2, <1>4 DEF JobTo, Execution
  <2> HIDE DEF k
  <2>2. JobStage(k, vault)
    BY <1>2, <2>1 DEF JobStage
  <2>3. \A f \in Functions : HandsOver(starter[f], k)
    BY <1>1, <1>2, <1>4, PastHandover
  <2> QED
    BY <1>1, <2>1, <2>2, <2>3, JobReads
<1> QED
  BY <1>3, <1>4 DEF MirrorArchive, MirrorJobError, JobFails

LEMMA JobSettled ==
    ASSUME Settling, PipeInv, SettledInv, NEW j \in Jobs, JobWork(j) \/ JobFails(j)
    PROVE  SettledInv' /\ (StageKept \/ ArchivesVault)
BY PackSettled, RereadSettled, ArchiveSettled, SaveErrorSettled, JobEndSettled
DEF JobWork, StageKept

-----------------------------------------------------------------------------
(* The calls.                                                               *)

\* Nothing is under way between the timer's run and the mirror of the archive.
LEMMA QuietRests ==
    ASSUME PipeInv, PipelineQuiet
    PROVE  TimerRests /\ StartersRest /\ JobsRest
<1> DEFINE S == {f \in Functions : starter[f].step # "idle"}
<1>1. IsFiniteSet(S) /\ inbox \in Nat
  BY FunctionsFinite, FS_Subset DEF PipeInv, PipelineTypeOK
<1>2. Cardinality(S) \in Nat
  BY <1>1, FS_CardinalityType
<1>3. inbox + Cardinality(S) = 0
  BY DEF PipelineQuiet, InFlight
<1>4. inbox = 0 /\ Cardinality(S) = 0
  BY <1>1, <1>2, <1>3
<1>5. S = {}
  BY <1>1, <1>4, FS_EmptySet
<1> QED
  BY <1>4, <1>5 DEF PipelineQuiet, TimerIdle, TimerRests, StartersRest, JobsRest

\* A copy of the stage stays one when the vault is written at that stage or deleted.
LEMMA StageStays ==
    ASSUME NEW k, NEW v, NEW w, CallStage(k, v),
           (w = v) \/ (w = None) \/ (v # None /\ w # None /\ Same(w, v))
    PROVE  CallStage(k, w)
<1>1. CASE v # None /\ w # None /\ Same(w, v)
  <2>1. w.status = "delivered_archived" => v.status = "delivered_archived"
    BY <1>1 DEF Same, Terminal, VAULT_ACTIVATION_TERMINAL_STATUSES
  <2>2. k.snap # None => Same(k.snap, w)
    BY <1>1 DEF CallStage, Same, Terminal
  <2> QED
    BY <1>1, <2>1, <2>2 DEF CallStage
<1> QED
  BY <1>1 DEF CallStage

\* A step of one call, the pipeline at rest.
LEMMA CallFrame ==
    ASSUME PipeInv, SettledInv, TimerRests, StartersRest, JobsRest,
           NEW c \in Clients, NEW k, call' = [call EXCEPT ![c] = k],
           UNCHANGED <<timer, inbox, starter, job>>, StageKept \/ vault' = None,
           CallStage(k, vault'), vault' # None => Matched(vault')
    PROVE  SettledInv'
<1>1. TimerRests' /\ StartersRest' /\ JobsRest'
  BY DEF TimerRests, StartersRest, JobsRest
<1>2. OneCarrier'
  BY <1>1 DEF OneCarrier, TimerRests, StartersRest, JobsRest, HandsOver
<1>3. TimerStage(timer', inbox', vault', now')
  BY <1>1 DEF TimerRests, TimerStage
<1>4. \A f \in Functions : StarterStage(starter'[f], vault', now')
  BY <1>1 DEF StartersRest, StarterStage
<1>5. \A j \in Jobs : JobStage(job'[j], vault')
  BY <1>1 DEF JobsRest, JobStage
<1>6. call'[c] = k /\ \A d \in Clients : d # c => call'[d] = call[d]
  BY DEF PipeInv, IInv, TypeOK
<1>7. \A d \in Clients : CallStage(call[d], vault)
  BY DEF SettledInv
<1>8. \A d \in Clients : CallStage(call[d], vault')
  BY <1>7, StageStays DEF StageKept
<1>9. \A d \in Clients : CallStage(call'[d], vault')
  BY <1>6, <1>8
<1> QED
  BY <1>2, <1>3, <1>4, <1>5, <1>9 DEF SettledInv

\* A recipient who leaves an archived vault takes nothing from the others, and a withdrawal
\* from an archived vault takes nothing from anybody.
LEMMA ArchiveTrimmed ==
    ASSUME NEW v \in VaultDoc, Consistent(v), v.status = "delivered_archived", Matched(v),
           NEW r \in Recipients, NEW t
    PROVE  /\ Matched(RemoveActivationRequest(v, r, t))
           /\ Matched(RemoveRecipientFromVault(v, r, t))
<1>1. Terminal(v)
  BY DEF Terminal, VAULT_ACTIVATION_TERMINAL_STATUSES
<1>2. Matched(RemoveActivationRequest(v, r, t))
  <2> DEFINE w == [v EXCEPT !.requests = @ \ {r}]
  <2>1. /\ w.status = v.status /\ w.recipients = v.recipients /\ w.files = v.files
        /\ w.assigned = v.assigned /\ w.packages = v.packages
    BY DEF VaultDoc
  <2>2. RemoveActivationRequest(v, r, t) = w
    BY <1>1, <2>1 DEF RemoveActivationRequest, RecomputeActivationState, Terminal
  <2> HIDE DEF w
  <2>3. Matched(w)
    BY <2>1 DEF Matched, PackageFor
  <2> QED
    BY <2>2, <2>3
<1>3. Matched(RemoveRecipientFromVault(v, r, t))
  <2> DEFINE R == v.recipients \ {r}
             A == v.can_activate \ {r}
             m == [v EXCEPT !.recipients = R, !.can_activate = A]
             w == Settle(m)
  <2>1. R \in SUBSET Recipients /\ A \in SUBSET R
    BY DEF VaultDoc, Consistent, ConsentOK
  <2>2. RemoveRecipientFromVault(v, r, t) = UpdateVault(m, t)
    BY DEF RemoveRecipientFromVault, VaultDoc
  <2> HIDE DEF R, A
  <2>3. Mergeable(m)
    BY <2>1, RecipientListLemma
  <2>4. /\ m.status = v.status /\ m.recipients = R /\ m.files = v.files
        /\ m.assigned = v.assigned /\ m.packages = v.packages
    BY DEF VaultDoc
  <2> HIDE DEF m
  <2>5. /\ w.status = m.status /\ w.recipients = m.recipients
        /\ w.assigned = {x \in m.assigned : x[2] \in m.recipients}
        /\ w.files = m.files /\ w.packages = m.packages
    BY <2>3, SettleRequests, SettleLemma DEF Carries
  <2>6. UpdateVault(m, t) = w
    BY <1>1, <2>4, <2>5 DEF UpdateVault, RecomputeActivationState, Terminal
  <2> HIDE DEF w
  <2>7. /\ w.status = v.status /\ w.recipients = R /\ w.packages = v.packages
        /\ w.files = v.files /\ w.assigned = {x \in v.assigned : x[2] \in R}
    BY <2>4, <2>5
  <2>8. ASSUME NEW q \in w.recipients
        PROVE  {p \in w.packages : p.to = q} = {PackageFor(w, q)}
    <3>1. q \in v.recipients /\ q \in R
      BY <2>7 DEF R
    <3>2. \A f : <<f, q>> \in w.assigned <=> <<f, q>> \in v.assigned
      BY <2>7, <3>1
    <3>3. PackageFor(w, q) = PackageFor(v, q)
      BY <2>7, <3>2 DEF PackageFor
    <3>4. {p \in v.packages : p.to = q} = {PackageFor(v, q)}
      BY <3>1 DEF Matched
    <3> QED
      BY <2>7, <3>3, <3>4
  <2>9. Matched(w)
    BY <2>8 DEF Matched
  <2> QED
    BY <2>2, <2>6, <2>9
<1> QED
  BY <1>2, <1>3

\* A write of a call keeps the stage, and an archive its packages.
LEMMA WritingKeeps ==
    ASSUME PipeInv, SettledInv, NEW c \in Clients, Writing(c), vault # None
    PROVE  vault' # None /\ StageKept /\ Matched(vault')
<1> DEFINE snap == call[c].snap
<1>1. IInv /\ ApiStep(c) /\ vault \in VaultDoc /\ Matched(vault) /\ CallStage(call[c], vault)
  BY DEF PipeInv, IInv, TypeOK, SettledInv, Writing, ApiStep, RecipientSteps, ActivationSteps,
         FileSteps
<1>2. CASE vault' = vault
  BY <1>1, <1>2 DEF StageKept
<1>3. CASE vault' # vault
  <2>1. Written(c, vault') /\ call[c].step = "save"
    BY <1>1, <1>3, WritingWrites DEF NothingWritten
  <2>2. vault' # None
    BY <2>1, NoneIsNoDocument DEF Written
  <2>3. Follows(vault', snap)
    BY <1>1, <1>3, <2>2, ApiWrites
  <2>4. snap \in VaultDoc /\ Consistent(snap) /\ snap # None
    BY <1>1, <2>1, SnapLemma, NoneIsNoDocument
  <2>5. Same(snap, vault) /\ Matched(snap)
    BY <1>1, <2>4 DEF CallStage
  <2>6. Terminal(snap) => vault'.status = snap.status
    BY <2>1 DEF Written, Holds, HoldsDelivery, Terminal
  <2>7. Same(vault', vault)
    BY <2>3, <2>5, <2>6 DEF Follows, Same, Terminal
  <2>8. ASSUME vault'.status = "delivered_archived" PROVE Matched(vault')
    <3>1. vault.status = "delivered_archived" /\ snap.status = "delivered_archived"
      BY <2>5, <2>7, <2>8 DEF Same, Terminal, VAULT_ACTIVATION_TERMINAL_STATUSES
    <3>2. call[c].op # "idle"
      BY <2>1 DEF SettledInv, CallStage, Idle
    <3>3. call[c].op \in LateOperations
      BY <1>1, <3>1, <3>2 DEF CallStage
    <3>4. SaveWithdraw(c) \/ SaveDeleteRecipient(c) \/ SaveRequestActivation(c)
      <4>1. \A op : Saving(c, op) => op \in LateOperations
        BY <3>3 DEF Saving
      <4>2. /\ SaveUpdateVault(c) => Saving(c, "update_vault")
            /\ SaveAddRecipient(c) => Saving(c, "add_recipient")
            /\ SaveUpdatePermission(c) => Saving(c, "update_permission")
            /\ SaveCheckIn(c) => Saving(c, "check_in")
            /\ SaveDeleteFile(c) => Saving(c, "delete_file")
            /\ SaveUploadFile(c) => Saving(c, "upload_file")
            /\ SaveAssignFile(c) => Saving(c, "assign_file")
        BY Zenon DEF SaveUpdateVault, SaveAddRecipient, SaveUpdatePermission, SaveCheckIn,
           SaveDeleteFile, SaveUploadFile, SaveAssignFile
      <4>3. \A op \in {"update_vault", "add_recipient", "update_permission", "check_in",
                      "delete_file", "upload_file", "assign_file"} : ~Saving(c, op)
        BY <4>1 DEF LateOperations
      <4> QED
        BY <4>2, <4>3 DEF Writing
    <3>5. ~SaveRequestActivation(c)
      BY <1>3, <3>1 DEF SaveRequestActivation, MayRequestActivation, Return,
           VAULT_ACTIVATION_TERMINAL_STATUSES
    <3>6. PICK r \in Recipients : \/ vault' = RemoveActivationRequest(snap, r, now)
                                  \/ vault' = RemoveRecipientFromVault(snap, r, now)
      <4>1. CASE SaveWithdraw(c)
        <5>1. call[c].seen \in VaultDoc
          BY <1>1, <4>1, SnapLemma DEF SaveWithdraw, Saving, SeeingOperations
        <5> QED
          BY <1>3, <4>1, <5>1 DEF SaveWithdraw, Replace, Return, VaultDoc
      <4>2. CASE SaveDeleteRecipient(c)
        BY <4>2 DEF SaveDeleteRecipient, Replace
      <4> QED
        BY <3>4, <3>5, <4>1, <4>2
    <3> QED
      BY <2>4, <2>5, <3>1, <3>6, ArchiveTrimmed
  <2>9. Matched(vault')
    BY <2>8 DEF Matched
  <2> QED
    BY <2>2, <2>7, <2>9 DEF StageKept
<1> QED
  BY <1>2, <1>3

\* What the other steps of a call leave it with.
LEMMA OtherCalls ==
    ASSUME PipeInv, SettledInv, NEW c \in Clients, ApiStep(c), ~Writing(c)
    PROVE  /\ (vault' = vault) \/ (vault' = None)
           /\ \E k : call' = [call EXCEPT ![c] = k] /\ CallStage(k, vault')
<1>1. call[c] \in Call /\ CallStage(call[c], vault) /\ call \in [Clients -> Call]
  BY DEF PipeInv, IInv, TypeOK, SettledInv
<1>2. (vault' = vault) \/ (vault' = None)
  BY OtherSteps
<1>3. vault # None => Matched(vault)
  BY DEF SettledInv
<1>4. CASE call' = [call EXCEPT ![c] = Idle]
  BY <1>2, <1>4, IdleStage
<1>5. CASE \/ StartUpdateVault(c) \/ StartAddRecipient(c) \/ StartUpdatePermission(c)
           \/ StartDeleteRecipient(c) \/ StartRequestActivation(c) \/ StartWithdraw(c)
           \/ StartCheckIn(c) \/ StartUploadFile(c) \/ StartAssignFile(c)
           \/ StartDeleteFile(c) \/ StartDeleteVault(c) \/ StartDeleteAccount(c)
           \/ StartLeave(c)
  <2>1. PICK op, step, seen, file :
            Begin(c, op, step, seen, file) /\ (Mutable(vault) \/ op \in LateOperations)
    BY <1>5 DEF StartUpdateVault, StartAddRecipient, StartUpdatePermission,
         StartDeleteRecipient, StartRequestActivation, StartWithdraw, StartCheckIn,
         StartUploadFile, StartAssignFile, StartDeleteFile, StartDeleteVault,
         StartDeleteAccount, StartLeave, LateOperations
  <2>2. vault' = vault
    BY <1>5 DEF StartUpdateVault, StartAddRecipient, StartUpdatePermission,
         StartDeleteRecipient, StartRequestActivation, StartWithdraw, StartCheckIn,
         StartUploadFile, StartAssignFile, StartDeleteFile, StartDeleteVault,
         StartDeleteAccount, StartLeave
  <2> DEFINE k == [op |-> op, step |-> step, seen |-> seen, snap |-> None, file |-> file]
  <2>3. call' = [call EXCEPT ![c] = k] /\ op \in Operations
    BY <2>1 DEF Begin
  <2>4. k.op = op /\ k.snap = None
    OBVIOUS
  <2>5. op # "idle"
    BY <2>3, OperationsKnown DEF OwnerOperations, RecipientOperations
  <2> HIDE DEF k
  <2>6. CallStage(k, vault')
    BY <2>1, <2>2, <2>4, <2>5 DEF CallStage, Mutable, FINAL_IMMUTABLE_VAULT_STATUSES
  <2> QED
    BY <1>2, <2>3, <2>6
<1>6. CASE StoreBytes(c) \/ DropBytes(c) \/ DeleteVaultAssets(c)
  <2> DEFINE k == [call[c] EXCEPT !.step = "load"]
  <2>1. call' = [call EXCEPT ![c] = k] /\ vault' = vault /\ call[c].step = "assets"
    BY <1>1, <1>6 DEF StoreBytes, DropBytes, DeleteVaultAssets
  <2>2. k.op = call[c].op /\ k.snap = call[c].snap /\ call[c].op # "idle"
    BY <1>1, <2>1 DEF Call, CallStage, Idle
  <2> HIDE DEF k
  <2>3. CallStage(k, vault')
    BY <1>1, <2>1, <2>2 DEF CallStage
  <2> QED
    BY <1>2, <2>1, <2>3
<1>7. CASE Load(c) /\ vault # None
  <2> DEFINE k == [call[c] EXCEPT !.step = "save", !.snap = vault]
  <2>1. call' = [call EXCEPT ![c] = k] /\ vault' = vault /\ call[c].step = "load"
    BY <1>7 DEF Load
  <2>2. k.op = call[c].op /\ k.snap = vault /\ call[c].op # "idle"
    BY <1>1, <2>1 DEF Call, CallStage, Idle
  <2> HIDE DEF k
  <2>3. CallStage(k, vault')
    BY <1>1, <1>3, <2>1, <2>2 DEF CallStage, Same
  <2> QED
    BY <1>2, <2>1, <2>3
<1>8. CASE DeleteDocument(c) /\ vault # None
  <2> DEFINE k == [call[c] EXCEPT !.step = "purge", !.snap = None]
  <2>1. call' = [call EXCEPT ![c] = k] /\ vault' = None
    BY <1>8 DEF DeleteDocument
  <2>2. k.op = call[c].op /\ call[c].op # "idle"
    BY <1>1, <1>8 DEF DeleteDocument, DeletesVault, Call
  <2> HIDE DEF k
  <2>3. CallStage(k, vault')
    BY <2>1, <2>2 DEF CallStage
  <2> QED
    BY <1>2, <2>1, <2>3
<1>9. CASE (Load(c) \/ DeleteDocument(c)) /\ vault = None
  BY <1>4, <1>9 DEF Load, DeleteDocument
<1>10. CASE PurgeDelivery(c) \/ BrokenOff(c)
  BY <1>4, <1>10 DEF PurgeDelivery, BrokenOff, Crash, StoreFails, BlobsFail,
       Finish
<1> QED
  BY <1>5, <1>6, <1>7, <1>8, <1>9, <1>10
     DEF ApiStep, BrokenOff, RecipientSteps, ActivationSteps, FileSteps, Writing

LEMMA ApiSettled ==
    ASSUME Settling, PipeInv, SettledInv, NEW c \in Clients, ApiCall(c)
    PROVE  SettledInv' /\ (StageKept \/ vault' = None)
<1>1. /\ ApiStep(c) /\ UNCHANGED <<timer, inbox, starter, job>>
      /\ TimerRests /\ StartersRest /\ JobsRest
  BY QuietRests DEF ApiCall, Settling, pipeVars
<1>2. CASE vault = None
  <2>1. vault' = None
    BY <1>1, <1>2, DeletedLemma
  <2>2. \E k : call' = [call EXCEPT ![c] = k] /\ CallStage(k, vault')
    <3>1. CASE Writing(c)
      <4>1. call' = [call EXCEPT ![c] = Idle] /\ CallStage(Idle, vault')
        BY <3>1, WritingEnds, IdleStage
      <4> QED
        BY <4>1
    <3>2. CASE ~Writing(c)
      BY <1>1, <3>2, OtherCalls
    <3> QED
      BY <3>1, <3>2
  <2> QED
    BY <1>1, <2>1, <2>2, CallFrame
<1>3. CASE vault # None /\ Writing(c)
  <2>1. vault' # None /\ StageKept /\ Matched(vault')
    BY <1>3, WritingKeeps
  <2>2. call' = [call EXCEPT ![c] = Idle] /\ CallStage(Idle, vault')
    BY <1>3, WritingWrites, IdleStage DEF PipeInv
  <2> QED
    BY <1>1, <2>1, <2>2, CallFrame
<1>4. CASE vault # None /\ ~Writing(c)
  <2>1. PICK k : call' = [call EXCEPT ![c] = k] /\ CallStage(k, vault')
    BY <1>1, <1>4, OtherCalls
  <2>2. (vault' = vault) \/ (vault' = None)
    BY <1>1, <1>4, OtherCalls
  <2>3. (StageKept \/ vault' = None) /\ (vault' # None => Matched(vault'))
    BY <1>4, <2>2 DEF StageKept, SettledInv
  <2> QED
    BY <1>1, <2>1, <2>3, CallFrame
<1> QED
  BY <1>2, <1>3, <1>4

\* Time only makes a grace period more over.
LEMMA QuietStepSettled ==
    ASSUME PipeInv, SettledInv, ClockTick \/ UNCHANGED pipelineVars
    PROVE  SettledInv' /\ vault' = vault
<1>1. UNCHANGED <<vault, call, timer, inbox, starter, job>>
  BY DEF ClockTick, Tick, pipeVars, pipelineVars, storeVars
<1>2. now \in Nat /\ (now' = now \/ now' = now + 1) /\ vault \in VaultDoc \cup {None}
  BY DEF ClockTick, Tick, pipelineVars, storeVars, PipeInv, IInv, TypeOK
<1>3. GraceOver(vault, now) => GraceOver(vault, now')
  <2> SUFFICES ASSUME GraceOver(vault, now) PROVE vault.expires <= now'
    BY DEF GraceOver
  <2>1. vault.expires \in Nat /\ vault.expires <= now
    BY <1>2 DEF GraceOver, VaultDoc
  <2> QED
    BY <1>2, <2>1
<1>4. OneCarrier'
  BY <1>1 DEF SettledInv, OneCarrier, TimerRests, StartersRest, JobsRest, CallsRest, HandsOver
<1>5. TimerStage(timer', inbox', vault', now')
  BY <1>1, <1>3 DEF SettledInv, TimerStage
<1>6. \A f \in Functions : StarterStage(starter'[f], vault', now')
  BY <1>1, <1>3 DEF SettledInv, StarterStage
<1>7. /\ \A j \in Jobs : JobStage(job'[j], vault')
      /\ \A c \in Clients : CallStage(call'[c], vault')
      /\ vault' # None => Matched(vault')
  BY <1>1 DEF SettledInv
<1> QED
  BY <1>1, <1>4, <1>5, <1>6, <1>7 DEF SettledInv

-----------------------------------------------------------------------------
(* The invariant, and what happens to the vault.                            *)

LEMMA SettledInit == PipelineInit => SettledInv
<1> SUFFICES ASSUME PipelineInit PROVE SettledInv
  OBVIOUS
<1>1. TimerRests /\ StartersRest /\ JobsRest /\ CallsRest
  BY DEF PipelineInit, Init, TimerIdle, StarterIdle, JobIdle, TimerRests, StartersRest,
         JobsRest, CallsRest
<1>2. OneCarrier
  BY <1>1 DEF OneCarrier, TimerRests, StartersRest, JobsRest, HandsOver
<1>3. /\ TimerStage(timer, inbox, vault, now)
      /\ \A f \in Functions : StarterStage(starter[f], vault, now)
      /\ \A j \in Jobs : JobStage(job[j], vault)
      /\ \A c \in Clients : CallStage(call[c], vault)
  BY <1>1, IdleStage DEF TimerRests, StartersRest, JobsRest, CallsRest, TimerStage,
     StarterStage, JobStage
<1>4. vault.status = "active"
  BY DEF PipelineInit, Init, NewVault
<1>5. Matched(vault)
  BY <1>4 DEF Matched
<1> QED
  BY <1>2, <1>3, <1>5 DEF SettledInv

\* A step of the pipeline keeps the vault's stage, deletes the vault, claims it or archives it.
LEMMA SettledStep ==
    ASSUME Settling, PipeInv, SettledInv, [PipelineNext]_pipelineVars
    PROVE  /\ SettledInv'
           /\ StageKept \/ vault' = None \/ ClaimsVault \/ ArchivesVault
<1>1. CASE ClockTick \/ UNCHANGED pipelineVars
  BY <1>1, QuietStepSettled DEF StageKept
<1>2. CASE TimerWork \/ TimerFails
  BY <1>2, TimerSettled
<1>3. CASE \E c \in Clients : ApiCall(c)
  BY <1>3, ApiSettled
<1>4. CASE \E f \in Functions : StarterWork(f) \/ StarterFailure(f)
  BY <1>4, StarterSettled
<1>5. CASE \E j \in Jobs : JobWork(j) \/ JobFails(j)
  BY <1>5, JobSettled
<1> QED
  BY <1>1, <1>2, <1>3, <1>4, <1>5 DEF PipelineNext

LEMMA SettledAlways == ASSUME Settling PROVE PipelineSpec => []SettledInv
<1>1. PipeInv /\ SettledInv /\ [PipelineNext]_pipelineVars => SettledInv'
  BY SettledStep
<1> QED
  BY <1>1, SettledInit, PipeInvariant, PTL DEF PipelineSpec

\* Each recipient of an archived vault has one package, with exactly the files assigned to
\* that recipient, whatever calls, retries and failures came before.
THEOREM PackagesAreThoseAssigned ==
    ASSUME Settling PROVE PipelineSpec => []PackagesMatchVault
<1>1. SettledInv => PackagesMatchVault
  BY DEF SettledInv, Matched, PackagesMatchVault, PackageFor
<1> QED
  BY <1>1, SettledAlways, PTL

\* A vault is claimed only when the deadline its owner sees has passed.
THEOREM ClaimKeepsDeadline ==
    ASSUME Settling PROVE PipelineSpec => ClaimWaitsForDeadline
<1>1. PipeInv /\ SettledInv /\ [PipelineNext]_pipelineVars
        => [vault # None /\ vault' # None /\ vault.status = "grace_period"
              /\ vault'.status = "delivery_initiated"
            => vault.expires <= now]_pipelineVars
  <2> SUFFICES ASSUME PipeInv, SettledInv, [PipelineNext]_pipelineVars,
                      vault # None, vault' # None, vault.status = "grace_period",
                      vault'.status = "delivery_initiated"
               PROVE  vault.expires <= now
    OBVIOUS
  <2>1. StageKept \/ ClaimsVault \/ ArchivesVault
    BY SettledStep
  <2>2. ~StageKept /\ ~ArchivesVault
    BY DEF StageKept, Same, Terminal, VAULT_ACTIVATION_TERMINAL_STATUSES, ArchivesVault
  <2> QED
    BY <2>1, <2>2 DEF ClaimsVault, GraceOver
<1> QED
  BY <1>1, PipeInvariant, SettledAlways, PTL DEF PipelineSpec, ClaimWaitsForDeadline

LEMMA StageOfDocument ==
    ASSUME NEW v \in VaultDoc, v # None
    PROVE  /\ v.status \in {"active", "pending_activation"} <=> StageOf(v) = "open"
           /\ v.status = "grace_period" <=> StageOf(v) = "grace"
           /\ v.status = "delivery_initiated" <=> StageOf(v) = "claimed"
           /\ v.status = "delivered_archived" <=> StageOf(v) = "delivered"
           /\ StageOf(v) \in {"open", "grace", "claimed", "delivered"}
<1>1. v.status \in Statuses
  BY DEF VaultDoc
<1> QED
  BY <1>1 DEF StageOf, Statuses

\* The pipeline implements DeliveryLifecycle: a vault waits for its grace period before it is
\* claimed, is claimed before it is delivered, and once delivered never changes.
THEOREM PipelineImplementsLifecycle ==
    ASSUME Settling PROVE PipelineSpec => ImplementsLifecycle
<1>1. PipelineInit => Public!LifecycleInit
  <2> SUFFICES ASSUME PipelineInit PROVE Public!LifecycleInit
    OBVIOUS
  <2>1. PICK l \in RecipientList, t \in Thresholds, h \in Hours :
            /\ ValidThreshold(t, l.can_activate)
            /\ vault = NewVault(l.recipients, l.can_activate, t, h)
    BY DEF PipelineInit, Init
  <2>2. vault \in VaultDoc
    BY <2>1, NewVaultLemma, BoundsOK DEF RecipientList, Thresholds
  <2>3. vault # None /\ vault.status = "active" /\ vault.packages = {}
    BY <2>1, <2>2, NoneIsNoDocument DEF NewVault
  <2>4. StageOf(vault) = "open"
    BY <2>2, <2>3, StageOfDocument
  <2> QED
    BY <2>3, <2>4 DEF Public!LifecycleInit
<1>2. PipeInv /\ PipeInv' /\ SettledInv /\ [PipelineNext]_pipelineVars
        => [Public!LifecycleNext]_(Public!lifecycleVars)
  <2> SUFFICES ASSUME PipeInv, PipeInv', SettledInv, [PipelineNext]_pipelineVars
               PROVE  [Public!LifecycleNext]_(Public!lifecycleVars)
    OBVIOUS
  <2>1. StageKept \/ vault' = None \/ ClaimsVault \/ ArchivesVault
    BY SettledStep
  <2>2. vault \in VaultDoc \cup {None} /\ vault' \in VaultDoc \cup {None}
    BY DEF PipeInv, IInv, TypeOK
  <2> USE DEF Public!LifecycleNext, Public!lifecycleVars
  <2>3. CASE vault' = vault
    BY <2>3
  <2>4. CASE vault # None /\ vault' # None /\ Same(vault', vault)
    BY <2>2, <2>4, StageOfDocument DEF Public!StartGrace, Public!EndGrace, Same, Terminal,
       VAULT_ACTIVATION_TERMINAL_STATUSES
  <2>5. CASE vault' = None
    <3>1. CASE vault = None
      BY <2>5, <3>1
    <3>2. CASE vault # None
      <4>1. StageOf(vault) # "deleted" /\ StageOf(vault') = "deleted"
        BY <2>2, <2>5, <3>2, StageOfDocument DEF StageOf
      <4> QED
        BY <2>5, <4>1 DEF Public!Delete
    <3> QED
      BY <3>1, <3>2
  <2>6. CASE ClaimsVault
    BY <2>2, <2>6, StageOfDocument DEF ClaimsVault, GraceOver, BeingDelivered, Public!Claim
  <2>7. CASE ArchivesVault
    BY <2>2, <2>7, StageOfDocument DEF ArchivesVault, BeingDelivered, Public!Deliver
  <2> QED
    BY <2>1, <2>3, <2>4, <2>5, <2>6, <2>7 DEF StageKept
<1> QED
  BY <1>1, <1>2, PipeInvariant, SettledAlways, PTL
  DEF PipelineSpec, ImplementsLifecycle, Public!Lifecycle

=============================================================================
