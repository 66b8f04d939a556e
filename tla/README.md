# Last Writes: a TLA+ model of the vault and its delivery

Last Writes keeps a person's files in a *vault*. Recipients who believe the
owner can no longer check in ask for its activation; when enough of them have
asked, a grace period runs; if the owner does not check in before it ends, the
vault is packed and delivered. The application is a FastAPI backend, two Azure
Functions, a container job and a Next.js frontend over Cosmos DB, Blob Storage,
Event Grid and Key Vault.

What makes it hard is that five kinds of process share one JSON document per
vault, and every one of them writes it the same way: read the document, change
the copy, replace the whole document, without any condition on its version. The
last writer wins, from a copy that may be old. This project says what still
holds under that regime, proves the safety part of it for any number of callers,
functions, jobs and local processes, and shows where the promises of the code's own
comments and pages fail. Accounts are written the same way and are modelled
next to the vault; the store of local development, four JSON files rewritten
whole without a lock, is a third model.

## 1. Inventory

| Component | Where | State it keeps | Operations | Modelled |
|---|---|---|---|---|
| Vault document, activation rules | `backend/services/cosmos_service.py`, `backend/models/vault.py` | one document per vault | create, update, recipients, requests, check-in, file removal, delete; each ends by normalising file assignments, clamping the threshold, pruning requests and recomputing the status | yes: `VaultDocument` |
| Vault endpoints | `backend/main.py` | none between calls; during a call, the copies it has read | 15 endpoints that change a vault, plus reads and downloads | state-changing ones: `VaultStore` |
| Blob containers | `backend/services/blob_service.py` | bytes of files and packages | store, delete, fetch | which bytes exist: `VaultStore`, `DeliveryPipeline` |
| Grace-period timer | `functions/check_grace_periods` | none | nightly: query, deadline test, publish, mark | yes: `DeliveryPipeline` |
| Event Grid topic | `infra/deploy.ps1` | events in flight | deliver at least once | external, yes |
| Job starter | `functions/start_delivery_job` | none | load, test, claim, mirror, start, record, refresh, mirror | yes: `DeliveryPipeline` |
| Delivery worker | `worker_container/app.py` | none | load, test, fetch, pack and upload, archive, mirror; record errors; be retried | `run()`: `DeliveryPipeline` |
| Deliveries container | `cosmos_service.py:46-85, 860-884` | a twin of each claimed vault | upsert, delete | its status: `delivery` |
| Accounts | `backend/main.py:1298-1986, 2032-2145`, `auth_service.py`, `cosmos_service.py:366-543` | user documents, tokens, sessions | register, verify, log in, ask for a reset, reset, change password, edit profile and keys, delete | yes: `Accounts` |
| Login limiter | `backend/main.py:908-930` | a deque per host and e-mail, in the one backend process | admit or refuse a sign-in | yes: `LoginLimiter` |
| Vault keys | `vault_key_service.py`, `keyvault_service.py` | a key per vault | create, wrap, unwrap | no: section 5 |
| Local store | `local_cosmos_service.py`, `worker_container/app.py:239-373` | four JSON files | the store operations over whole files; legacy documents moved before each | yes: `LocalStore` |
| Local blobs | `local_blob_service.py` | a directory | store, delete, fetch | no: section 5 |
| Start-up migrations | `main.py:1154`, `cosmos_service.py:886-977`, `local_cosmos_service.py:792-845` | none | rewrite old documents | the local ones: `LocalStore` |
| `process_events` | `functions/process_events` | none | claim a vault | no: legacy, not subscribed to the topic |
| Cryptography, e-mail, audit log, monitoring, frontend, workflows | | none that anything decides by | | no: libraries, output, pages |

How they interact:

    owner, recipients --HTTP--> backend --read/replace--> vault document <--read/replace-- worker job
                                   |                        ^   ^                              ^
                                   +--put/delete--> blobs   |   |                              | starts
                                                     query, |   | claim,                       |
                                                      mark  |   | record                       |
                                                          timer --event--> topic --event--> starter

Nothing else is shared: no locks, no queue but the topic, no memory. Each
arrow to the document is two remote calls (a read, a replace), and nothing ties
them together.

Which behaviours are hard: overlapping read-replace pairs; bytes and document
changing in two stores; a process dying between two remote calls; an event that
is late, doubled or about a grace period that has ended; exceptions that are
swallowed; a job retried halfway. `PROJECT.json` lists them line by line under
`hazards`, with the properties that watch each one.

What makes each component correct:

- *document*: its fields always agree (who may ask, who has asked, threshold,
  status, clock, assignments);
- *endpoints*: no consent is lost or invented, a running deadline does not move,
  no file loses its bytes unasked, a deleted vault stays deleted;
- *timer and starter*: nothing is claimed before its grace period is over;
- *worker*: an archived vault names exactly the right packages, all of them
  uploaded;
- *pipeline*: what is due is delivered in the end, and what is delivered is
  final;
- *accounts*: only a mailbox's own link verifies an account, a used link is
  worth nothing, one account per e-mail and name, no vault without an owner,
  and no field changes but by an acknowledged call;
- *limiter*: no window lets through more sign-ins than the limit;
- *local store*: the files hold what completed operations wrote, above all
  after a death in the middle of a migration.

## 2. Modules

| Module | What it is |
|---|---|
| `VaultDocument` | the document as a record, and every store operation as a function from document to document; the parts of consistency (`ConsentOK`, `ThresholdOK`, `StatusOK`, `ClockOK`, `FilesOK`, `ArchiveOK`) |
| `VaultStore` | the API: calls of several clients over one stored document and its blobs |
| `DeliveryPipeline` | extends `VaultStore` with timer, topic, starter and worker |
| `DeliveryLifecycle` | the abstract specification: five stages and a set of packages |
| `LoginLimiter` | the sliding window of sign-ins |
| `Accounts` | extends `LoginLimiter` with the account endpoints over the users container, and with the vaults an account owns |
| `LocalStore` | extends `VaultDocument`: the JSON files, backend threads, the worker |
| `MCVaultStore`, `MCDeliveryPipeline`, `MCAccounts`, `MCLocalStore` | TLC instances: symmetry and the sets the `.cfg` files choose from |
| `VaultDocumentProofs` | what the operations keep of a document: its parts, its requests, its deadline |
| `VaultStoreProofs`, `SerialStoreProofs` | the API: calls that overlap; calls one after the other |
| `DeliveryPipelineProofs`, `SettledDeliveryProofs` | the pipeline: in every schedule; in its usual one, with the refinement of `DeliveryLifecycle` |
| `AccountsProofs`, `AccountLinksProofs` | the accounts and the limiter; the reset links |
| `LocalStoreProofs` | the local store |

`VaultStore` and `DeliveryPipeline` model one vault: no operation reads two
(account deletion and the timer loop over vaults, one at a time). `Accounts` and
`LocalStore` have several.

### The document

Recipients, files and requests are sets: the code keeps duplicate-free lists and
never depends on their order. `can_activate` is the set of recipients with the
flag. Of the timestamps only `grace_period_expires_at` is compared with the
clock, so `expires` is a number; for `grace_period_event_published_at`,
`delivery_job_started_at` and `delivery_error` it matters only whether they are
set. Names, messages, key metadata and wrapped keys are left out: nothing
modelled reads them. Time is counted in hours, the unit the grace period has.

`Settle` is the tail every recipient-related write ends with, `Rated` the status
the counted requests call for, `RecomputeActivationState` both, unless the
status is past the activation rules. `update_vault` settles before it
recomputes, which settles again; the model keeps both.

### The API (`VaultStore`)

A call is `Start...`, which is the handler's own read and its checks
(`get_owned_vault_or_404`, `ensure_vault_is_mutable`), `Load`, the read of the
store operation (`get_vault_by_id`), and `Save...`, the replace. `call[c].seen`
is the handler's copy where it uses it later, `call[c].snap` the store
operation's. Uploads put bytes between the first two steps (`StoreBytes`), file
and vault deletions drop them there (`DropBytes`, `DeleteVaultAssets`).

Facts of the code that are easy to miss and are in the model: a replace fails on a
missing document, so it never recreates one; an upload whose second read finds
no vault answers 404 *without* its rollback, and leaves the bytes; the rollback
runs when the read or the replace raises, because the document is gone or the store
fails; uploads and assignments write the file list of the
*handler's* copy; `PATCH` validates a threshold against the handler's copy and
merges it over the store's; withdrawing, and both ways of deleting an account,
work whatever the vault's status; asking for activation checks nothing before
the store operation; deleting a missing blob is not an error; a vault in
`delivery_initiated` may still be edited and deleted.

`StoreErrors` adds requests that raise and change nothing. `StoreFails` is one to the
document store, at the second read, the replace or the deletion of the twin: the call
ends in a 500, an upload with the rollback of its bytes. `BlobsFail` is one to the
blob store, before an upload has stored anything or a file's deletion has dropped
anything; a vault's deletion drops its files one by one and may have dropped some.

The caller's payload is chosen in the step that first uses it. `consent` and
`discarded` are history variables: recipients with a recorded request that was
neither cleared, withdrawn nor revoked since; files whose bytes somebody asked
to delete.

### The pipeline (`DeliveryPipeline`)

- Timer: `TimerFire` (query and deadline test), `PublishExpirationEvent`,
  `MarkEventPublished` (on the queried copy).
- Topic: `inbox`, the number of events not yet handed out. An event carries only
  the vault's id, so events are interchangeable.
- Starter: one action per remote call, in order; `doc` is `vault_document`, then
  `claimed_vault`. Both outcomes of the start are recorded on `claimed_vault`.
- Worker: `snap` is the first read, from which packages are built; `fresh` the
  second read of `_update_vault`, over which the archive is written.
- `Schedules` selects overlaps: `owner_overlap` (API calls while a delivery is
  in progress), `slow_timer` (the event arrives before the mark),
  `slow_starter` (the job runs before its start is recorded). A timer run, an
  invocation or a job is over long before the next nightly run, so the empty set
  is the usual course of events, and the full set everything the code allows.
- `Faults` selects failures; `MaxFaults` bounds how many happen. A redelivered
  event, a failed publication, a failed store call, a refused start, a start
  whose answer is lost, an exception in the worker, and the death of each
  process at any step.
- `elapsed` and `released` are history: a stored grace period has reached its
  deadline; packages whose bytes were ever uploaded.

`StageOf` is the refinement mapping: open, grace, claimed, delivered, deleted.

### Accounts (`Accounts`, `LoginLimiter`)

A call is `Start...`, the handler's query and checks; `LoadUser`, the read of
`update_user`; `Save...`, its replace. Registration is the username query, the
e-mail query of `create_user` and the create; login is the limiter, under its
lock but with the clock read before (`call.value.at`), and then the check of the
password; deletion lists the vaults once, deletes them one by one and the
account last. A token is a number and an expiry: its secret is a hash nobody
guesses. An e-mail never changes, so a mailbox is proven once.

`intended` is what the acknowledged writes alone would have stored: each `Save`
lays its fields over the intended document as well as over the copy it read.
`overlapped` holds the accounts written while another call held a copy it was
about to write back, `contested` what two calls found free together, `orphaned`
the vaults made during a deletion of their owner. The properties are stated
relative to these: the code has lost updates, and what is worth knowing is that
nothing *else* goes wrong (`AcknowledgedWritesAreStored`, `SharedOnlyByRaces`,
`OrphansOnlyByRaces`, `RetiredLinksAreCleared`). `ProvenBeforeUse`,
`LoginsPerWindow` and `DeletedAccountsStayDeleted` hold without any exception.

`mix` is chosen at the start: the endpoints a behaviour uses. It keeps the state
space the sum of the situations instead of their product.

### The local store (`LocalStore`)

A write is two steps, `Truncate` (`open(path, "w")`) and `Fill`: a reader in
between finds an empty list, and a process that dies in between leaves one. An
operation reads, computes and holds the whole text it will write
(`call.text`, `call.vtext`); its vault operations are those of `VaultDocument`,
because the local code repeats them. Every backend operation first runs
`initialize`, which moves accounts, deliveries and audit entries that an older
version kept in `vaults.json` (`ReadLegacy`, `MergeLegacy`, then two writes);
`call.after` is the operation it interrupts. At start-up one thread runs it and
`backfill_document_shapes` before the backend serves. That is three passes over
`vaults.json`, `deliveries.json` and `audit_logs.json` (`ShapeFile`), each of which
rewrites its file whole when a document in it lacks its type, and then a loop over
the vaults (`ListVaults`, `BackfillNext`). The model has no type fields: a pass may
rewrite its file whenever the behaviour has documents of an older version, and
writes what it has read. A stored null in `delivery_error` makes the code take a
vault for a delivered one, and the model does not tell it from an absent
field: `ListVaults` takes every vault of a delivery, and any others.

The worker reads the files without `initialize`. It reads the vault it packs
(`ReadLocalVault`), reads `vaults.json` again for the vault it archives or marks
with an error (`UpdateLocalVault`), then writes delivery and audit entry.
`update_vault` has the two forms its callers give it: recipients, threshold and hours,
or files and assignments.

Of accounts, deliveries and audit entries the model keeps the number of the write
they are from, so that an older version is told from a newer one.

`intended` is what the completed operations alone leave in each table.
`disturbed` holds the files for which that cannot be expected: one written while
another process held a copy of it, one a process died in while writing, and one
`delete_user` deletes from while the worker has `vaults.json` emptied. The last
is easy to miss: if the backend died earlier between the two writes of a
migration, the account is in `users.json` and in `vaults.json`, and `initialize`
is what removes the older one; it finds an empty file, the deletion takes the
newer one away, and the worker then writes the older one back. The other
operations survive that, because what they store or find absent wins over what is left
in `vaults.json`. `stranded` holds the vaults whose deletion died between its
two files, met the worker, or read an emptied `deliveries.json`.

## 3. What is checked

Deadlock is not checked in any run: the system really stops (the vault is
deleted, the bounded clock, writes or failures are used up and nobody calls).

| Run | Instance | Shows |
|---|---|---|
| `store_serial` | 1 client, every endpoint, 3 recipients, 2 files, thresholds to 3, grace periods of 1 and 2 hours, 2 hours, failing stores | calls in sequence: recorded requests are exactly the consents given (`RequestsAreConsents`), a running deadline never moves (`DeadlineIsFixed`), between calls the stored bytes are those of the listed files, but for a deletion broken off (`FilesMatchBlobs`) |
| `store_races` | 2 clients, activation, file and deletion endpoints, 1 recipient, 2 files, failing stores, crashes | `DocumentConsistent`, `MissingBytesWereDiscarded`, `DeletedStaysDeleted`, `TypeOK` |
| `store_lost_checkin` | 2 clients, requests and check-ins | **violated**: `ClearedRequestsStayCleared` |
| `delivery_races` | 2 invocations, 2 jobs side by side, 2 events in flight, requests and deletions, every overlap, 1 failure of any kind | `DeliveryNeedsExpiredGrace`, `PackagesAreUploaded`, `DocumentConsistent`, `DeletedStaysDeleted`, `PipelineTypeOK` |
| `delivery_settled` | every endpoint, 2 recipients, 1 file, no overlap, 1 recoverable failure (publication, lost reply of a start, worker exception, worker crash), fairness | `ImplementsLifecycle`, `ClaimWaitsForDeadline`, `PackagesMatchVault`, `DeliveryHappens` |
| `delivery_slow_start` | no failure, the job overtakes the starter | **violated**: `ArchivedIsFinal` |
| `delivery_function_crash` | the starter dies once | **violated**: `ArchivedIsFinal` |
| `delivery_start_error` | the start is refused once, fairness | **violated**: `DeliveryHappens` |
| `delivery_stale_event` | an event in flight across a check-in | **violated**: `ClaimWaitsForDeadline` |
| `accounts_races` | 2 clients, 2 identities, 1 e-mail, 2 names, 2 passwords, 7 mixes of endpoints, restarts | `ProvenBeforeUse`, `AcknowledgedWritesAreStored`, `RetiredLinksAreCleared`, `SharedOnlyByRaces`, `OrphansOnlyByRaces`, `LoginsPerWindow`, `DeletedAccountsStayDeleted`, `AccountsTypeOK` |
| `accounts_lost_update` | 2 clients, profile edits and password resets | **violated**: `AcknowledgedPasswordIsStored` |
| `local_store` | 2 backend threads and the worker, 2 vaults, the start-up, 8 mixes of operations, up to 2 legacy documents, 3 writes and 2 deaths | `CompletedWritesAreOnDisk`, `TwinsFollowVaults`, `LocalDocumentsConsistent`, `LocalTypeOK` |

### The violated ones

Each checks one sentence the repository states, quoted in `PROJECT.json`.

1. *A check-in clears the requests.* A request that read the vault before the
   check-in and writes after it restores the cleared ones with its own.
2. *An archived vault can no longer be modified*, without failures: the starter
   records the start on the copy it claimed, over the worker's archive.
3. The same sentence, with one crash: the starter tests for `delivered` while
   the worker writes `delivered_archived`, so a redelivered event claims an
   archived vault again.
4. *The vault will be delivered* if the owner does not check in: one refused start
   is swallowed and the vault stays in `delivery_initiated`.
5. *Check in before it expires to cancel delivery*: an event that outlives the
   grace period it announced claims the vault in the next one, early.
6. *Password reset successfully. You can now sign in.* A profile edit that read
   the account before the reset and writes after it stores the old password, and
   the used link, again.

### Bounds

Two calls suffice for a lost update, a stale copy or a late write: a third
writer only replaces the document once more, and the theorems show the safety
properties of every passing run for any number (section 4). Three recipients and
thresholds to three (in `store_serial`) give both sides of every comparison and leave room to ask,
withdraw and lower the threshold independently; two recipients are enough in
`delivery_settled`, one where only the order of writes matters. Two files let one
be forgotten while the other is written. In the pipeline runs the clock reaches
one or two hours, enough for one grace period to end and, in
`delivery_settled`, a second to begin. One failure per behaviour is the rule the
retries are made for; with more, `DeliveryHappens` fails as it should
(`MaxAttempts` is 2 because `--replica-retry-limit` is 1).
`delivery_races` runs the jobs of its two invocations side by side, so that a
duplicated event has two jobs pack and archive the same vault. `MaxEvents` caps
events in flight, in the guards of the actions that would add one.

The largest instances have 6 million distinct states (`delivery_races`), 3 million
(`store_races`, `local_store`), 1 million (`store_serial`) and 100 thousand
(`delivery_settled`, with liveness).

In `accounts_races` one e-mail makes every registration compete for it, two
names let one account rename itself away from the other; links live one unit of
a clock that reaches two, so each can be used in time, at its limit and too
late; three sign-ins against a limit of two and a window of one unit fill the
window, empty it and fill it again. `MaxFresh` bounds tokens and vaults made,
`MaxLogins` the sign-ins of a key, in the guards of the actions that make them.
In `local_store` three writes are a writer, one that reads before and writes
after it, and a third that reads the result; a migration needs two deaths to be
cut in its first write and again in its second.

Symmetry is used only in runs without liveness properties.

### Fairness

`FairPipelineSpec` assumes strong fairness of `TimerFire`: the function runs
every night for ever, and each night finds the vault due unless a call happens
to be in progress; calls are short. It assumes weak fairness of each step a
started timer run, invocation, job or call has to take: a process that neither
crashes nor waits goes on, and Event Grid hands out what it holds. Nothing
forces a failure, a new call or the clock.

## 4. What is proved

Every safety property of a passing run is the conclusion of a theorem. The
theorems hold for every finite set of recipients, any sets of clients, files,
functions, jobs, identities and local documents, any subset of the endpoints, any
bounds and lifetimes, with or without crashes; those of `SerialStoreProofs` and
`SettledDeliveryProofs` have a hypothesis, given with them below.

| Module | Theorem | Statement |
|---|---|---|
| `VaultStoreProofs` | `TypeCorrect` | `Spec => []TypeOK` |
| | `DocumentStaysConsistent` | `Spec => []DocumentConsistent` |
| | `DeletedForever` | `Spec => DeletedStaysDeleted` |
| | `NoBytesLost` | `Spec => []MissingBytesWereDiscarded` |
| `SerialStoreProofs` | `RequestsAreKept` | `Serial` gives `Spec => []RequestsAreConsents` |
| | `DeadlineStaysFixed` | `Serial` gives `Spec => DeadlineIsFixed` |
| | `FilesAndBlobsAgree` | `Serial` and `~Crashes` give `Spec => []FilesMatchBlobs` |
| `DeliveryPipelineProofs` | `PipelineTypeCorrect` | `PipelineSpec => []PipelineTypeOK` |
| | `PipelineStaysConsistent` | `PipelineSpec => []DocumentConsistent` |
| | `PipelineNeverRecreates` | `PipelineSpec => DeletedStaysDeleted` |
| | `NoEarlyDelivery` | `PipelineSpec => []DeliveryNeedsExpiredGrace` |
| | `NamedPackagesExist` | `PipelineSpec => []PackagesAreUploaded` |
| `SettledDeliveryProofs` | `PackagesAreThoseAssigned` | `Settling` gives `PipelineSpec => []PackagesMatchVault` |
| | `ClaimKeepsDeadline` | `Settling` gives `PipelineSpec => ClaimWaitsForDeadline` |
| | `PipelineImplementsLifecycle` | `Settling` gives `PipelineSpec => ImplementsLifecycle` |
| `AccountsProofs` | `AccountsTypeCorrect` | `AccountSpec => []AccountsTypeOK` |
| | `DeletedAccountsGone` | `AccountSpec => DeletedAccountsStayDeleted` |
| | `LoginsAreLimited` | `AccountSpec => []LoginsPerWindow` |
| | `SerialWritesAreStored` | `AccountSpec => []AcknowledgedWritesAreStored` |
| | `VerifiedAreProven` | `AccountSpec => []ProvenBeforeUse` |
| | `DeletionLeavesNoVaults` | `AccountSpec => []OrphansOnlyByRaces` |
| | `IdentitiesAreDistinct` | `AccountSpec => []SharedOnlyByRaces` |
| `AccountLinksProofs` | `RetiredLinksStayCleared` | `AccountSpec => []RetiredLinksAreCleared` |
| `LocalStoreProofs` | `LocalTypeCorrect` | `LocalSpec => []LocalTypeOK` |
| | `LocalVaultsStayConsistent` | `LocalSpec => []LocalDocumentsConsistent` |
| | `LocalWritesAreKept` | `LocalSpec => []CompletedWritesAreOnDisk` |
| | `LocalTwinsFollowVaults` | `LocalSpec => []TwinsFollowVaults` |

The assumptions are the named ones of the modules: recipients and functions are
finitely many (so that they can be counted), `None` is none of the values it
stands beside (`NoneIsNoTime`, `NoneIsNoDocument`, `NoneIsNoText` and their like),
the bounds are what their names say, the endpoints are known ones, the worker is
not a thread of the backend. TLC evaluates each of them in the run of its module.

The hypotheses name a course of events, not a restriction on the code:

- `Serial`: there is one client, so calls follow each other. The three properties
  say what a call *sequence* does; with two clients `store_lost_checkin` shows how
  the first of them fails. `FilesAndBlobsAgree` excludes crashes as well: an upload
  that dies after storing its bytes leaves bytes nobody lists. It does not exclude
  failing stores: with `StoreErrors` it says that every failed upload has taken its
  bytes back, and that only a deletion broken off leaves a listed file without bytes;
  without, that files and bytes are equal.
- `Settling`: `Schedules = {}`, the usual order of the parties, and `Faults` within
  `publish_error`, `start_error`, `lost_reply`, `job_error`, `job_crash`. These are
  the failures after which no event is published or handed out twice; `delivery_settled` runs with
  all but `start_error`, which is never retried (`delivery_start_error`), and `delivery_function_crash` shows that the refinement is lost
  with an event that is handed out again. API calls still overlap each other, by
  any number of clients, and API processes may crash.

*The API.* `DocumentConsistent` alone is not inductive: the next document is
computed from a copy some call has read, perhaps long ago, not from the stored
one. `IInv` therefore says that *every* copy a call holds is consistent (`CallInv`).
Then three things suffice: reading the stored document gives a consistent copy;
every operation of `VaultDocument` turns a consistent copy, with the caller's
fields over it, into a consistent document; nothing else writes. The second is
`VaultDocumentProofs`: a document with a caller's fields over it is `Mergeable`
(typed, but perhaps with an unreachable threshold, requests of nobody and
assignments to nobody); each normalisation repairs one part and keeps the ones
repaired before, so a settled document is `Settled`; the recomputed status then
restores the agreement of status, requests and clock. The order of the
normalisations matters, and the lemmas show where: assignments before the
threshold, the threshold before the requests, the requests before the status.

`NoBytesLost` needs a second invariant, `BytesInv`: call a file *kept* if its
bytes are stored or an owner asked to delete them; then every file named by the
stored document, by any copy, or by a call about to write, is kept. A rollback
is the only step that removes bytes otherwise. After a failed replace of a deleted
document nobody is left to name them, because nothing recreates a document. After a
failing request the document is there, and the theorem rests on `FreshInv`: the file
an upload is about to list is new, so neither the document nor a copy of another
call names it.

*The pipeline.* `PipeInv` adds the copies of the timer, the invocations and the
jobs to `IInv`: each is consistent, and stays so under the fields its holder lays
over it (a mark, a claim, a start or an error, an archive). `UntouchedInv` is the
invariant behind `NoEarlyDelivery`: while no stored grace period has reached its
deadline, the timer is idle, the topic empty, no invocation or job has begun, and
neither the document nor any copy a call holds is past claiming; the step that
ends this is the one `elapsed` records. `PackagesInv` says that every package named
by the stored document, by any copy or in `delivery_packages` of a running
attempt was uploaded; the set of uploads only grows.

*Accounts.* Each property has its own invariant over the calls in progress, on top
of `Shaped` (types, and what a call of each kind holds at each step). `Faithful`:
unless the writes of its account have overlapped, the copy a call will write back
*is* the account. `Vouched`: an account being verified, or of which a call holds a
verified copy, is proven. `Accounted`: a deletion under way has every vault of
the account on its list, except those made since. `Distinct`: what a call has
found free is still free, or contested since, or brought back by a stale copy.
`LimiterSound`: each time popped from a deque is followed, among the next
`MaxAttempts` times accepted, by one more than a window later; times out of order
in the deque make a plain "everything popped is old" too weak.

*Reset links* (`AccountLinksProofs`). `Linked`: a link is pending in one call that
has made it and not stored it, or known to one account: in its stored document,
in what it is meant to be, or in copies a call holds. Links are numbered, a pending
one is known to nobody and not retired, no two accounts know the same. So only
the account that knows a link can retire it, and when it does it forgets it,
unless a stale copy of that account is written later.

*Calls in sequence* (`SerialStoreProofs`). `CopiesCurrent`: before its write, a
call's copies are the stored document. What an operation does to a copy is then
what it does to the vault, and `VaultDocumentProofs` says what that is: which
requests each operation adds, keeps or clears, and that no recomputation sets a
new deadline while the grace period lasts. `BlobsInv` says which file a call has
already stored or dropped that the document does not reflect yet: what a failing
call then takes back, or has recorded in `discarded`.

*The usual order of a delivery* (`SettledDeliveryProofs`). `SettledInv` says that a
delivery has one carrier (`OneCarrier`): the timer, the event in flight, one
invocation, one job, or an invocation that has still to record the start of a job
that waits; and that whoever carries it holds the stored document itself, at the
stage the carrier's step implies (`TimerStage`, `StarterStage`, `JobStage`). Nothing
in the code enforces this: it follows from the statuses each party tests and from
nobody else writing meanwhile, which is what the runs with a schedule or a fault
violate. Of calls it is enough that their copies are of the current stage
(`CallStage`). Then packages are built for, and written over, the same document;
a claim sees the deadline the owner sees; and the step of each party maps to a step
of `DeliveryLifecycle` or leaves `StageOf` and the packages alone, which is
`PipelineImplementsLifecycle`. The abstract steps come from these: `StartGrace`, `EndGrace` and
`Delete` from the write of an API call, `Claim` from the starter's claim, `Deliver`
from the worker's archive; every other step stutters.

*The local store* (`LocalStoreProofs`). `LocalInv` adds to the types that every
vault a process holds agrees with itself and that a call holds the texts of the
file it is writing and of no other. `CompletedWritesAreOnDisk` needs more, because
while a file is being written, what is on disk is nothing. A table is its own file with
the documents still in `vaults.json` behind it, so `TablesInv` speaks of a table under a
*view* of those documents: what `vaults.json` shows while nobody writes it, or
what a process has read of it and will write back. Under every view the table is
as intended, and so is every text of it some process is about to write (`Good`).
A migration writes the table first and empties the view second; both orders of
that with any other write, and a death at any point, keep every view good. The copies
of `vaults.json` themselves are `VaultsInv`. `DeleteInv` is about the one operation
that writes two files: from its first step on no delivery is left in `vaults.json`
that could come back behind its second. A pass of the start-up writes back what it
read, a text that is `Good` then; a write that overlaps it makes the file one of
`disturbed`, like any other. `TwinsInv` adds who may be writing a
delivery: the start-up, alone and before any request; the worker, for a vault
that exists or whose deletion met it.

Three corrections of the model came out of these proofs: the case of `delete_user`
described in section 2, and two guards that were too loose, of what a call goes on
with after a write of `initialize`, and of when the worker is done with a vault.
The case of `delete_user` needs a mix of endpoints no run has, to keep `local_store`
short; it was found because the invariant was not inductive.

*Only model-checked*: `DeliveryHappens`, which is liveness under fairness and out of
the prover's reach; and the counterexamples of the violated runs, which are TLC's.

## 5. What is left out

- A replace that succeeds although its answer is lost. The upload's rollback
  would then delete the bytes of a recorded file; the properties about bytes
  hold for stores whose failures are honest. Likewise a rollback whose own request
  fails, which leaves the bytes: the code logs it and gives up.
- Vault keys. `ensure_vault_key_metadata` gives a vault older than keys its key
  before a first upload; keys are made in Key Vault and read back by name, and
  their material is a payload nothing decides by. Every model vault has its key.
- The Cosmos start-up migrations, which copy documents of versions before the
  split containers and run before the backend serves, and, for both stores,
  `ensure_vault_short_ids` and `ensure_vault_access_shapes`, which write only documents
  no present operation produces.
- The local blob directory: files are written once under names never reused, and
  no two processes write the same one.
- `process_events`: nothing is subscribed to it.
- The worker's audit entry and mails after the archive; each catches its own
  failure. Audit entries in Cosmos, which nothing reads back to decide anything.
- Cryptography, e-mail, monitoring: libraries and output. The frontend, which
  only calls the API.
- Package names: `_upload_delivery_zip` names a blob by recipient and second, and
  overwrites; two attempts within a second would share a name. In the model a
  package is its recipient and files.
- Bytes of packages deleted with an account: `released` says they were uploaded,
  not that they are still there.
- Several vaults in one timer run: one vault's failure does not disturb another.

## 6. Plan

Done: document, API, pipeline, life cycle, accounts, limiter, local store; a
theorem for each of their safety properties.

What would be worth adding next:

1. the safety part of why `DeliveryHappens`: that every claimed vault that is not
   archived has a carrier or a recorded error, as an invariant and a theorem;
2. `FilesMatchBlobs` weakened to one inclusion for calls that overlap (a listed file
   may miss its bytes, bytes may be unlisted: which of the two after which overlap);
3. the migration of Cosmos documents against a second instance that already
   serves, should the backend ever be scaled out.

## 7. Running it

    tlc -config store_serial.cfg MCVaultStore.tla
    tlc -config delivery_settled.cfg MCDeliveryPipeline.tla
    tlc -config accounts_races.cfg MCAccounts.tla
    tlc -config local_store.cfg MCLocalStore.tla
    tlapm VaultStoreProofs.tla
    tlapm LocalStoreProofs.tla

Every passing run ends within four minutes on two workers. The proof modules take a
few minutes each.
