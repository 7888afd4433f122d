# A TLA+ model of Hercules

Hercules (`expert-doodle`) is a monorepo of services written mostly in
JavaScript. This directory models the services that keep state others rely on
and change it in more than one step, checks them with TLC and proves the most
important results with TLAPS.

1. [Inventory](#1-inventory)
2. [Modules](#2-modules)
3. [Runs](#3-runs)
4. [Proofs](#4-proofs)
5. [Not modelled](#5-not-modelled)
6. [Plan](#6-plan)

## 1. Inventory

`PROJECT.json` names the files of every component and says what of it is modelled.

| Component | State | Operations | Interacts with | Module |
|---|---|---|---|---|
| Forge durable-state mirror (`hercules-forge/durable-state.mjs`) | managed files, promise queue | flush, hydrate, status | bridge (HTTP), control API (every mutating reply) | `ForgeDurable` |
| Private bridge, durable-state actions (`supabase/functions/hercules-private-bridge/forge-state.ts`) | object table, chunk table | status, manifest, put, commit, get, delete | database (one await per statement) | `ForgeBridge` |
| Forge life cycle (`production.mjs`, `production-cli.mjs`) | listening server, stopping flag | start, shutdown | mirror | `ForgeDurable` (partly) |
| Forge projects: revisions, releases (`workspace.mjs`, `artifact.mjs`, `releases.mjs`) | revision directories, `latest-revision.json`, records, `active.json` | save, build, publish, roll back | control API | `ForgeReleases` |
| Forge projects: previews, runtime data (`preview.mjs`, `runtime-data.mjs`, the store `compiler.mjs` generates) | a session in memory, one file per entity, snapshots | start, stop, add a record, snapshot, restore | control API, preview process | `ForgeRuntime` (partly) |
| Deploy job store and worker (`hercules-deploy/store.mjs`, `worker.mjs`) | `request.json`, `state.json` per job, per-job lock | create, transition, list, process, rollback, retry, tick | admission gate, adapters, HTTP API | `DeployPlane` |
| Release admission, flight recorder (`hercules-deploy/admission.mjs`) | `events.jsonl`, `head.json`, append queue | admit, verify, append | worker | `FlightRecorder` |
| Bank ledger and sandbox (`hercules-bank/ledger.mjs`, `service.mjs`, `store.mjs`) | accounts, journal, idempotency keys | open, fund, transfer, reverse, restore | runtime | `BankLedger` |
| Bank runtime (`hercules-bank/runtime.mjs`) | state file, ledger in memory, promise chain | open, commit, reads | ledger, file system | `BankRuntime` |
| Chat AI admission (`hercules-chat/redis`) | Redis keys with time to live: two buckets, budgets, reservations, leases | reserve, settle, cleanup | chat gateways | `RedisAdmission` |
| Video launch (`hercules-video/launch-bootstrap.mjs` and what it runs) | run-state file, clips, film, evidence; session and runtime in memory | run, resume, render, judge, assemble | renderer processes | `VideoLaunch` (partly) |
| Cleaner (`hercules-cleaner/agent.mjs`, `engine.mjs`, `state.mjs`, `scheduler.mjs`) | files, Recovery Capsules, lock file | clean, restore, purge | file system, the user's programs | `CleanerVault` (partly) |
| Payments (`hercules-stripe-webhook`, `hercules-provider-connect`) | receipts, subscriptions, entitlements, verification runs | webhook events, prepare, reconcile | Stripe, database | `SoftwarePayments` (partly) |
| Forge control API, identity, audit | sessions, audit chain | HTTP handlers | mirror, projects | partly, in the Forge modules |
| Authority: domain agent and leases | approvals | propose, approve, execute | edge function | no |
| Deploy adapters and providers | none | deploy, verify, rollback | Render, Supabase, HTTPS | as outcomes of `DeployPlane` |
| Guardian watchtower, containment | ledger in memory | observe, contain | deploy plane | no: small and synchronous |
| Base backend, chat gateway and schema, 115 SQL migrations | database | RPC | PostgREST | no: the state is SQL |
| Models, training, `hercules-ai` (Python) | weights | inference, evaluation | chat | no: numeric |
| HURC token, signer; hardware; Studio, marketing, apps, docs, workflows | mostly none | | | no: contracts, pages, assets |

What is hard in the modelled parts: handlers that interleave at every `await`;
calls that run on after their caller gave up; processes that share files without
a lock, or with one that a dead process left; statements and file writes of which
one fails; deaths between two writes of one operation; reports that come twice or
late; keys that expire at different times; retries of what was already done;
checks that are stale when they are used. `PROJECT.json` lists each hazard at its
line with the properties that look at it, or why none does.

What makes each part correct:

* **Forge durable state** - what a response acknowledged comes back after any
  restart; the manifest names only objects that can be read; a shutdown that
  reports success leaves nothing behind that was there when the server closed;
  every waiting response is answered.
* **Forge projects** - the active release has a record and a revision; a snapshot
  that verifies is the image of one moment; a record that was answered is still
  in the data or next to it, and the quota holds.
* **Deploy plane** - one runner per job; a target changes only for an attempt that
  was admitted, once; a broken chain stops admissions; every job settles.
* **Bank** - an operation happens at once or not at all, at most once per key;
  nothing shown or answered is lost; the bank can always be opened again.
* **Admission** - a tenant gets no more than an ideal bucket would give it, which
  may be forgotten when it is not used for a time to live; an
  inference that runs has its slot and its money held to the end.
* **Video** - what a launch saved can be trusted by the next; nothing is done
  twice; the film with evidence is made of clips that passed; a launch that is
  resumed gets on.
* **Cleaner** - no operation loses a file; a sealed capsule is complete; nothing
  that appeared at a path meanwhile is overwritten.
* **Payments** - a certified path was canceled and refunded at Stripe; an event
  that was answered was recorded; access follows the subscription.

## 2. Modules

| Module | What it is |
|---|---|
| `RestartSafe` | abstract: versions of files, acknowledgements, restarts |
| `ForgeBridge` | the bridge alone: one action per database statement |
| `ForgeDurable` | EXTENDS `ForgeBridge`: requests, mirror, start, shutdown |
| `ForgeReleases` | revisions, pointers and releases of a project, file by file |
| `ForgeRuntime` | EXTENDS `ForgeReleases`: previews, their data, snapshots |
| `FlightRecorder` | the two files of the recorder and the passes of its clients |
| `DeployPlane` | EXTENDS `FlightRecorder`: store, worker, HTTP operations |
| `AtomicBank` | abstract: accounts and transactions that happen at once |
| `BankLedger` | operators: post, reversal, replay, over ledger values |
| `BankRuntime` | EXTENDS `BankLedger`: the commit chain and the state file |
| `TokenBucket` | abstract: a bucket that fills at a steady rate, and may be forgotten |
| `RedisAdmission` | the three scripts, their keys with time, the gateways |
| `CleanerVault` | lock, files and capsules, one move at a time |
| `VideoLaunch` | a launch and its resumes, with the renderers that outlive them |
| `SoftwarePayments` | webhook and provider requests, statement by statement |
| `ForgeDurable_proofs`, `ForgeRuntime_proofs`, `DeployPlane_proofs`, `BankRuntime_proofs`, `VideoLaunch_proofs`, `SoftwarePayments_proofs`, `CleanerVault_proofs`, `RedisAdmission_proofs` | theorems |
| `MCForge`, `MCProject`, `MCDeploy`, `MCBank`, `MCAdmission`, `MCCleaner`, `MCVideo`, `MCPayments` | instances and symmetry sets for TLC |

### State and actions against the code

**ForgeBridge.** `objects` and `chunks` are the two tables, `calls` the handler
invocations and the statement each has reached. `Handle(s)` is one statement of
`handleForgeStateRequest`; commit is select, upsert, sweep, and delete is two
statements that settle in either order. A content stands for its SHA-256, its
chunks for their indices. Any statement may fail with or without effect.

**ForgeDurable.** `hist[p]` is every content file p has had since the start, so
its last element is the file; `acked[p]` the position in it of the last
acknowledged write; `req` the HTTP requests; `queue` and `flush` the mirror's
serialised flushes; `live` the bridge call it awaits. The stages of a flush are
those of `flush()`: list and read the files while the manifest is fetched,
upload chunk by chunk, commit, delete, fetch the manifest again, compare. A
request writes its files one at a time, may throw at any point (the error
response is sent without a flush) and otherwise waits for its flush. A timeout
releases the mirror and leaves the handler running in the bridge. An answer with
status 200 whose body is lost is `{}`: for a manifest that is an empty bridge
(`ManifestRead`, and `misread` once it was believed), for a status or a chunk an
error (`BodyLost`). A request is one of the control server, with a connection
(`conn`) that its client may close while the handler runs on, or the mutation of a
preview, whose server is its own: `server.close()` waits for connections only, and
the previews are stopped after it without an await, so that both go on writing
during and after the last flush until the process ends (`Exit`). `closed[p]` is
where the file was when the server had closed.

**ForgeReleases.** A file that is written in place goes through "torn"; of two
writers the one that ends last leaves its content, or its beginning with the end
of a longer one (`Garbled`). `revision[r]` is a directory, done once its
`revision.json` is written; `latest` and `active` are the pointer files,
`record[r]` the release record of a revision. `task[k]` is what a request that
saves, publishes or rolls back has reached; builds of one revision share a
directory and may disturb each other.

**ForgeRuntime.** `data` is the directory a preview writes, with one file per
entity and the temporary files of atomic writes; `kept` are directories a restore
moved away and did not remove. `preview[c]` is a preview with the mutation at the
head of its queue: it reads its file, checks the quota over all of them, writes a
temporary file and renames it. `request[k]` starts and stops previews and makes and
restores snapshots; the handlers stop the preview first and hold no lock. A
crash of the control process ends the previews with it.

**FlightRecorder, DeployPlane.** `events` and `head` are the two files; `head`
is the number of the event it names, which is what its hash commits to. `pass`
is a client's way through `admit()`. `status[id]` is what is on disk for a job:
no directory, one without `state.json`, an empty `state.json`, or a state.
`runner[r]` is the step an activity (the tick, or an HTTP request) has reached.
A transition is one step since the store holds the job's lock over its read,
check and rename. Provider calls succeed, fail, or fail after their effect.
`deployed` and `crashes` are history.

**BankLedger, BankRuntime.** A ledger value is a set of accounts and a journal;
the operators return the set of ledgers an operation may lead to, empty when it
throws. `disk` is the state file, `bank` the ledger readers see, `tail` the
promise chain, `candidate` the copy of the running operation, `acked` history.

**RedisAdmission.** Each script is one action, as Redis runs it: `Admit` and
`Deny` are `token-admission.lua`, `Settle` is `token-settlement.lua`, `Cleanup` is
`reservation-cleanup.lua`. A key with a time to live is `Gone` or carries the ticks
left to it; a lease the ticks to its score; `Tick` ages all of them and removes
what expired, while the lease index is purged only by the scripts that do so. A
gateway may not get an answer, ask again, settle twice, or never settle.
`tokens` and `calls` are ideal buckets, history that the refinement of
`TokenBucket` is stated on; `late` says that a gateway outlived its lease. A bucket's
key expires a time to live after its last use (`PEXPIRE`,
`token-admission.lua:57`), and one that is gone is full. Where filling takes longer
than that (`Ttl * Rate < Capacity * Unit`, which nothing rules out) the bucket is full
before its time: `TokenBucket` says so (`Forgotten`, after `Patience` ticks without
use) and allows no more.

**VideoLaunch.** `saved` is the run-state file, written by rename; `film` and
`evidence` are written in place. `jobs` and `evals` are the session's view,
`remote` the runtime's jobs in the same process. The session is saved before the
first poll and after each; a poll is `Refresh` and `Save`, and after any of them the
polls may be used up (`PollLimit`), whatever the renderers do. A renderer is a child
process with a timeout: when the launch ends, or gives up on it, it may stay in
`orphans` and write its clip later (`spoiled` if that clip was accepted). A run
begins with `Start` or `Resume`, by what the state file says. A clip is a number that
stands for its checksum, another one than those recorded each time it is written
(`Fresh`).

**CleanerVault.** `op[o]` is an operation of some process and the step of it: take the
lock or find it old, plan, prepare a capsule, look at each file, hash it, move it, seal,
or undo. A move is a rename, or a copy and an unlink; it takes what is at its source by
then and goes over what is at its destination. `stored` and `manifest` are a capsule;
`files` the user's paths, which the user's programs write at any time. `lock` is the
lock file and whose it is, `Left` when nobody at work holds it: its owner died, or could
not write it. It gets `old` at any time, whoever holds it, and is then broken by whoever
finds it (`Age`, `Locked`, `BreakLock`). A restore gives it up before it moves
(`ReleaseEarly`), as the code does; the scheduler's purge takes none. `aged`,
`swapped` and `damaged` are history, `free` in an operation the paths it found free.

**SoftwarePayments.** `subscription`, `refunded`, `sent` and `offered` are Stripe,
which is external: it reports every event until the report is answered, in any
order, perhaps twice. `receipt`, `row`, `entitled`, `run` and `recorded` are the
tables; `request[k]` what an edge function invocation has reached, one statement
or call a step. Any step may fail. `slipped` and `overtaken` are history: a call
that was noted as made and was not, or an insertion that failed for an event that
was answered; and an older status written over a newer.

## 3. Runs

| Run | Instance | Distinct states | Shows |
|---|---|---|---|
| `forge` | 2 files, 1 content of 2 chunks, 2 requests, of the server or of a preview; crashes, timeouts, database errors, lost bodies | 1,082,033 | `AckedDurable`, `StoppedIsSynced`, `TypeOK`; refines `RestartSafe` |
| `forge_generations` | 1 file, contents of 1 and 2 chunks, 2 requests, same faults but lost bodies, fair | 348,350 | the old generation survives an interrupted replacement (`ManifestBacked`); every waiting response is answered |
| `forge_late_call` | calls may overlap | about 159,000 | **violation**: finding 1 |
| `deploy` | 2 jobs, tick and 1 request, 2 attempts, 2 crashes, I/O errors | 763,546 | one runner per job, admission before deployment and once, a broken chain fails closed |
| `deploy_race` | 2 jobs, tick and 1 request, 2 attempts, no faults, fair | 211,877 | `HeadIsCurrent` in every interleaving; every job settles |
| `bank` | 2 customers, 4 keys, range 2 | 214,059 | refines `AtomicBank`; what was answered or shown is durable; retries, replay |
| `admission` | 3 requests, 2 gateways, buckets of 3 and 2, one filled within its time to live and one not, 2 slots, 2 periods | 52,324 | refines two token buckets; a slot per reservation; budgets held |
| `cleaner` | 2 operations, 1 file, 2 contents, 2 capsules, old locks, racing writes, failures and deaths without bound | 2,176,065 | nothing is lost, capsules are sound, the lock excludes until it is old |
| `cleaner_overwrites` | the same, but no write between a check and its move | about 480,000 | **violation**: finding 2 |
| `video` | 2 shots, 3 faults, polls used up at any time, fair | 71,187 | saved state is sound, the film is judged, nothing is redone, a launch settles unless its polls run out for ever |
| `payments` | customer, verification and Titan; 2 requests at a time, 1 fault, 1 reconcile, fair | 531,605 | certificates are real, answers recorded, access follows the subscription, every path is certified |
| `project` | 2 revisions, 2 requests at a time, 5 in all, 2 previews, 2 entities, 3 records, 2 faults | 1,208,328 | pointers are sound, snapshots are images, data holds |

**Why the bounds are enough.** Two files show the order in which a flush reads,
uploads and deletes and a request that changes both; two contents, one of two
chunks, show an interrupted upload next to an older generation; two slots hold
the live call and an abandoned one. Two jobs and two runners show every
pair of activities on one job and on two; a second attempt shows what a retry
finds, and the second crash what a restart leaves. Four keys are two fundings, a
reversal and a second reversal of the same transaction, with the money to pay it; a
range of two is reached by the sum of two amounts. Three requests for two slots
make the third wait for a slot that is freed or expires, buckets of 3 and 2 are
emptied by two requests and refilled in one time to live, and two periods let a
budget expire while another is used. Two operations show every pair of cleanup,
restore and purge, and the two that find an old lock; two capsules let a restore of one
meet a cleanup into the other; one file is enough for a failure or a death before and
after each move, and 2 files with 1 capsule, which take as long again, hold too. Two
shots show one rendered or judged and one under way or left behind at a time, and three
faults a launch and two resumes that end early; `Fresh` needs 7 numbers, since 6
are recorded at most. Three shots with one fault (612,645 states) hold too. A
launch also ends by its polls, which are not counted as a fault. Two requests of one
webhook are a report and its repetition, or a webhook and a reconcile. Two previews
are one that overlaps another, three records exceed a quota of two by a race, and five
requests are a save, a publish, a rollback and two more in their way. `MaxPending`,
`MaxAttempts`, `MaxCrashes`, `MaxFaults`, `MaxReconciles`, `MaxServed`, `MaxRecords`,
`NCapsules`, `NRevisions` and `NPreviews` are guards, named as bounds where they
are declared. Deadlock is checked for the bank, the admission and the cleaner, which
can always go on; the others may stop (all requests answered, all jobs settled, the
launch completed, the payment certified, all requests served), and there it is not.

**Fairness.** `forge_generations`: the event loop runs every continuation that is
due and the bridge finishes the calls it has; nothing is assumed of requests,
crashes or timeouts. `deploy_race`: due callbacks run, file operations and adapter
calls settle, and the interval timer fires again (`start()` in `worker.mjs`); HTTP
requests are never assumed. `video`: the process goes on while it lives, its
renderers end, and a launch that stopped is run again, which the resume option is
for; orphans and deaths are never assumed, nor that a renderer is done before the
polls are used up: by default they are after 5 minutes (1200 of 250 ms,
`launch-bootstrap.mjs:109`), while a render may take 30, and every resume submits
again what was not completed. So `Settles` says: the launch comes to its end, or its
polls are used up again and again. `payments`: Stripe reports what was not
answered, as it documents, and a request that does not end goes on; the buyer's
cancellation and the owner's reconcile are never assumed.

**Assumptions of passing runs.** `Serial` for Forge: a call reaches the bridge only
when no abandoned call is still running there; `forge_late_call` drops it.
`FaultKinds` without `rowdelete`: a delete that fails leaves both or none of chunks
and row, or the chunks; with it `StoppedIsSynced` is refuted. Admission: one time to
live for all reservations of a model. Some properties
state their exception as a condition on history: `misread` (a manifest that could not
be read was believed, until a start that reads it), `late` (a gateway outlived its
lease), `aged` (a lock file was old, until everybody of that time is done), `damaged`
and `swapped` (a capsule on which a process died or a move failed; one with a file
that was replaced between its hash and its move), `Overtaken` (a file written where a
cleaner operation had looked and before it moved its own), `spoiled` (an orphan
renderer wrote over an accepted clip), `slipped` and `overtaken` (above), `crowded`
and `mixed` (project requests, or mutations, that overlap). Each exception is real in
the code: without the condition TLC finds the behaviour, and the hazards say where.

### Findings

1. *Late call* (`forge_late_call`). A call that timed out in the mirror runs on
   in the bridge and can undo a write that was acknowledged after it.
2. *Early release* (`cleaner_overwrites`). The agent returns the promise of a
   restore without awaiting it, so its `finally` removes the lock first, and a cleanup
   moves files at the same time: it takes the file its user has just written, cannot
   seal its capsule, and puts the file back after the restore found its path free; the
   restore renames over it. Nobody dies in this, no lock is old, and no program writes
   between a check and a move.

`PROJECT.json` quotes the document each of them contradicts. What else the models
showed while they were written, and no run of its own repeats:

* A body that is lost makes an empty manifest (`durable-state.mjs:145,156`): a start
  clears the managed files and goes on, and the next flush deletes them remotely and
  verifies its work. `docs/HERCULES-FORGE-DURABLE-STATE-V1.md:30` says "Production
  fails closed if remote status, authentication, object integrity, or manifest
  verification fails." Without `misread` TLC loses an acknowledged file in
  the instance of `forge`, in a start and one request.
* What a preview, or a handler whose client left, writes after the last scan of a
  shutdown is not mirrored, and "stopped" is reported all the same (`production.mjs:409`,
  `control-api.mjs:1263`), against `:28` of that page ("shutdown flushes before and after
  the HTTP server closes"). `StoppedIsSynced` says what still holds.
* A delete that removed the chunks only, followed by the same content, verifies
  and cannot be hydrated (`forge-state.ts:231`; `rowdelete`).
* `create()` does not write its first state through a temporary file; a death there
  leaves a `state.json` that stops the worker's `list()` for good
  (`hercules-deploy/store.mjs:130`; status "empty").
* `verify()` outside the append queue sees an event without its head and fails a
  good deployment (`admission.mjs:112`; `NoFalseAlarm` of `FlightRecorder` is
  refuted in the instance of `deploy_race`).
* `cancel_requested` and `refund_requested` are written before the call to Stripe; if
  that call does not happen nobody makes it again (`slipped`).
* An event carries a snapshot of its subscription; a late one grants a canceled
  subscription again (`overtaken`).
* A report that is repeated before its receipt is closed does its work again; when it
  fails after the entitlements were deleted and before they are inserted, and Stripe
  has seen the first one's success, the customer has paid and has none
  (`hercules-stripe-webhook/index.ts:243`; "insert" in `slipped`). It takes two
  faults; with it excepted, TLC agrees for three, and the theorem for any number.
* A launch that died between the start of the assembly and its last write is
  refused by every resume (`Settled` names it).
* A launch gives up after 5 minutes of polls by default and leaves its renderers
  behind (`launch-bootstrap.mjs:384`); a resume submits those shots again
  (`campaign-execution-service.mjs:224`). Renders that take longer are never done, and
  a renderer left behind may write over the clip of its successor after that was
  recorded, which the resume after it refuses, or over one that was judged, which goes
  into the film: no fault is needed for it.
* A bucket whose key expires before it would be full is full at once
  (`token-admission.lua:57`). `tests/hercules-redis-integration.test.mjs:12` runs with a
  time to live of 2 s, and `:31` of 50 ms, for buckets that fill in 30 s and 60 s: a
  tenant that waits for that long may draw all of it again.
* A cleaner operation takes or replaces what a user's program writes between its look at
  a path and its move (`engine.mjs:230,239`, `:258`, `:277,288`), and a lock older than
  30 minutes is broken under an operation that is still at work (`state.mjs:84`). Without
  the exceptions of `NothingLost` and `LockIsExclusive` TLC shows both.
* Start, stop, snapshot and restore of a project share no lock, against
  `docs/HERCULES-FORGE-RUNTIME-DATA-CONTROL-V1.1.md:103` ("Snapshot and restore
  operations stop an active preview before touching data so the filesystem image is
  consistent."): `CertifiedIsImage` and `DataHolds` fail without their conditions.
* `executeCleanupPlan` does not look again at a file it has hashed (`engine.mjs:235`): when
  it is replaced before the move, by its user or by a restore, the capsule is sealed
  with a file that is not the one in its manifest, and every restore of it is refused
  (`swapped`).
* A copy across file systems whose unlink fails leaves the file at both ends, and
  the cleanup that did it ends without knowing of the copy (`engine.mjs:192`; `damaged`).
* A preview that is killed inside an atomic write leaves a temporary file, and
  every later snapshot and usage request of the project fails on it
  (`runtime-data.mjs:49`).

## 4. Proofs

The theorems hold for every value of the constants that the assumptions allow. Each
module's proofs have the same shape: an inductive invariant, made of named parts, is
shown to hold initially and to be preserved action by action; the theorems follow.
Every invariant was checked by TLC on the instance of its run before it was proved.

Every safety property that a passing run checks is also proved: the invariants, the
action properties (`NothingRedone`, `NothingLost`, `FailsClosed`) and the refinements
(`RestartSafety`, `IsRateLimited`, `IsAtomicBank`).

`ForgeDurable_proofs`, first the bridge alone. It keeps its types; with `Serial` and
without `rowdelete` every object row has all its chunks (`ManifestBacked`). The
inductive invariant adds what a running commit knows: between its select and
its upsert the chunks it checked are still there, and between upsert and sweep
the row is its own generation, so the sweep removes other generations only. The
invariant needs that calls do not overlap, which is the point of finding 1. The
service keeps its types too and takes only steps of the bridge specification
(`ServiceUsesBridge`), so the theorem about the bridge carries over
(`ServiceManifestBacked`): the call in flight has the arguments its stage gives it, a
scan never points past a file's history and is complete when uploads begin.

Then restarts: `AckedDurable`, `StoppedIsSynced` and the refinement of
`RestartSafe` (`KeepsPromise`), for every number of files, contents, requests and
slots, with the exception of `misread` each of them states: while it holds the
invariant asks for the types, the mirror's part and the shape of the calls under way,
and of what the store keeps for nothing; a start that reads its manifest makes the
rest true again. The invariant has two parts. `MirrorInv` speaks of the mirror alone: a flush reads
a file after its owner has written it and not before what is acknowledged, and
the second flush of a shutdown reads each file as it was when the server closed, or
later. `StoreInv` speaks
of mirror and bridge: a call, awaited or given up, writes only a content a restart
may come back with (`CallsDurable`), so whatever is committed is one
(`ObjectsDurable`), and a manifest the mirror has an answer to is still true when it
reads it (`SeenIsNow`), so that a flush that verifies has its scan in the bridge.
Each action keeps the first part by looking at files, requests and queue only, and
the second by one of four shapes (no call, a call sent, a call dropped, a statement
of the bridge). All three need `Serial`; the two that speak of chunks also need that
no `rowdelete` occurs, because they use `ManifestBacked`.

`BankRuntime_proofs`. `AckedIsDurable`, `ShownIsDurable`, `AlwaysRestorable` and
`RetryIsHarmless`, for all customers, keys, amounts and lengths of the chain.
The lemmas say of one operation that it only extends the ledger, that its effect
is there afterwards and that no later operation takes it away (in particular no
second reversal), and that a ledger that replays still does. The invariant says
that file and memory agree except between rename and swap, when the file is the
copy, and that the copy is an outcome of the running operation. The checks of
balances are never expanded there. They are for the money: a balance, a recursive
function along the journal, exists, is unique and grows by `Delta` with each
transaction that is appended (`BalanceOfAppended`), so the two accounts `post()`
checks are the only ones that move and every ledger stays solvent (`Solvency`, which
gives `TypeOK`). The refinement of `AtomicBank` follows: what is posted is an
original between open accounts or a first reversal (`AskedIsAllowed`), it happens at
the rename of `save()`, and every other step stutters.

`DeployPlane_proofs`. `OneRunnerPerJob`, `AdmittedBeforeDeployed`, `HeadIsCurrent`
and `FailsClosed`. The invariant adds that a runner's attempt is that of its job,
that a client of the recorder asks for the job it works on, that what it asks for is
not recorded before, and that one client at a time is in the append queue. The many
steps of the worker are four shapes (a runner walks on, shifts a job, stays, or waits
for the recorder), so that the invariant is shown once per shape. `FailsClosed`
follows step by step: once the files differ no step writes either.

`ForgeRuntime_proofs`, first the releases. `PointersAreSound`: the active release has
a record and its revision a workspace, in every interleaving of saves, publishes,
rollbacks and deaths, previews and data requests among them. The invariant says that
what a task publishes exists, that what a pointer names was written before it, and that
a torn file has a task writing it or a death behind it.

Then the previews and their data: `TypeOK`, `CertifiedIsImage` and `DataHolds`. The
invariant has a part that always holds (`Typed`; `Linked`: a request that starts or
stops a preview finds it so) and one for each condition. While requests do not overlap
(`Alone`) one request is at work, no preview is open while it reads, a preview that
closes has the request that stops it, and what a snapshot has copied so far is the data
of the moment it began. While mutations do not overlap (`Unmixed`) there is one
mutation, none during a restore; the file it writes extends the one it read; and every
record owed is in the data, in the directory the one restore moved aside, or in one
that stays. `DataHolds` needs the quota of manifests and of what was moved aside, since
either may become the data.

`VideoLaunch_proofs`. `StateIsSound`, `FilmIsJudged` and `NothingRedone`, for every
number of shots and faults, the first and the judgement of the film as long as no
orphan wrote over a render. The invariant adds that a render the session or the
runtime has is the one on disk, that each render is recorded once, that the session
keeps what the state file says, that evaluations are of completed renders, and what
is true after all shots are judged. `NothingRedone` follows from a lemma on two kinds
of steps, those that leave the disk and those that save the session.

`SoftwarePayments_proofs`. `CertifiedIsReal`, `AnsweredIsRecorded` and
`EntitledIsPaid`, for every number of requests, faults and reconciles. The
invariant says that what Stripe reports has happened there, that a payment is
saved after it is made and before it is given back, that an event's record comes
before its answer, that one request prepares a run, and of every request what
follows from the step it is at. Steps are of two shapes, those that leave the run
alone and those that change it, and a lemma says of each that the other requests'
knowledge stands. A second invariant, `SaleInv`, is about a customer's purchase:
what an event that was reached says has been written, what was written last is
what is there unless something was overtaken, and while the newest status is
active and nothing is granted, either a request is about to insert or an event
that brings it is still to be reported (`Granted`).

`CleanerVault_proofs`. `LockIsExclusive`, `VaultIsSound` and `NothingLost`, for every
number of operations, files and capsules, with locks broken at any time and user
programs that write at any time. The invariant has no part that needs the lock but
`LockHeld`: while no lock was old, or again when everybody of that time is done, the
lock file is its holder's and nobody is about to break it. `VaultInv` says of each
capsule, by what is done to it: a cleanup's holds what it has moved so far, under the
hashes it took unless one was replaced, a restore's holds what is still to be put back,
and one nobody works on is sealed with all its files or empty. `FreeInv` says that an
operation only moves to a path that it found free. `NothingLost` is a property of
steps: a lemma says for each kind of move that it takes a file from one side and adds
it to the other, so that the number of copies does not fall (the cardinality of the
capsules with a copy), but for the file `Overtaken` names.

`RedisAdmission_proofs`. `SlotPerReservation`, `BudgetHeld` and the refinement of two
token buckets (`IsRateLimited`), for every number of requests, gateways and periods
and every configuration. Of the buckets: the ideal level is at least what the key
holds when refilled, and a key that is gone is a full bucket, since it lives as long as
a refill takes or the ideal bucket is forgotten with it (`BucketsCovered`). Of the
slots: while a reservation is in its lease the index has it with the same end, and a
gateway at work owns one (`SlotsInv`, `GatewaysInv`). Of the budgets: the key of a
period outlives the leases of its reservations, and its value is at least the sum of
what they hold and at most the limit (`Charged`, `Holds`).

Two modules reason about sums, which need induction over data. The library's
induction theorems take an operator and cannot be used; instead a set of
counterexamples that is not empty has a least one (`LeastNat`, from the
well-foundedness of the order on the naturals, or `LeastSet`, by cardinality), and
that one is refuted. So the recursive function is shown to exist and to be unique,
that an element may be taken from a sum in any order (`SumOfRest`), and that a journal
is summed transaction by transaction (`BalanceOfAppended`).

Assumptions are those on the constants, named in the modules
(`NPathsAssumption`, `AbsentAssumption`, `ChunkCountAssumption`, `SerialAssumption`,
`NoSlotAssumption`, `ShutdownAssumption`, `BankAssumption`, `RuntimeAssumption`,
`ReleasesAssumption`, `LaunchAssumption`, `PaymentsAssumption`, `CleanerAssumption`,
`AdmissionAssumption`, `GoneAssumption` and those of the deploy
plane), which TLC evaluates in every run of those modules.

Only model-checked: liveness (`EveryFlushAnswers`, `EveryJobSettles`, `Settles`,
`Certifies`), which is out of the prover's reach, and the two violations.

## 5. Not modelled

* Forge: validation and authorisation of bridge calls; the six managed roots are
  one directory, and hydration's swap is one step, since the server does not
  listen before it is over and a start repeats it; contents of different chunk
  size configurations; preflight and the startup canary; identity sessions and the
  audit chain.
* Forge projects: the creation of a project (the initial state) and compilation;
  content of artifacts; records are only added, never changed or removed; the durable
  mirror of runtime data, which is Forge's; the audit entry of an operation; an `rm`
  of the previous directory that fails.
* Deploy: the bytes of a torn line (a failed append adds a line or none);
  `list()` reads all jobs in one step; evidence, error codes and history;
  providers; `Readable` looks at empty state files only.
* Bank: currencies, references and reasons, metadata of accounts, the unused
  HMAC store in `store.mjs`; a transaction's hash is its key, which is unique
  in a journal, and only operations that were answered reveal one.
* Admission: the monthly budget, which is the daily one under a longer period, and
  the key "concurrency", which no script increments; requests of one tenant that
  bring different times to live; the edge gateway.
* Video: two launches at a time with the same files, which nothing in the code
  excludes; how long the polls and the renderers take; the studio server, connectors and campaign plans; how the quality gate
  judges a clip (an outcome).
* Cleaner: which files a plan selects, the schedule, the Windows shell.
* Payments: several verification runs of an owner (`Prepare` makes one, the code as many
  as are asked for one after the other); plans of the platform, provider connections, synchronisation of the
  catalogue, Shopify; that a refund event lists its refund, and the time it takes a
  payout to exist, are assumptions about Stripe.
* Authority, Guardian, Base backend, models, HURC, operator bot and tooling,
  recovery functions, web fronts: most are stateless, numeric, or SQL; the domain
  agent's approvals would be the next to model.

## 6. Plan

1. Done: Forge durable state, deploy plane, bank, admission, cleaner, video, payments and
   Forge projects, each with its safety properties and refinements checked and proved.
2. Models: the domain agent's approvals and leases; Forge identity and audit;
   platform plans; deletes and updates of runtime records; each with its proofs.
3. Proofs: abstract specifications of the deploy plane (a job and its attempts) and of
   the cleaner (files and their copies), and that the models implement them.
