# Verification of the API-SaaS control plane

This directory holds TLA+ models of the control plane under `src/`, TLC
configurations that check them on small instances, and TLAPS proofs of what
matters most for every instance. The first part of this file is an inventory of
the system, the second a plan, the third explains what exists.

## 1. The system

The program is a FastAPI service that opens "stations": New API runtimes on
Kubernetes, one per tenant, bound to a Sub2API upstream. `scripts/start.sh`
starts **one** uvicorn process. `async def` handlers share its event loop and
give it up only while they await an HTTP reply of a real adapter; `def` handlers
run on threads of a pool, beside the loop. Every request gets a SQLAlchemy
session of its own (`db/session.py`); rows live in Postgres (READ COMMITTED),
are never locked and carry no version. A session keeps the attributes it loaded
until its next commit, and a flush writes only the columns whose assigned value
differs from the loaded one.

| component | state | operations | talks to |
|---|---|---|---|
| job engine: `services/workflow_service.py`, `api/jobs.py` | `deployment_jobs` rows | create, run, cancel, retry, tick (a stand-in for a worker) | tenant service (calls), audit trail |
| tenant service: `services/tenant_service.py` | tenant, instance, upstream, domain, quota rows; manifests on disk | create_tenant, deploy, delete, init_newapi, bind_upstream, provision, domains, quota | adapters, renderer |
| tenant endpoints: `api/tenants.py` | none of their own | suspend, resume, patch, deploy, apply, delete-runtime, init, bind, provision | tenant service, on threads or on the loop |
| renderer and kubectl: `services/k8s_renderer.py` | manifest files, mock runtime state | render, validate, apply, wait, get, delete | kubectl, synchronously |
| New API, Sub2API, Cloudflare clients | none | create_token, create_channel, verify_key, create_custom_hostname, ... | HTTP, awaited |
| safety gate: `services/safety.py`, `core/config.py` | settings, cached for the life of the process | is an adapter real? | asked by the clients, kubectl and the preflights |
| preflight: `services/realflow.py`, `api/system.py` | none | verdict on the settings | safety gate |
| audit trail: `services/audit_service.py` | `audit_events` rows | record_event | same transaction as the caller |
| rate limiter: `services/rate_limit.py`, `api/runtime.py` | Redis counters | check-rpm: allow | Redis; the tenant's quota row |
| canary scripts: `scripts/real_k8s_canary_*.sh` | environment file, the cluster | open, server dry run, Step 3, cleanup | the API, kubectl |
| read-only endpoints, start-up, API key | none | | |

What is hard in it:

- **coroutines against threads**: a cancel, a suspend or a delete-runtime
  commits between two steps of a running job, and between a handler's check and
  its own commit;
- **awaits**: while one attempt waits for New API, other requests run, requeue
  or tick the same job;
- **stale sessions**: the failure handler of a job decides and writes with what
  its session loaded before the await;
- **crashes**: the container restarts (`restart: unless-stopped`) between any two
  commits, and nothing resumes a job;
- **side effects beside the rows**: kubectl and the mock runtime file change at
  moments of their own, and kubectl may be killed half way;
- **settings** that the API read when it started, a manifest rendered under older
  ones, and an environment file that a script reads now;
- **external replies** that are errors, late or lost;
- **progress**: only a tick takes a queued job, in batches that one refused job
  ends early.

What makes each part correct:

- job engine: no attempt is lost or counted twice; each attempt has one outcome;
  a row says running only while somebody will write that outcome; budgets and
  idempotency keys hold; success is final and attempts of a job exclude each
  other where nobody overrides that; queued jobs are reached, attempts end;
- tenant service: a tenant that says active is served by an initialised instance
  and a bound upstream; bound means that a channel exists;
- tenant endpoints: the instance row says what the cluster and the runtime file
  are; a provision calls a tenant active only over what it has done; every request
  ends;
- safety gate: an adapter is real only if the global switch, the allow list, its
  own switch and its credentials say so;
- tenant creation: slugs, emails and domains stay unique, and a create never
  blocks the loop for good;
- rate limiter: a counter never admits more than the quota, lives as long as its
  window, and goes afterwards;
- canary scripts: they make the API touch nothing but Kubernetes, "completed" is
  true, and a cleanup takes nobody else's objects.

`PROJECT.json` lists every hazard at its line, with the property that covers it.

## 2. Plan

In the order of importance:

1. `ProvisionJobs` with its abstract specification `JobLifecycle`: the job
   engine. *Done*, with proofs in `ProvisionJobsTypes`, `ProvisionJobsSafety`,
   `ProvisionJobsRefinement` (one attempt at a time, the refinement) and
   `ProvisionJobsTenants` (what the tenant row and New API may say).
2. `TenantRuntime`: the tenant, instance and upstream rows, the cluster and the
   runtime file under the tenant endpoints. *Done*, with proofs in
   `TenantRuntimeProofs`.
3. `SafetyGate`: the decisions over the settings and the preflight verdicts.
   *Done*; `RealCanaryProofs` proves facts about every setting.
4. `TenantCreation` with its abstract specification `TenantRegistry`:
   create_tenant and add_custom_domain with the database's unique indexes and
   their locks; the event loop that blocks on one. *Done*, with proofs in
   `TenantCreationProofs`, the refinement included.
5. `RateLimiter`: quota, clock and the two Redis calls, with faults between them.
   *Done*, with proofs in `RateLimiterProofs`.
6. `RealCanary`, over `SafetyGate`: the canary scripts against the API and the
   cluster. *Done*, with proofs in `RealCanaryProofs`.
7. Open: `ProvisionJobs` composed with the threads of `TenantRuntime`; the
   connection pool.

Runs: for each module one run for its races and its liveness, and one for a
disagreement between the code and its documents that matters. The set is kept
small: a new module's runs have taken the place of narrower ones. Bounds: one or
two jobs, two or three concurrent requests, one crash; each hazard needs at most
two actors and one row, and a second job only matters for the queue.

## 3. What is modelled

### ProvisionJobs

| variable | code |
|---|---|
| `job` | a row of `deployment_jobs`: status, tenant, key, attempts, max_attempts, whether `locked_by`/`locked_at`, `next_run_at` and `completed_at` are set, and `result['request']` |
| `audit` | how many `job.attempt.started`, `job.succeeded`, `job.failed` events the job has |
| `ten` | status of the tenant row, its instance and its upstream |
| `channels` | channels that really exist in the tenant's New API (external) |
| `run` | a coroutine request: where it stands (`pc`), which handler it is (`kind`), its job, the row its session has loaded (`obj`), its payload (`req`), the rest of a tick's batch |
| `cancel` | the row that a cancel thread has loaded |
| `loop` | who holds the event loop |
| `lost`, `crashes` | history: attempts cut off by a crash, and crashes |

A handler is cut into steps at its commits and at its awaits, the only places
where another actor's commit can come between:

- `Submit`, `Insert`: POST .../jobs/provision, the lookup of the key and the insert;
- `RunRequest`, `Retry`, `TickList`, `TickNext`: the other three coroutine
  handlers up to `run_provision_job_inline`;
- `Refuse`, `Load`, `Start`: its guards, and the commit that opens an attempt;
- `MaybeFail`, `DeployCall`, `DeployOk`, `DeployRefused`, `DeployTimeout`,
  `InitCall`, `InitOk`, `InitError`, `BindCall`, `BindOk`, `BindError`,
  `Domains`, `Complete`: the phases, a call and its outcomes;
- `Handle`, `Fail`: the except branch, its read and its commit;
- `CancelLoad`, `CancelCommit`: the cancel thread;
- `Crash`: the process dies; rows stay, everything else in the process is gone. A
  `create_channel` that was on its way may have reached New API or not (`Posted`).

`Col(current, loaded, new)` is a flush of one column: it stays as it is in the
database if the new value is the loaded one. `Refresh` and `Proceed` keep track
of what the session holds.

Abstractions:

- timestamps are "set or not"; the one comparison, `next_run_at > now` in a
  tick, is kept as the set `run[r].late` of jobs whose `next_run_at` was set
  after the tick read the clock;
- `worker_id` and `locked_at` are one Boolean, messages and results are left out
  except `result['request']`, which a later run reads;
- requests that change no row (a known key, a refused cancel or retry) are not steps;
- `Retry` loads and commits in one step: it writes every column that a cancel
  thread may write, and the loop is its own;
- writes to the tenant, instance and upstream rows are unconditional: within this
  module only coroutines write them, and each phase assigns a value different from
  the loaded one or equal to the stored one. A status the tenant endpoints set
  meanwhile belongs to `TenantRuntime`;
- the two awaits of `bind_upstream` are one (the first, `verify_key`, catches
  every error and its result is only stored); its branch that creates a missing
  upstream is dead, since `create_tenant` always makes one;
- `deploy_instance` commits inside the deploy phase and the phase commits again
  with no await and no further tenant change; the two commits are one step;
- verification of domains never calls out and writes domain rows only, which no
  job reads;
- the manifest is always there once `create_tenant` wrote it, so a mock apply
  succeeds.

### JobLifecycle

The lifecycle that `docs/WORKFLOW_WORKER.md` and `docs/WORKFLOW_JOBS.md`
describe, with the status of each job and the set of jobs an attempt works on.
`ProvisionJobs` maps to it with `st[j] = job[j].status` and
`open = {j : an attempt of j is open}`.

Of the properties, `OneChannelPerAttempt` counts what the awaits of
`bind_upstream` leave behind in New API against the `attempt.started` events of a
tenant's jobs (`AttemptsOf`); `ActiveTenantIsBound` and `ActiveTenantIsServed` say
what stands behind a tenant row that says active.

### TenantCreation

| variable | code |
|---|---|
| `tenants` | the committed tenants; a tenant is the body that made it, as slug and email never change |
| `domain` | the committed rows of `domains`: which tenant has a host |
| `manifest` | the files that `write_manifest` leaves in `MANIFEST_OUTPUT_DIR`, with the body each was rendered from |
| `run` | a request: where it stands, its body, the host it adds, its answer |
| `loop` | who holds the event loop |
| `crashes` | history: crashes |

The steps of `create_tenant` are cut where another actor can see or block it:

- `Refuse`, `Create`: the slug and the lookup by slug or email;
- `Insert`: the first flush, `db.flush()` at line 107. It returns once no open
  transaction has the slug or the email; until then the request waits in Postgres
  with the event loop, because the driver is synchronous;
- `Key`: the end of the Sub2API call, during which the loop was free;
- `Rows`: the flush of the other rows and the manifest file; or, because the
  subdomain is taken, a failed flush, at which SQLAlchemy rolls the transaction
  back, and the answer;
- `Commit`: the commit and the answer.

`AddDomain` and `Hostname` are `add_custom_domain` up to and from the Cloudflare
call; `Crash` removes requests and open transactions and leaves rows and files.

Abstractions:

- `SlugOf` is `normalize_slug` as a function on a small set of names: two names
  can have one slug, and a name can have none;
- quota, upstream, instance and job rows are left out: they are written in the
  same transaction as the tenant and have no unique index that could clash;
- whatever the Sub2API probe answers, a key is returned, so its outcome is no
  choice; a Cloudflare reply of any status is followed by the INSERT, and an HTTP
  error raises;
- a `deploy = FALSE` body writes no manifest; a later deploy may write one, for the
  same tenant;
- patching, suspending and quotas touch none of this state, and there is no
  operation that deletes a tenant or a domain.

### TenantRegistry

The promise of tenants and domains with no sessions, awaits or files: `Register` adds
a tenant under a slug and an email that no other has, with its subdomain, and
`Assign` gives a registered tenant a host that nobody has, for good. Its constants
are functions from what can be registered to slug, email and subdomain, so that it
knows nothing of bodies or normalisation. `TenantCreation` maps to it with
`accounts = tenants` and `owner = domain`: a commit is the one step, and everything
before it stutters (`ImplementsRegistry`).

### TenantRuntime

One tenant; what its endpoints do to it, each with a session of its own.

| variable | code |
|---|---|
| `row` | the status columns of the tenant, its instance and its upstream; `inst = "none"` before there is an instance |
| `cluster` | what kubectl has made of the manifest: all of it, some, none (external) |
| `file` | is there a `mock-runtime/<slug>.json`? |
| `run` | a request: where it stands, whether it is a provision, mocks kubectl, waits for the rollout; its outcome, and the rows its session loaded |
| `loop` | who holds the event loop; threads do not need it |
| `disturbed` | history: a deploy or a delete overlapped another or was cut off, and none has succeeded alone since |
| `arrivals`, `crashes` | history |

- `Deploy` (deploy and apply), `Delete`, `SetStatus` (suspend, resume, PATCH) begin
  on threads, `Provision`, `InitRequest`, `BindRequest` on the loop;
- `Apply`, `Check`, `WriteFile`, `Record` are `deploy_instance`, cut where another
  thread can see a change: after kubectl apply, after the readiness and resource
  queries, after the runtime file, at the commit. kubectl may fail, or be killed by
  its timeout, which raises past the commit, with part of its work done;
- `Remove`, `Exists`, `Unlink`, `Record` are `delete_instance`;
- `InitPhase`, `InitOk`, `BindPhase`, `BindOk`, `CallError`, `Final` are the other
  phases, with `CallOut` and `Done` for the two halves around an await;
- `CommitStatus` is the commit of a status; `Crash` as above.

`Flush(old, new)` is the commit of a session: a column that is assigned the value
it was loaded with keeps what is in the database. `DeployRecorded` and much of
`Mirror` hang on that.

Abstractions: a manifest validates under the settings it was rendered with, so a
mock apply succeeds (`RealCanary` has the settings that change); the refresh after
a deploy's commit reads what the init phase reads anyway; a PATCH of name or plan
and the verification of domains touch no column of this model. `Targets` are the
statuses that are written from outside: any, for a PATCH takes every string, that of
a binding or of an active tenant included. So the status alone proves nothing, and
`ProvisionDelivers` speaks of the rows and the cluster that stand behind it at the
moment a provision writes `active`; what it asks of the instance it asks only of a
provision beside which nobody deployed or deleted (`alone`, which a provision keeps
through its later phases).

### RateLimiter

`key` has the counter of each window and its remaining lifetime in Redis; `limit`
is the quota row; `run` holds a thread's place, the quota and the window it has
read; `bucket` and `offset` are the clock in ticks. `Ask`, `ReadClock`, `Incr`,
`Expire` are `check_rpm` and `allow`; `UpdateQuota` is `update_quota`;
`Disconnect` loses a connection before a call of Redis or after INCR was done;
`Tick` moves the clock and lets Redis drop dead keys. `admitted`, `top`, `expired`
and `orphans` are history that the properties speak of.

### SafetyGate and RealCanary

`SafetyGate` has no variables. A `Settings` record has the settings on which a
decision depends; a credential is absent, blank, a `change-me` or given, a site
value empty, a default, a sample or given. `RealExternalEnabled` is the gate,
`Warnings` and `WillCall` the snapshot, `Blocking`, `ReadyForReal` and
`ReadyForCanary` the preflight, `RenderedKinds` and `DesiredKinds` what a manifest
contains and what validation wants, `PreflightPasses`, `PlanPasses`, `EnvPasses`
and `Step3Passes` what the scripts ask.

`RealCanary` runs the scripts over it, one at a time:

| variable | code |
|---|---|
| `env` | the environment file, read by the scripts' checks |
| `api` | the settings the API process has read: `get_settings` is cached |
| `tenants` | per slug its tenant: the email, and the settings its manifest was rendered under |
| `objects`, `namespaces` | the cluster |
| `script` | the script that runs or ran last: its step, slugs, email, how it ended, and the adapters it made the API call |
| `scripts`, `changes` | history |

`Program` gives each script its steps. `CheckEnv`, `Preflight`, `Plan`,
`ServerDryRun`, `List` ask; `Create`, `OwnCreate` and `Deploy` are the API's
operations with every way to fail; `Lookup`, `DeleteRuntime` and `Verify` are
cleanup.sh. `Fault` is a call that does not come through or an interrupt, `Edit` and
`Restart` the operator's other hand.

Abstractions: an object is its slug and kind; the scripts' static checks and health
probes only end a script early, as `Fault` does; an interrupted script leaves no
call running in the API; the two kubectl runs of the dry run are one question that
changes nothing, and its post-check, which selects the label `app=$SLUG` that no
object carries, cannot fail. Step 3 ends at its own create (`OwnCreate`), so its
deploy, its exit trap and its post-check are left out.

## 4. The runs

Each run's `MC` module only gives values to constants. Deadlock is not checked:
the bounds on jobs, requests, scripts and crashes stop the models, and so does the
event loop that blocks in `tenants_blocked`.

| run | instance | properties | result |
|---|---|---|---|
| `jobs_races` | 1 job, 2 coroutine requests (forced or not), 2 cancel threads, all adapters real, retries that keep, raise or lower the budget, 1 crash | `TypeOK`, `AttemptsAreCounted`, `AttemptsAccounted`, `RunningIsOwned`, `OneChannelPerAttempt`, `ActiveTenantIsBound`, `WithinBudget` | holds |
| `jobs_mock` | 2 jobs, mock adapters, a failure in each phase, forced runs, a cancel thread, 1 crash | `KeysUnique`, `ActiveTenantIsServed` | holds |
| `jobs_calm` | 2 jobs, real adapters, 1 crash, nobody forces or cancels, fair | `OneAttemptAtATime`, `SucceededIsFinal`, `ImplementsLifecycle`, `QueueDrains`, `AttemptsEnd` | holds |
| `jobs_late_cancel` | 1 job, 1 request, 1 cancel thread | `CancelOnlyQueued` | violated |
| `jobs_starved` | 2 jobs, batches of 1, a retry that leaves no attempt, fair | `QueueDrains` | violated |
| `tenants_races` | 3 clients, 4 bodies (2 slugs, 2 emails, a name without a slug), 3 hosts, real Sub2API and Cloudflare, 1 crash, fair | `TypeOK`, `ManifestMatches`, `SubdomainOwned`, `ImplementsRegistry`, `AnsweredUnlessBlocked` | holds |
| `tenants_blocked` | 2 clients with clashing bodies, fair | `RequestsAnswered` | violated |
| `runtime_races` | 2 concurrent requests, 3 in all, real Kubernetes and New API, suspend and a PATCH to `upstream_bound_mock`, 1 crash, fair | `TypeOK`, `Mirror`, `ProvisionDelivers`, `RequestsEnd` | holds |
| `runtime_lost` | 2 concurrent requests, 4 in all, mock adapters | `DeployRecorded` | violated |
| `rate_limits` | 3 threads, 4 requests, 3 windows of 3 ticks, quotas 1 and 2, 1 fault | `TypeOK`, `AdmittedWithinLimit`, `KeyOutlivesWindow`, `ImmortalOnlyByFault` | holds |
| `canary_runs` | 3 scripts, 2 slugs, 2 emails, 6 environment files, 2 edits or restarts | `TypeOK`, `OnlyK8sTouched`, `CompletedMeansCreated`, `CleanupHonest`, `OthersSurvive` | holds |
| `canary_step3` | the same with the canary, the sample and the default file | `Step3Creates` | violated |

Bounds. `MaxJobs` caps the rows, `AttemptBound` the attempts after which clients
leave a job alone, `CrashBound` the crashes; `PayloadLimit = 3` stands for the
limit of 10 on `max_attempts`, so that a retry can exceed it. Two requests and two
cancel threads are every pairing of actors; a third of either repeats a role. One
job is enough for races on a row, two for the queue and for keys.

Of the tenants, two slugs and two emails give every pair of bodies: the same slug,
the same email, both, neither; three clients are a create in its await, one that
clashes with it, and a custom domain that takes a host. Two of the three hosts are
subdomains of the two slugs, the third is nobody's.

`ArrivalBound` caps the requests of a runtime: two that overlap, and a third that
finds what they left; `runtime_lost` needs a deploy first, so that a later one
finds its own status, and the two that race. Of the statuses written from outside
one stands for no phase and one for a binding; what resume writes a provision
writes as well. `BucketBound`, `AskBound` and
`FaultBound` cap windows, requests and faults: a thread that read the clock in one
window and counts in the next needs two windows, and the third lets the first
counter die meanwhile (`Window + Slack` is 4 ticks, for the code's 60 + 5 seconds).
`ScriptBound` allows two opens and a cleanup, `ChangeBound` an edit and the restart
that makes the API read it. The six files are the canary's own, the defaults, own
namespaces, a fixed namespace that manifests create, a fixed one that is not set,
and Sub2API open as well; two kinds of objects, one of which the cleanup asks
for. The settings that no file of the run has are left to the theorems.

What the violated runs show:

- `CancelOnlyQueued`: `cancel_job` checks the status on a thread and commits
  later, with no lock; the job may be running, or done, by then.
- `QueueDrains` with retries that set `max_attempts` to the attempts already made:
  the job stays queued, each tick refuses it, and its exception drops the batch.
- `RequestsAnswered` with clashing creates: the first holds its slug and email
  uncommitted while it awaits Sub2API; the second passes the lookup, and its flush
  waits for the first with the event loop. The first can never resume, and its HTTP
  timeout cannot fire either, for that is the loop's work too.
- `DeployRecorded`: a deploy that loaded `running_mock` assigns `running_mock`, and
  its UPDATE leaves the column out; a delete committed in between stays, over a
  runtime that is there.
- `Step3Creates`: Step 3 runs the server dry run with its own email, and that
  creates a tenant with it; the email is unique, so its own create is a 409.

Some more divergences are in the models and have no run. Three need a single actor
each: a retry accepts `max_attempts` up to 20 and the next run or retry refuses more
than 10 (`Readable` in `ProvisionJobs`); `bind_upstream` does not look at the `ok`
of `create_channel`, so an upstream may be marked bound without a channel
(`BindOk`, whose history `channels` counts them); a create that matches one tenant
by slug and another by email is a 500 instead of a 409 (`Verdict` in
`TenantCreation`). Three are exempt from a property that otherwise holds:

- an init that found the instance running writes `newapi_initialized` over a delete
  committed during its await (`InitOk` after `Record` in `TenantRuntime`);
  `RowsTellTruth` and the `alone` of `ProvisionDelivers` leave it out;
- cleanup.sh asks kubectl in the condition of an `if`, where a failure, or a pipe
  that `grep -q` closes under `pipefail`, means the same as no leftovers. With an API
  whose delete is mocked by then it reports completion over a Deployment that is
  there (`Verify`); `CleanupHonest` asks for a kubectl that answered or a real delete;
- with a fixed namespace and `K8S_CREATE_NAMESPACE`, its default, each manifest
  contains the shared namespace, and deleting one station deletes all of them
  (`RendersNamespace`, `Delete`); `OthersSurvive` says that nothing else does that.

Fairness (`FairSpec`). Each coroutine gets *strong* fairness on its own steps:
its step is enabled again and again, whenever the loop is free, asyncio serves
ready callbacks in FIFO order, and each awaited call ends, at the latest by its
HTTP timeout. A cancel thread finishes (weak fairness). Some client keeps calling
the tick endpoint (strong: the loop must be free for it); arrivals of other
requests are not fair. `jobs_calm` has no cancel threads, for a client that
requeues and cancels an older job for ever keeps a tick busy; that is a
client's choice and not a defect of the engine.

`FairSpec` of `TenantCreation` is the same: strong fairness on each request's
steps, since the loop serves its ready coroutines in FIFO order and calls end by
their timeouts; arrivals are not fair. It gives no
fairness to an INSERT that waits: in `tenants_blocked` it is never enabled, and
`AnsweredUnlessBlocked` says that nothing else keeps a request for good.
`FairSpec` of `TenantRuntime` likewise: threads of the pool run, and kubectl ends
at its timeout. `RateLimiter` and `RealCanary` state no liveness: a handler there
is a few calls in a row, and a script does what its operator lets it.

`OneAttemptAtATime`, `SucceededIsFinal` and `ImplementsLifecycle` are checked
without forced runs and cancel threads: `force` is meant to override the guards,
and `jobs_late_cancel` shows what a cancel thread does. `ActiveTenantIsServed` is
checked with mock adapters; TLC finds it violated as soon as any one adapter is
real. A real cluster may leave a rollout not ready, and `tenant.status` as it was;
a real New API or Sub2API gives the event loop away in the middle of an attempt,
and another job of the tenant deploys again and fails, after which the first makes
the tenant active over an instance that is not initialised. No document promises
otherwise for jobs that overlap. `ActiveTenantIsBound` is what remains with real
adapters, and `jobs_races` checks it with all three real. `Mirror` asks nothing of
overlapping deploys and deletes, nor of one that was cut off, until another has
succeeded alone: `runtime_lost` shows what an overlap does. The properties of a
script exempt a restart of the API while it runs, which no check of a script can
see.

Every property of a passing run has a mutant in `PROJECT.json`: a plausible bug in
a modelled definition (`RetriedRowReset`, `RefusedLate`, ... beside the originals)
with which the run fails.

## 5. The proofs

`ProvisionJobsTypes` proves `TypeCorrect`: `Spec => []TypeOK`, one lemma for each
action. `TypeOK` says, beyond types, that whatever works on a job points to an
existing row and has loaded what its next step needs.

`ProvisionJobsSafety` proves that

    IInv == TypeOK /\ LoopHeld /\ StartFresh /\ InsertFresh /\ Owned
            /\ AttemptsAreCounted /\ AttemptsAccounted /\ KeysUnique

is inductive, and from it `AttemptsCounted`, `EveryAttemptAccounted`,
`RunningOwned`, `KeysStayUnique` and `BudgetKept` (the action property
`WithinBudget`). Why the parts are needed:

- `LoopHeld`: a coroutine that is neither idle nor awaiting holds the loop, so two
  of them are never both between a read and its commit;
- `StartFresh`: hence the row that `Start` computes the new attempt from still
  agrees with the table on attempts and budget; a cancel thread touches neither.
  Without it the increment could lose an attempt;
- `InsertFresh`: likewise no row with the key appears between `Submit`'s lookup and
  `Insert`;
- `Owned`: `RunningIsOwned` alone is not inductive. A failure handler that loaded
  the status `failed` (another attempt of a forced job ended meanwhile) does not
  write the column, so a row could stay running after its last attempt ended;
  `Owned` says when that cannot be.

The proofs assume only the named assumptions of `ProvisionJobs` on its constants:
`None` is a value of its own, the runners are finite, requests and retries are of
their types, and the bounds are natural numbers. Any number of runners, cancel
threads, jobs, tenants and keys is covered.

`ProvisionJobsRefinement` adds the assumption `Calm`, under which the documents
describe the lifecycle: nobody forces a run (`RunModes` has no `TRUE`) and there are
no cancel threads, as in the instance of `jobs_calm`. Its lemma `StepKinds` sorts
every step of a coroutine into eight kinds by what it does to a row and to the
coroutine's place (quiet, asks, claims, creates, requeues, opens, fails, succeeds),
with the status it finds and leaves;
the later proofs split on the kinds and no longer on the actions. Then

    CalmInv == Unforced /\ Waiting /\ AttemptRuns /\ Alone

is inductive beside `IInv`. `OneAttemptAtATime` by itself is not: a second attempt is
kept out by the status column alone, so the invariant has to say what the column
shows at each point. While an attempt is open its row and the copy in its session say
running (`AttemptRuns`); whoever is about to open one has read queued, and the row is
still queued (`Waiting`), because between the read and the commit the loop is its
own. From it follow `OneAttempt` (`OneAttemptAtATime`), `SuccessIsFinal`
(`SucceededIsFinal`) and `LifecycleImplemented`: `Init` maps to the initial state of
`JobLifecycle`, and each step to one of its steps or a stutter, under the same
mapping and property `ImplementsLifecycle` that the run checks.

`ProvisionJobsTenants` proves three properties of the job engine for any runners,
cancel threads, forced runs and crashes:

- `ActiveBound` (`ActiveTenantIsBound`, any adapters) from `BoundInTime`: past the
  bind phase the upstream of the attempt's tenant is bound. Nothing takes a binding
  back, so the awaits in between do no harm;
- `ActiveServed` (`ActiveTenantIsServed`) under `AllMock`. What real adapters break
  is `LoopKept`: with mocks no await gives the loop up, so attempts do not overlap at
  all and nobody redeploys between an init and the end of the attempt (`InitInTime`,
  `ActiveInit`). TLC refutes the property with any one of the three adapters real, so
  no part of `AllMock` can be left out;
- `ChannelsCounted` (`OneChannelPerAttempt`) from `ChannelRoom`: the channels of a
  tenant plus the attempts that have not come back from `create_channel` yet
  (`Unbound`) are no more than the attempts announced. The property alone is not
  inductive, since an attempt under way must have its room kept, also across the
  crash that makes several posts at once.

`TenantCreationProofs` proves that

    Inv == TypeOK /\ LoopHeld /\ Apart /\ CommitReady
           /\ ManifestMatches /\ SubdomainOwned

is inductive, and from it `TenantTypes`, `ManifestCorrect` and `SubdomainCorrect`.
`LoopHeld` says that a request between two awaits holds the loop; `Apart` that a
create differs in slug and email from every tenant and from every other open
transaction, which the lookup begins and the wait of the INSERT keeps across the
await; `CommitReady` that a request about to commit has found its subdomain free
and has written its manifest. The assumptions are the named ones of the module:
`None` is a value of its own, and the functions and sets of bodies have their
types. Any number of clients, bodies, slugs, emails, hosts and crashes is covered,
with real or mock adapters. `RegistryImplemented` is the refinement of
`TenantRegistry`: a commit of a create is a `Register`, for which `Apart` gives the
slug and the email and `CommitReady` the subdomain; an insert of a custom domain is an
`Assign`, for which `HostnameReady` keeps the tenant registered during the Cloudflare
call; every other step stutters.

`TenantRuntimeProofs` proves `TypeCorrect`, `RowsMirrorTheRuntime` and
`ProvisionDelivered`. `Mirror` needs what a deploy or delete that runs alone
may rely on at each of its steps (`LoneHolds`: the row is still the one it loaded,
or an init has written it; what it has done to cluster and file is still so), and
that rests on `Alone`: nobody is active beside a request that thinks itself alone,
and without a disturbance everybody active is. `Shapes` and `InstanceKept` say what
a request's own fields have to do with where it stands. The assumptions are those
on the constants: `None` is no request, the settings are Booleans, the bounds
natural numbers. About the statuses written from outside nothing is assumed.
`ProvisionDelivered` has two parts. The upstream of a provision that is about to
write `active` is bound (`FinalBound`), because a binding that some session has
loaded stays (`UpKept`): no operation takes one back, and the settings do not
change. The instance follows from `DeliverInv`: while a provision that thinks itself
alone is in its later phases (`Trusted`), no deploy or delete is active, and runtime
and row are as its deploy and its init left them (`Backed`). A deploy that ends
alone gives that from `Mirror` and `LoneHolds`, an init that found the row
initialised already has left it out of its UPDATE, and every deploy or delete that
begins takes `alone` away.

`RateLimiterProofs` proves the four invariants together with `Living`: what is left
of the current window is covered by the remaining lifetime of its counter
(`Covered`), no counter of a later window exists (`Future`), and a counter that was
never dropped has counted all it has admitted (`Counted`). Any quotas, threads,
window length and number of faults are covered.

`RealCanaryProofs` first proves facts about all settings: `GateClosesAll`,
`EnvImpliesPreflight`, `CanaryVerdictSuffices`,
`PreflightLeavesNoGate`, `RenderedIsDesired`, `WarnedOrOpen`. Then it proves the
five properties of `canary_runs` from

    Inv == Base /\ Housed /\ (script # None => Sound(script))

`Housed` says that an object lies in a namespace that exists; `Sound` that a running
script stands behind checks that still hold unless the API was restarted
(`Underway`), and what an open that has deployed and a cleanup that has deleted
have done to the cluster (`Effects`). Every allow list, configuration, slug, email
and kind of object is covered.

Every invariant and every action property of the passing runs, and both refinements,
are theorems. Only model-checked: liveness (`QueueDrains`, `AttemptsEnd`,
`AnsweredUnlessBlocked`, `RequestsEnd`), which rests on fairness and ENABLED, and
those the prover cannot do.

## 6. Not modelled

- Rendering and reading YAML, JSON shapes of requests and replies, labels and
  annotations: formatting.
- The verification of a domain, a changed name or plan, and tokens and admins of
  New API: columns and replies that nothing reads afterwards.
- Read-only endpoints, application start-up, the API key check, the recommended
  checks of the preflight, and the linear check and smoke scripts: they keep no
  state that a property relates.
- What follows Step 3's own create in `apply_and_cleanup.sh`, with its trap and its
  canary labels: not reachable.
- An apply that goes on in the API after the script that asked for it was
  interrupted: in `RealCanary` a call ends with the script's step.
- Which kubeconfig a kubectl in the container reads: the scripts rely on the
  compose file for it.
- The connection pool: a request that gets no connection raises before its first
  step, and no property of the present modules depends on it.
- `ProvisionJobs` and `TenantRuntime` are not composed: each takes the other's
  writers to the rows as absent, as its abstractions say.
