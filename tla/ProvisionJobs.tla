--------------------------- MODULE ProvisionJobs ---------------------------
(***************************************************************************)
(* The provision-workflow job engine of the control plane                  *)
(* (app/services/workflow_service.py behind app/api/jobs.py).              *)
(*                                                                         *)
(* One uvicorn process serves every request.  The handlers that create,    *)
(* run, retry and tick jobs are coroutines ("runners" below): all of them  *)
(* share one event loop, and one gives the loop up only while it awaits an *)
(* HTTP reply of a real New API or Sub2API.  The cancel handler is a plain *)
(* function, so it runs on a thread of the pool, beside the loop.  Every   *)
(* request has a database session of its own, which keeps the attributes   *)
(* it loaded until its next commit and writes only columns whose assigned  *)
(* value differs from the loaded one; rows are not locked and carry no     *)
(* version.                                                                *)
(*                                                                         *)
(* Timestamps are abstracted to "set or not"; the one comparison of the    *)
(* code, next_run_at > now in a tick, is kept by the sets run[r].late.     *)
(***************************************************************************)
EXTENDS Integers, FiniteSets

CONSTANTS
  None,            \* null: no key, no job, nobody on the event loop
  Tenants,         \* tenants, created by POST /tenants with deploy=true
  Keys,            \* idempotency keys
  Runners,         \* concurrent requests served by coroutines
  Cancellers,      \* concurrent cancel requests, served by pool threads
  RunModes,        \* values of `force` that clients of /run send
  Requests,        \* bodies of POST .../jobs/provision
  RetryRequests,   \* bodies of POST .../retry
  TickLimit,       \* `limit` of a worker tick
  PayloadLimit,    \* ProvisionJobRequest.max_attempts is le=10
  RealK8s,         \* real_external_enabled of each adapter
  RealNewAPI, RealSub2API,
  MaxJobs,         \* bound: jobs ever created
  AttemptBound,    \* bound: a job with this many attempts is left alone
  CrashBound       \* bound: crashes of the process

Jobs     == 1 .. MaxJobs        \* numbered in the order of created_at
Statuses == {"queued", "running", "succeeded", "failed", "cancelled"}
Phases   == {"deploy", "init", "bind", "domains", "complete"}

(* The part of the payload that is kept in job.result['request'].          *)
ReqType == [fail : Phases \cup {"none"}, dry : BOOLEAN]

RequestType ==
  [key : Keys \cup {None}, max : 1 .. PayloadLimit, inline : BOOLEAN,
   req : ReqType]

RetryType ==
  [max : Nat \cup {None}, inline : BOOLEAN, clear : BOOLEAN,
   fail : Phases \cup {"none"}]

ASSUME NoneAssumption == None \notin Tenants \cup Keys \cup Runners \cup Nat
ASSUME ActorsAssumption == IsFiniteSet(Runners)
ASSUME InputAssumption ==
  /\ Requests \subseteq RequestType
  /\ RetryRequests \subseteq RetryType
  /\ RunModes \subseteq BOOLEAN
ASSUME AdapterAssumption ==
  {RealK8s, RealNewAPI, RealSub2API} \subseteq BOOLEAN
ASSUME BoundAssumption ==
  {MaxJobs, AttemptBound, CrashBound, TickLimit, PayloadLimit} \subseteq Nat

VARIABLES
  job,       \* the deployment_jobs rows
  audit,     \* per job, how many attempt.started / succeeded / failed events
  ten,       \* per tenant, the statuses of tenant, instance and upstream
  channels,  \* per tenant, the channels New API really created
  run,       \* per runner, the coroutine and its session
  cancel,    \* per canceller, the job its thread has loaded
  loop,      \* the runner that holds the event loop, or None
  lost,      \* history: attempts of each job that a crash cut off
  crashes    \* history: crashes so far

vars == <<job, audit, ten, channels, run, cancel, loop, lost, crashes>>

-----------------------------------------------------------------------------
(* Rows, sessions and coroutines.                                          *)

NoReq == [fail |-> "none", dry |-> FALSE]

NoRow ==
  [status |-> "absent", tenant |-> None, key |-> None, attempts |-> 0,
   max |-> 0, locked |-> FALSE, next |-> FALSE, completed |-> FALSE,
   req |-> NoReq]

Row ==
  [status : Statuses, tenant : Tenants, key : Keys \cup {None},
   attempts : Nat, max : Nat, locked : BOOLEAN, next : BOOLEAN,
   completed : BOOLEAN, req : ReqType]

NewRow(t, q) ==
  [status |-> "queued", tenant |-> t, key |-> q.key, attempts |-> 0,
   max |-> q.max, locked |-> FALSE, next |-> TRUE, completed |-> FALSE,
   req |-> q.req]

(* A flush: the column is written only if the new value is not the loaded  *)
(* one.                                                                    *)
Col(current, loaded, new) == IF new = loaded THEN current ELSE new

(* Where a coroutine stands: "load" and "start" come before the commit     *)
(* that opens an attempt, the Executing ones are inside the attempt; in    *)
(* the Refreshed ones the session has read the job anew since its last     *)
(* commit, and an external call or the failure handler is under way.       *)
Refreshed == {"deploying", "initing", "binding", "failing"}
Executing == Phases \cup Refreshed \cup {"raised"}
PCs       == {"idle", "insert", "load", "start", "tick"} \cup Executing
Kinds     == {"none", "create", "enqueue", "run", "force", "retry", "tick"}

IdleRun ==
  [pc |-> "idle", kind |-> "none", job |-> None, obj |-> NoRow,
   req |-> NoReq, batch |-> {}, late |-> {}]

NoCancel == [job |-> None, obj |-> NoRow]

Init ==
  /\ job = [j \in Jobs |-> NoRow]
  /\ audit = [j \in Jobs |-> [started |-> 0, succeeded |-> 0, failed |-> 0]]
  /\ ten = [t \in Tenants |->
              [status |-> "manifest_generated", instance |-> "generated",
               upstream |-> "created"]]
  /\ channels = [t \in Tenants |-> 0]
  /\ run = [r \in Runners |-> IdleRun]
  /\ cancel = [c \in Cancellers |-> NoCancel]
  /\ loop = None
  /\ lost = [j \in Jobs |-> 0]
  /\ crashes = 0

(* The tenant of the job a runner works on.                                *)
TenantOf(r) == job[run[r].job].tenant

(* What the coroutine does after a job: a tick goes on with the rest of    *)
(* its batch on the loop it still holds, any other handler returns.        *)
Rest(a) ==
  IF a.batch = {} THEN IdleRun
  ELSE [IdleRun EXCEPT !.pc = "tick", !.kind = "tick",
                       !.batch = a.batch, !.late = a.late]

(* Mutant: the handler returns and keeps the loop.                         *)
LoopAfterKept(r) == r

LoopAfter(r) == IF run[r].batch = {} THEN None ELSE r

(* next_run_at of job j was set after the ticks under way read the clock.  *)
Postponed(f, j) ==
  [r \in Runners |-> IF j \in f[r].batch
                     THEN [f[r] EXCEPT !.late = @ \cup {j}]
                     ELSE f[r]]

(* The coroutine goes on to pc, its session expired by a commit.           *)
Proceed(r, pc) == run' = [run EXCEPT ![r].pc = pc, ![r].obj = NoRow]

(* The coroutine goes on to pc, its session refreshed by a read.           *)
Refresh(r, pc) ==
  run' = [run EXCEPT ![r].pc = pc, ![r].obj = job[run[r].job]]

(* An await on a real adapter gives the loop up; on a mock it does not.    *)
Released(real, r) == IF real THEN None ELSE r

Begins(r) == loop = None /\ run[r].pc = "idle"

-----------------------------------------------------------------------------
(* POST .../jobs/provision.  A key that is known returns the existing job  *)
(* and changes no row, so only the other case is a step: first the SELECT, *)
(* then the INSERT and its commit.                                         *)

(* Mutant: only unfinished jobs are looked up.                             *)
IdempotentUnfinished(t, k) ==
  {j \in Jobs : /\ k # None /\ job[j].tenant = t /\ job[j].key = k
                /\ job[j].status \in {"queued", "running"}}

IdempotentJobs(t, k) ==
  {j \in Jobs : k # None /\ job[j].tenant = t /\ job[j].key = k}

Submit(r, t, q) ==
  /\ Begins(r)
  /\ \E j \in Jobs : job[j] = NoRow
  /\ IdempotentJobs(t, q.key) = {}
  /\ run' = [run EXCEPT ![r] =
               [IdleRun EXCEPT !.pc = "insert", !.obj = NewRow(t, q),
                               !.kind = IF q.inline THEN "create"
                                        ELSE "enqueue"]]
  /\ loop' = r
  /\ UNCHANGED <<job, audit, ten, channels, cancel, lost, crashes>>

Insert(r) ==
  /\ run[r].pc = "insert"
  /\ \E j \in Jobs :
       /\ job[j] = NoRow
       /\ \A i \in 1 .. (j - 1) : job[i] # NoRow
       /\ job' = [job EXCEPT ![j] = run[r].obj]
       /\ \/ /\ run[r].kind = "create"
             /\ run' = [run EXCEPT ![r].pc = "load", ![r].job = j,
                                   ![r].obj = NoRow]
             /\ UNCHANGED loop
          \/ /\ run[r].kind = "enqueue"
             /\ run' = [run EXCEPT ![r] = IdleRun]
             /\ loop' = None
  /\ UNCHANGED <<audit, ten, channels, cancel, lost, crashes>>

(* POST /jobs/{id}/run.                                                    *)
RunRequest(r, j, force) ==
  /\ Begins(r)
  /\ job[j] # NoRow
  /\ job[j].attempts < AttemptBound
  /\ run' = [run EXCEPT ![r] =
               [IdleRun EXCEPT !.pc = "load", !.job = j,
                               !.kind = IF force THEN "force" ELSE "run"]]
  /\ loop' = r
  /\ UNCHANGED <<job, audit, ten, channels, cancel, lost, crashes>>

(* Rebuilding the payload from the row fails validation above the limit.   *)
Readable(row) == row.max <= PayloadLimit

(* POST /jobs/{id}/retry, up to its commit.  The UPDATE writes every       *)
(* column a cancel thread may write, so load and commit are one step.      *)
(* Mutant: an absent max_attempts of the body is copied to the row.        *)
RetryMaxUnchecked(row, q) == q.max

RetryMax(row, q) ==
  IF q.max # None THEN q.max
  ELSE IF row.attempts >= row.max THEN row.attempts + 1
  ELSE row.max

(* Mutant: a retry starts counting attempts from zero.                     *)
RetriedRowReset(row, q) ==
  [row EXCEPT !.status = "queued", !.max = RetryMax(row, q), !.attempts = 0,
              !.completed = FALSE, !.locked = FALSE, !.next = TRUE]

RetriedRow(row, q) ==
  [row EXCEPT
     !.status = "queued", !.max = RetryMax(row, q), !.completed = FALSE,
     !.locked = FALSE, !.next = TRUE,
     !.req.fail = IF q.fail # "none" THEN q.fail
                  ELSE IF q.clear THEN "none" ELSE @]

Retry(r, j, q) ==
  /\ Begins(r)
  /\ job[j].status \in {"failed", "cancelled"}
  /\ Readable(job[j])
  /\ job[j].attempts < AttemptBound
  /\ job' = [job EXCEPT ![j] = RetriedRow(@, q)]
  /\ \/ /\ q.inline
        /\ run' = Postponed([run EXCEPT ![r] =
                               [IdleRun EXCEPT !.pc = "load", !.job = j,
                                               !.kind = "retry"]], j)
        /\ loop' = r
     \/ /\ ~q.inline
        /\ run' = Postponed(run, j)
        /\ UNCHANGED loop
  /\ UNCHANGED <<audit, ten, channels, cancel, lost, crashes>>

-----------------------------------------------------------------------------
(* POST /workers/mock/provision/tick.                                      *)

(* Mutant: the tick selects the jobs without next_run_at.                  *)
QueuedUnscheduled == {j \in Jobs : job[j].status = "queued" /\ ~job[j].next}

QueuedJobs == {j \in Jobs : job[j].status = "queued"}

TickList(r) ==
  /\ Begins(r)
  /\ QueuedJobs # {}
  /\ run' = [run EXCEPT ![r] =
               [IdleRun EXCEPT
                  !.pc = "tick", !.kind = "tick",
                  !.batch = {j \in QueuedJobs :
                     Cardinality({i \in QueuedJobs : i <= j}) <= TickLimit}]]
  /\ loop' = r
  /\ UNCHANGED <<job, audit, ten, channels, cancel, lost, crashes>>

(* The next job of the batch: passed over if its next_run_at lies after    *)
(* the clock reading of this tick, else claimed.                           *)
TickNext(r) ==
  /\ run[r].pc = "tick"
  /\ \E j \in run[r].batch :
       LET rest == [run[r] EXCEPT !.batch = @ \ {j}, !.late = @ \ {j}]
       IN /\ \A i \in run[r].batch : j <= i
          /\ \/ /\ job[j].next /\ j \in run[r].late
                /\ run' = [run EXCEPT ![r] = Rest(rest)]
                /\ loop' = IF rest.batch = {} THEN None ELSE r
             \/ /\ ~(job[j].next /\ j \in run[r].late)
                /\ run' = [run EXCEPT ![r] = [rest EXCEPT !.pc = "load",
                                                          !.job = j]]
                /\ UNCHANGED loop
  /\ UNCHANGED <<job, audit, ten, channels, cancel, lost, crashes>>

-----------------------------------------------------------------------------
(* run_provision_job_inline: the guards, then the commit that opens the    *)
(* attempt.  Between the two only a cancel thread can move.                *)

Forced(kind) == kind \in {"force", "retry"}

(* Mutants: the guards let an exhausted, a running or a failed job pass.   *)
RefusedLate(kind, row) ==
  ~Forced(kind) /\ ( row.status \in {"cancelled", "running", "failed"}
                     \/ row.attempts > row.max )

RefusedUnlessRunning(kind, row) ==
  ~Forced(kind) /\ row.status \in {"cancelled", "failed"}

RefusedUnlessFailed(kind, row) ==
  ~Forced(kind) /\ row.status \in {"cancelled", "running"}

(* An exception before the attempt: a 409 of the guards, or the payload of *)
(* the row does not validate.  It also ends a tick's whole batch.          *)
Refused(kind, row) ==
  \/ kind \in {"run", "force", "tick"} /\ ~Readable(row)
  \/ /\ ~Forced(kind)
     /\ row.status # "succeeded"
     /\ \/ row.status \in {"cancelled", "running", "failed"}
        \/ row.attempts >= row.max

Refuse(r) ==
  /\ run[r].pc = "load"
  /\ Refused(run[r].kind, job[run[r].job])
  /\ run' = [run EXCEPT ![r] = IdleRun]
  /\ loop' = None
  /\ UNCHANGED <<job, audit, ten, channels, cancel, lost, crashes>>

(* Mutant: a succeeded job is run again.                                   *)
AlreadyDoneIgnored(row) == FALSE

(* A succeeded job is returned as it is, forced or not.                    *)
AlreadyDone(row) == row.status = "succeeded"

Load(r) ==
  LET row == job[run[r].job]
  IN /\ run[r].pc = "load"
     /\ ~Refused(run[r].kind, row)
     /\ \/ /\ AlreadyDone(row)
           /\ run' = [run EXCEPT ![r] = Rest(@)]
           /\ loop' = LoopAfter(r)
        \/ /\ ~AlreadyDone(row)
           /\ run' = [run EXCEPT ![r].pc = "start", ![r].obj = row,
                                 ![r].req = row.req]
           /\ UNCHANGED loop
     /\ UNCHANGED <<job, audit, ten, channels, cancel, lost, crashes>>

StartedRow(row, obj) ==
  [row EXCEPT
     !.status = Col(@, obj.status, "running"), !.attempts = obj.attempts + 1,
     !.max = obj.max, !.locked = TRUE, !.next = Col(@, obj.next, FALSE),
     !.completed = Col(@, obj.completed, FALSE), !.req = obj.req]

Start(r) ==
  /\ run[r].pc = "start"
  /\ job' = [job EXCEPT ![run[r].job] = StartedRow(@, run[r].obj)]
  /\ audit' = [audit EXCEPT ![run[r].job].started = @ + 1]
  /\ Proceed(r, "deploy")
  /\ UNCHANGED <<ten, channels, cancel, loop, lost, crashes>>

-----------------------------------------------------------------------------
(* The attempt.  A phase begins with a refresh of the job and the tenant,  *)
(* calls out, and ends with a commit.                                      *)

(* Mutant: a job that can be retried keeps its status.                     *)
FailedRowOpen(row, obj, req) ==
  [row EXCEPT !.status = IF obj.attempts >= obj.max THEN "failed" ELSE @,
              !.completed = TRUE, !.locked = FALSE, !.req = req]

(* Columns that the failure handler writes over the row, given the         *)
(* attributes its session holds.                                           *)
FailedRow(row, obj, req) ==
  [row EXCEPT
     !.status = Col(@, obj.status, "failed"), !.completed = TRUE,
     !.locked = Col(@, obj.locked, FALSE),
     !.next = IF obj.attempts >= obj.max THEN Col(@, obj.next, FALSE)
              ELSE TRUE,
     !.req = req]

(* The except branch, up to its commit and on to the rest of a tick.       *)
FailAttempt(r, obj) ==
  LET j == run[r].job
      f == [run EXCEPT ![r] = Rest(@)]
  IN /\ job' = [job EXCEPT ![j] = FailedRow(@, obj, run[r].req)]
     /\ audit' = [audit EXCEPT ![j].failed = @ + 1]
     /\ run' = IF obj.attempts >= obj.max THEN f ELSE Postponed(f, j)
     /\ loop' = LoopAfter(r)

(* A failure raised right after a commit: the handler reads the job, and a *)
(* cancel thread may move before its own commit.                           *)
Handle(r) ==
  /\ run[r].pc = "raised"
  /\ Refresh(r, "failing")
  /\ UNCHANGED <<job, audit, ten, channels, cancel, loop, lost, crashes>>

Fail(r) ==
  /\ run[r].pc = "failing"
  /\ FailAttempt(r, run[r].obj)
  /\ UNCHANGED <<ten, channels, cancel, lost, crashes>>

(* Mutants of the next: the exception escapes the handler, and it is       *)
(* swallowed.                                                              *)
MaybeFailEscapes(r) ==
  /\ run[r].pc \in Phases
  /\ run[r].req.fail = run[r].pc
  /\ run' = [run EXCEPT ![r] = IdleRun]
  /\ loop' = None
  /\ UNCHANGED <<job, audit, ten, channels, cancel, lost, crashes>>

MaybeFailSwallowed(r) ==
  /\ run[r].pc \in Phases \ {"complete"}
  /\ run[r].req.fail = run[r].pc
  /\ Proceed(r, "complete")
  /\ UNCHANGED <<job, audit, ten, channels, cancel, loop, lost, crashes>>

(* simulate_failure_phase: raises, and the handler reads the job.          *)
MaybeFail(r) ==
  /\ run[r].pc \in Phases
  /\ run[r].req.fail = run[r].pc
  /\ Refresh(r, "failing")
  /\ UNCHANGED <<job, audit, ten, channels, cancel, loop, lost, crashes>>

(* A phase begins: the session refreshes the job, the call goes out.       *)
Call(r, phase, calling, real) ==
  /\ run[r].pc = phase
  /\ run[r].req.fail # phase
  /\ Refresh(r, calling)
  /\ loop' = Released(real, r)
  /\ UNCHANGED <<job, audit, ten, channels, cancel, lost, crashes>>

(* The reply is there and the runner has the loop (again).                 *)
Resumes(r, calling, real) ==
  /\ run[r].pc = calling
  /\ loop = Released(real, r)

(* kubectl runs on the loop, synchronously.                                *)
DeployCall(r) == Call(r, "deploy", "deploying", FALSE)

MockDeploy(r) == run[r].req.dry \/ ~RealK8s

DeployOk(r) ==
  /\ Resumes(r, "deploying", FALSE)
  /\ ten' = [ten EXCEPT
       ![TenantOf(r)].instance =
          IF MockDeploy(r) THEN "running_mock" ELSE "running",
       ![TenantOf(r)].status =
          IF MockDeploy(r) THEN "runtime_ready_mock" ELSE "runtime_ready"]
  /\ Proceed(r, "init")
  /\ UNCHANGED <<job, audit, channels, cancel, loop, lost, crashes>>

(* kubectl reports an error: deploy_instance commits it and raises.  The   *)
(* resource query comes after tenant.status was assigned.                  *)
DeployRefused(r) ==
  /\ Resumes(r, "deploying", FALSE)
  /\ ~MockDeploy(r)
  /\ \E bad \in {"apply_failed", "not_ready", "resource_query_failed"} :
       ten' = [ten EXCEPT
         ![TenantOf(r)].instance = bad,
         ![TenantOf(r)].status =
            IF bad = "apply_failed" THEN bad
            ELSE IF bad = "resource_query_failed" THEN "runtime_ready"
            ELSE @]
  /\ Proceed(r, "raised")
  /\ UNCHANGED <<job, audit, channels, cancel, loop, lost, crashes>>

(* kubectl times out: nothing was committed, the failure handler commits   *)
(* what the phase had assigned (queried: the timeout hit the last call).   *)
DeployTimeout(r, queried) ==
  /\ Resumes(r, "deploying", FALSE)
  /\ ~MockDeploy(r)
  /\ ten' = IF queried
            THEN [ten EXCEPT ![TenantOf(r)].instance = "running",
                             ![TenantOf(r)].status = "runtime_ready"]
            ELSE ten
  /\ FailAttempt(r, run[r].obj)
  /\ UNCHANGED <<channels, cancel, lost, crashes>>

(* init_newapi awaits create_token; the reply's `ok` is not looked at.     *)
InitCall(r) == Call(r, "init", "initing", RealNewAPI)

Initialized == IF RealNewAPI THEN "newapi_initialized"
               ELSE "newapi_initialized_mock"

InitOk(r) ==
  /\ Resumes(r, "initing", RealNewAPI)
  /\ ten' = [ten EXCEPT ![TenantOf(r)].instance = Initialized,
                        ![TenantOf(r)].status = Initialized]
  /\ loop' = r
  /\ Proceed(r, "bind")
  /\ UNCHANGED <<job, audit, channels, cancel, lost, crashes>>

InitError(r) ==
  /\ RealNewAPI
  /\ Resumes(r, "initing", RealNewAPI)
  /\ FailAttempt(r, run[r].obj)
  /\ UNCHANGED <<ten, channels, cancel, lost, crashes>>

(* bind_upstream awaits verify_key (which never raises), then              *)
(* create_channel, whose `ok` is not looked at either: made = FALSE stands *)
(* for a reply that is not 2xx.                                            *)
BindCall(r) == Call(r, "bind", "binding", RealNewAPI \/ RealSub2API)

Bound == IF RealNewAPI /\ RealSub2API THEN "bound" ELSE "bound_mock"

BindOk(r, made) ==
  /\ Resumes(r, "binding", RealNewAPI \/ RealSub2API)
  /\ made => RealNewAPI
  /\ ten' = [ten EXCEPT
       ![TenantOf(r)].upstream = Bound,
       ![TenantOf(r)].status = IF Bound = "bound" THEN "upstream_bound"
                               ELSE "upstream_bound_mock"]
  /\ channels' = IF made THEN [channels EXCEPT ![TenantOf(r)] = @ + 1]
                 ELSE channels
  /\ loop' = r
  /\ Proceed(r, "domains")
  /\ UNCHANGED <<job, audit, cancel, lost, crashes>>

(* Mutant: an HTTP error has the call repeated in place.                   *)
BindErrorRepeated(r, made) ==
  /\ RealNewAPI
  /\ Resumes(r, "binding", RealNewAPI \/ RealSub2API)
  /\ channels' = IF made THEN [channels EXCEPT ![TenantOf(r)] = @ + 1]
                 ELSE channels
  /\ loop' = r
  /\ Proceed(r, "bind")
  /\ UNCHANGED <<job, audit, ten, cancel, lost, crashes>>

(* An HTTP error; with made, the channel exists and only its reply is lost. *)
BindError(r, made) ==
  /\ RealNewAPI
  /\ Resumes(r, "binding", RealNewAPI \/ RealSub2API)
  /\ channels' = IF made THEN [channels EXCEPT ![TenantOf(r)] = @ + 1]
                 ELSE channels
  /\ FailAttempt(r, run[r].obj)
  /\ UNCHANGED <<ten, cancel, lost, crashes>>

(* verify_domain of every domain, if the payload says so.  The Cloudflare  *)
(* client never calls out to verify, so nothing here awaits or raises, and *)
(* the outcome goes to the domain rows, which no job reads.                *)
Domains(r) ==
  /\ run[r].pc = "domains"
  /\ run[r].req.fail # "domains"
  /\ Proceed(r, "complete")
  /\ UNCHANGED <<job, audit, ten, channels, cancel, loop, lost, crashes>>

(* The session is expired here, so status is written whatever the row says. *)
SucceededRow(row, req) ==
  [row EXCEPT !.status = "succeeded", !.completed = TRUE, !.locked = FALSE,
              !.next = FALSE, !.req = req]

Complete(r) ==
  /\ run[r].pc = "complete"
  /\ run[r].req.fail # "complete"
  /\ job' = [job EXCEPT ![run[r].job] = SucceededRow(@, run[r].req)]
  /\ audit' = [audit EXCEPT ![run[r].job].succeeded = @ + 1]
  /\ ten' = [ten EXCEPT ![TenantOf(r)].status =
               IF MockDeploy(r) THEN "active_mock" ELSE "active"]
  /\ run' = [run EXCEPT ![r] = Rest(@)]
  /\ loop' = LoopAfter(r)
  /\ UNCHANGED <<channels, cancel, lost, crashes>>

-----------------------------------------------------------------------------
(* POST /jobs/{id}/cancel, on a thread: the check, then the commit.        *)

CancelLoad(c, j) ==
  /\ cancel[c] = NoCancel
  /\ job[j].status = "queued"
  /\ cancel' = [cancel EXCEPT ![c] = [job |-> j, obj |-> job[j]]]
  /\ UNCHANGED <<job, audit, ten, channels, run, loop, lost, crashes>>

CancelledRow(row, obj) ==
  [row EXCEPT !.status = "cancelled", !.completed = TRUE,
              !.locked = Col(@, obj.locked, FALSE),
              !.next = Col(@, obj.next, FALSE)]

CancelCommit(c) ==
  /\ cancel[c] # NoCancel
  /\ job' = [job EXCEPT ![cancel[c].job] = CancelledRow(@, cancel[c].obj)]
  /\ cancel' = [cancel EXCEPT ![c] = NoCancel]
  /\ UNCHANGED <<audit, ten, channels, run, loop, lost, crashes>>

(* An attempt is open from the commit that starts it to the one that ends  *)
(* it.                                                                     *)
Open(r, j) == run[r].job = j /\ run[r].pc \in Executing

OpenRunners(j) == {r \in Runners : Open(r, j)}

(* The channels a crash may leave behind: create_channel was posted and    *)
(* nobody waits for the reply any more.                                    *)
Posted ==
  SUBSET {r \in Runners : RealNewAPI /\ run[r].pc = "binding"}

(* The process dies and the container restarts it: coroutines, threads and *)
(* uncommitted transactions are gone, rows stay, and so does what New API  *)
(* was asked to make.                                                      *)
Crash ==
  /\ crashes < CrashBound
  /\ crashes' = crashes + 1
  /\ lost' = [j \in Jobs |-> lost[j] + Cardinality(OpenRunners(j))]
  /\ run' = [r \in Runners |-> IdleRun]
  /\ cancel' = [c \in Cancellers |-> NoCancel]
  /\ loop' = None
  /\ \E made \in Posted :
       channels' = [t \in Tenants |-> channels[t]
                      + Cardinality({r \in made : TenantOf(r) = t})]
  /\ UNCHANGED <<job, audit, ten>>

-----------------------------------------------------------------------------
(* Requests arrive when clients like; the steps of a runner are its own.   *)

Arrive(r) ==
  \/ \E t \in Tenants, q \in Requests : Submit(r, t, q)
  \/ \E j \in Jobs, force \in RunModes : RunRequest(r, j, force)
  \/ \E j \in Jobs, q \in RetryRequests : Retry(r, j, q)
  \/ TickList(r)

Execute(r) ==
  \/ MaybeFail(r) \/ Handle(r) \/ Fail(r)
  \/ DeployCall(r) \/ DeployOk(r) \/ DeployRefused(r)
  \/ \E queried \in BOOLEAN : DeployTimeout(r, queried)
  \/ InitCall(r) \/ InitOk(r) \/ InitError(r)
  \/ BindCall(r)
  \/ \E made \in BOOLEAN : BindOk(r, made) \/ BindError(r, made)
  \/ Domains(r) \/ Complete(r)

Advance(r) ==
  \/ Insert(r) \/ TickNext(r) \/ Refuse(r) \/ Load(r) \/ Start(r)
  \/ Execute(r)

Next ==
  \/ \E r \in Runners : Arrive(r) \/ Advance(r)
  \/ \E c \in Cancellers : (\E j \in Jobs : CancelLoad(c, j)) \/ CancelCommit(c)
  \/ Crash

Spec == Init /\ [][Next]_vars

(* A runner that could move infinitely often does: asyncio runs the ready  *)
(* callbacks in FIFO order, and an awaited call ends at its HTTP timeout.  *)
(* Threads finish, and some client keeps calling the tick endpoint.        *)
FairSpec ==
  /\ Spec
  /\ \A r \in Runners : SF_vars(Advance(r))
  /\ \A c \in Cancellers : WF_vars(CancelCommit(c))
  /\ SF_vars(\E r \in Runners : TickList(r))

-----------------------------------------------------------------------------
(* Properties.                                                             *)

RunType ==
  [pc : PCs, kind : Kinds, job : Jobs \cup {None}, obj : Row \cup {NoRow},
   req : ReqType, batch : SUBSET Jobs, late : SUBSET Jobs]

TenantType ==
  [status : {"manifest_generated", "runtime_ready", "runtime_ready_mock",
             "newapi_initialized", "newapi_initialized_mock",
             "upstream_bound", "upstream_bound_mock", "active",
             "active_mock", "apply_failed"},
   instance : {"generated", "running", "running_mock", "newapi_initialized",
               "newapi_initialized_mock", "apply_failed", "not_ready",
               "resource_query_failed"},
   upstream : {"created", "bound", "bound_mock"}]

(* Types, and that whatever is at work on a job points to an existing row  *)
(* with the session state its program counter needs.                       *)
TypeOK ==
  /\ job \in [Jobs -> Row \cup {NoRow}]
  /\ audit \in [Jobs -> [started : Nat, succeeded : Nat, failed : Nat]]
  /\ ten \in [Tenants -> TenantType]
  /\ channels \in [Tenants -> Nat]
  /\ run \in [Runners -> RunType]
  /\ cancel \in [Cancellers -> {NoCancel} \cup [job : Jobs, obj : Row]]
  /\ loop \in Runners \cup {None}
  /\ lost \in [Jobs -> Nat]
  /\ crashes \in Nat
  /\ \A r \in Runners :
       /\ run[r].pc \in {"load", "start"} \cup Executing =>
            run[r].job \in Jobs /\ job[run[r].job] \in Row
       /\ run[r].pc \in {"insert", "start"} \cup Refreshed => run[r].obj \in Row
       /\ \A j \in run[r].batch : job[j] \in Row
  /\ \A c \in Cancellers :
       cancel[c] # NoCancel => job[cancel[c].job] \in Row

(* Every attempt that the audit trail announced is in job.attempts: no     *)
(* increment computed from a loaded row is lost, whoever runs, retries,    *)
(* ticks or cancels meanwhile (workflow_service.py:184-197).               *)
AttemptsAreCounted == \A j \in Jobs : job[j].attempts = audit[j].started

(* Every announced attempt is still open, was cut off by a crash, or has   *)
(* exactly one job.succeeded or job.failed event (lines 238-272).          *)
AttemptsAccounted ==
  \A j \in Jobs :
    audit[j].started = audit[j].succeeded + audit[j].failed + lost[j]
                       + Cardinality(OpenRunners(j))

(* A row says running only while an attempt that will write an outcome is  *)
(* open, or after a crash: no late or stale write leaves it so.            *)
RunningIsOwned ==
  \A j \in Jobs :
    job[j].status = "running" => lost[j] > 0 \/ OpenRunners(j) # {}

(* An idempotency key names one job of its tenant, so the lookup           *)
(* (scalar_one_or_none, lines 70-81) never meets two rows.                 *)
KeysUnique ==
  \A i, j \in Jobs :
    /\ job[i].key = job[j].key /\ job[i].key # None
    /\ job[i].tenant = job[j].tenant
    => i = j

(* An attempt that starts without force stays within max_attempts, though  *)
(* the check and the increment are made on a loaded copy (lines 178-185).  *)
WithinBudget ==
  [][\A r \in Runners :
       run[r].pc = "start" /\ run'[r].pc = "deploy" /\ ~Forced(run[r].kind) =>
         job'[run[r].job].attempts <= job'[run[r].job].max]_vars

(* Without forced runs and without cancel threads, at most one attempt of  *)
(* a job is open at any time.                                              *)
OneAttemptAtATime == \A j \in Jobs : Cardinality(OpenRunners(j)) <= 1

(* Under the same conditions success is final: no run, retry, tick or      *)
(* stale failure takes a job out of succeeded.                             *)
SucceededIsFinal ==
  [][\A j \in Jobs :
       job[j].status = "succeeded" => job'[j].status = "succeeded"]_vars

(* Under the same conditions the engine implements the documented          *)
(* lifecycle (docs/WORKFLOW_WORKER.md).                                    *)
Lifecycle == INSTANCE JobLifecycle WITH
  st   <- [j \in Jobs |-> job[j].status],
  open <- {j \in Jobs : OpenRunners(j) # {}}

ImplementsLifecycle == Lifecycle!LifecycleSpec

(* With mock adapters an active tenant is really served: its instance is   *)
(* initialized and its upstream bound, also while another attempt for the  *)
(* same tenant has started or failed half way (lines 198-251).             *)
ActiveTenantIsServed ==
  \A t \in Tenants :
    ten[t].status \in {"active", "active_mock"} =>
      /\ ten[t].instance \in {"newapi_initialized", "newapi_initialized_mock"}
      /\ ten[t].upstream \in {"bound", "bound_mock"}
      /\ \E j \in Jobs : job[j].tenant = t /\ audit[j].succeeded > 0

(* With any adapters, forced runs, cancels and crashes, a tenant is active *)
(* only after some job of its own succeeded, and its upstream is recorded  *)
(* as bound, whatever attempt came to its complete phase by whatever       *)
(* interleaving (lines 198-251).                                           *)
ActiveTenantIsBound ==
  \A t \in Tenants :
    ten[t].status \in {"active", "active_mock"} =>
      /\ ten[t].upstream \in {"bound", "bound_mock"}
      /\ \E j \in Jobs : job[j].tenant = t /\ audit[j].succeeded > 0

(* The attempts made on the jobs of tenant t, numbered per job.            *)
AttemptsOf(t) ==
  UNION {{j} \X (1 .. audit[j].started) : j \in {i \in Jobs : job[i].tenant = t}}

(* However often jobs of a tenant fail, are retried, forced, run beside    *)
(* one another or are cut off after create_channel, New API holds at most  *)
(* one channel of the tenant for every attempt that was announced: nothing *)
(* inside an attempt posts twice (tenant_service.py:331-357).              *)
OneChannelPerAttempt ==
  \A t \in Tenants : channels[t] <= Cardinality(AttemptsOf(t))

(* A queued job does not stay queued: the tick gets to it, also when older *)
(* jobs fail and are retried in between (lines 349-374).                   *)
QueueDrains ==
  \A j \in Jobs : job[j].status = "queued" ~> job[j].status # "queued"

(* An open attempt ends, whoever else takes the event loop in its awaits.  *)
AttemptsEnd ==
  \A r \in Runners : run[r].pc \in Executing ~> run[r].pc \notin Executing

(* docs/WORKFLOW_WORKER.md:58, "only queued / pending can be cancelled".   *)
CancelOnlyQueued ==
  [][\A j \in Jobs :
       job'[j].status = "cancelled" => job[j].status \in {"queued", "cancelled"}
    ]_vars

=============================================================================
